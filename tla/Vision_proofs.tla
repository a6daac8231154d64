--------------------------- MODULE Vision_proofs ---------------------------
(***************************************************************************)
(* Proofs about what the scheduler and the executor do with the camera.    *)
(*   SubjectMatch  for any people, looks, places, frames, template images  *)
(*                 and deviations of histograms: the weights of the        *)
(*                 detector keep it with its subject when the numbers      *)
(*                 leave room for it                                       *)
(*   FrameServo    for every first box and every answer of the stand-in    *)
(*                 and of a camera within the stated range: why a loop is  *)
(*                 given up, that a correction of the planner helps, and   *)
(*                 when max_iters suffice                                  *)
(* The conditions on the numbers hold in MCSubjectMatch and MCFrameServo.  *)
(***************************************************************************)
EXTENDS SubjectMatch, FrameServo, TLAPS, WellFoundedInduction

-----------------------------------------------------------------------------
(* SubjectMatch: what is remembered and what the template keeps.           *)

\* What is remembered is what was returned.
Remembers == last_bbox = result.at /\ last_hist = result.look

\* Two looks of people who are met, of which the images recognise the first alone.
Told(a, b) == Met(a, b) /\ fresh[a] >= Same /\ fresh[b] <= Other

\* What is left of their difference in similarity after so many strays.
Left(n) == Same - Other - n * Loss

\* There is a template when the images gave one, and it tells the people apart.
Keeps ==
  /\ (template = NoTemplate) = (fresh = NoTemplate)
  /\ fresh # NoTemplate /\ strays <= Strays =>
       \A a, b \in Looks : Told(a, b) => template[a] - template[b] >= Left(strays)

-----------------------------------------------------------------------------
(* The template.                                                           *)

\* A quotient by a positive divisor, and its remainder.
LEMMA Quotient ==
  ASSUME NEW n \in Int, NEW m \in Nat \ {0}
  PROVE  /\ n \div m \in Int
         /\ m * (n \div m) <= n /\ n < m * (n \div m) + m
<1>1. /\ n = m * (n \div m) + (n % m) /\ n % m >= 0 /\ n % m < m
      /\ n \div m \in Int /\ n % m \in Int
  OBVIOUS
<1> QED BY <1>1

\* A difference that is a multiple of the divisor survives the division.
LEMMA QuotientGap ==
  ASSUME NEW n \in Int, NEW i \in Int, NEW m \in Nat \ {0}, NEW r \in Int, i >= n + m * r
  PROVE  i \div m >= n \div m + r
<1>1. PICK q \in Int : q = n \div m /\ m * q <= n
  BY Quotient
<1>2. PICK p \in Int : p = i \div m /\ i < m * p + m
  BY Quotient
<1>3. m * q + m * r < m * p + m
  BY <1>1, <1>2
<1>4. ASSUME p < q + r PROVE FALSE
  <2>1. p + 1 <= q + r
    BY <1>4
  <2>2. PICK d \in Nat : q + r = p + 1 + d
    <3>1. q + r - (p + 1) \in Nat BY <2>1
    <3> QED BY <3>1
  <2>3. m * (q + r) = m * p + m + m * d /\ m * (q + r) = m * q + m * r
    <3>1. m * (q + r) = m * (p + 1 + d) BY <2>2
    <3> QED BY <3>1
  <2>4. m * d >= 0
    OBVIOUS
  <2> QED BY <1>3, <2>3, <2>4
<1> QED BY <1>1, <1>2, <1>4

\* Products of what is not negative keep the order.
LEMMA TimesMore ==
  ASSUME NEW c \in Nat, NEW x \in Int, NEW y \in Int, x <= y
  PROVE  c * x <= c * y
<1>1. PICK d \in Nat : y = x + d
  <2>1. y - x \in Nat OBVIOUS
  <2> QED BY <2>1
<1>2. c * y = c * x + c * d /\ c * d >= 0
  BY <1>1
<1> QED BY <1>2

\* The lead of one sum over another, in units of their weight, is at least kept when
\* the two are stretched.
LEMMA StretchKeeps ==
  ASSUME NEW i \in Int, NEW n \in Int, NEW m \in Nat \ {0}, NEW k \in Nat, k >= 100,
         NEW r \in Nat, i >= n + m * r
  PROVE  Stretched(i, m, k) - Stretched(n, m, k) >= r
<1>1. k * (n + m * r) <= k * i
  BY TimesMore
<1>2. 100 * (m * r) <= k * (m * r)
  <2>1. m * r \in Nat
    OBVIOUS
  <2>2. (m * r) * 100 <= (m * r) * k
    BY <2>1, TimesMore
  <2> QED BY <2>1, <2>2
<1>3. k * i >= k * n + (100 * m) * r
  <2>1. k * (n + m * r) = k * n + k * (m * r) /\ (100 * m) * r = 100 * (m * r)
    OBVIOUS
  <2> QED BY <1>1, <1>2, <2>1
<1>4. /\ k * i \in Int /\ k * n \in Int /\ 100 * m \in Nat \ {0}
  OBVIOUS
<1>5. (k * i) \div (100 * m) >= (k * n) \div (100 * m) + r
  BY <1>3, <1>4, QuotientGap
<1>6. (k * i) \div (100 * m) \in Int /\ (k * n) \div (100 * m) \in Int
  BY <1>4, Quotient
<1> QED BY <1>5, <1>6 DEF Stretched

LEMMA TemplateRange == ASSUME NEW t \in Template, NEW l \in Looks PROVE t[l] \in Int
<1> DEFINE units == 0..10000
<1>1. units \subseteq Int
  OBVIOUS
<1>2. t \in [Looks -> units]
  BY DEF Template
<1> HIDE DEF units
<1> QED BY <1>1, <1>2

LEMMA TemplateInt ==
  ASSUME NEW t \in Template \cup {NoTemplate}
  PROVE  t # NoTemplate => t \in Template /\ \A l \in Looks : t[l] \in Int
  BY TemplateRange

\* What a template becomes by learning is one.
LEMMA LearntType ==
  ASSUME NEW t \in Template \cup {NoTemplate}, NEW look \in Looks, NEW u \in Learnt(t, look)
  PROVE  /\ u \in Template \cup {NoTemplate}
         /\ (u = NoTemplate) = (t = NoTemplate)
<1>1. CASE t = NoTemplate
  BY <1>1 DEF Learnt
<1>2. CASE t # NoTemplate
  <2>1. u \in Template
    BY <1>2 DEF Learnt
  <2>2. u # NoTemplate
    BY <2>1 DEF Template, NoTemplate
  <2> QED BY <1>2, <2>1, <2>2
<1> QED BY <1>1, <1>2

LEMMA AlikeInt ==
  ASSUME NEW look \in Looks, NEW x \in Looks
  PROVE  /\ Alike[look][x] \in Int /\ Alike[look][x] >= Low /\ Alike[look][x] <= 10000
<1>1. Alike[look][x] \in Share /\ Low \in Nat
  BY SubjectAssumption
<1> QED BY <1>1 DEF Share

LEMMA AlikeIsInt == ASSUME NEW look \in Looks, NEW x \in Looks PROVE Alike[look][x] \in Int
  BY AlikeInt

\* The lead of x over y in a template that learns.
LEMMA LearnKeeps ==
  ASSUME NEW t \in Template, NEW look \in Looks, NEW x \in Looks, NEW y \in Looks,
         NEW a \in Deviations, NEW b \in Deviations, NEW k \in Stretches, NEW r \in Nat,
         96 * a * (t[x] - t[y]) + 4 * b * (Alike[look][x] - Alike[look][y])
           >= (96 * a + 4 * b) * r
  PROVE  Learn(t, look, a, b, k)[x] - Learn(t, look, a, b, k)[y] >= r
<1>0. a \in Nat \ {0} /\ b \in Nat \ {0} /\ k \in Nat /\ k >= 100
  BY SubjectAssumption
<1>1. t[x] \in Int /\ t[y] \in Int /\ Alike[look][x] \in Int /\ Alike[look][y] \in Int
  <2>1. t[x] \in Int /\ t[y] \in Int
    BY TemplateRange, Zenon
  <2>2. Alike[look][x] \in Int /\ Alike[look][y] \in Int
    BY AlikeIsInt, Zenon
  <2> QED BY <2>1, <2>2
<1>2. PICK c \in Nat \ {0}, d \in Nat \ {0} : c = 96 * a /\ d = 4 * b
  <2>1. 96 * a \in Nat \ {0} /\ 4 * b \in Nat \ {0}
    BY <1>0
  <2> QED BY <2>1
<1> DEFINE i == c * (t[x] - 5000) + d * (Alike[look][x] - 5000)
           n == c * (t[y] - 5000) + d * (Alike[look][y] - 5000)
           m == c + d
<1>3. /\ Learn(t, look, a, b, k)[x] = Stretched(i, m, k)
      /\ Learn(t, look, a, b, k)[y] = Stretched(n, m, k)
  BY <1>2 DEF Learn
<1>4. i \in Int /\ n \in Int /\ m \in Nat \ {0}
  BY <1>1, <1>2
<1>5. i - n = c * (t[x] - t[y]) + d * (Alike[look][x] - Alike[look][y])
  <2>1. ASSUME NEW t1 \in Int, NEW t2 \in Int, NEW h1 \in Int, NEW h2 \in Int
        PROVE  c * (t1 - 5000) + d * (h1 - 5000) - (c * (t2 - 5000) + d * (h2 - 5000))
                 = c * (t1 - t2) + d * (h1 - h2)
    OBVIOUS
  <2> QED BY <1>1, <2>1
<1>6. i - n >= m * r
  BY <1>2, <1>5
<1>7. i >= n + m * r
  <2>1. m * r \in Int
    BY <1>4
  <2> HIDE DEF i, n, m
  <2> QED BY <1>4, <1>6, <2>1
<1> HIDE DEF i, n, m
<1> QED BY <1>0, <1>3, <1>4, <1>7, StretchKeeps

-----------------------------------------------------------------------------
(* Types.                                                                  *)

LEMMA FreshType == Fresh \subseteq Template \cup {NoTemplate}
  BY DEF Fresh

LEMMA Numbers ==
  /\ MaxLooks \in Nat /\ Strays \in Nat /\ Loss \in Nat /\ Low \in Nat
  /\ Same \in Nat /\ Other \in Nat /\ Near \in Nat /\ Leap \in Nat
  /\ LowConf \in Nat /\ HighConf \in Nat
  BY SubjectAssumption

LEMMA StartType == fresh \in Fresh /\ Start => TypeOK
<1> SUFFICES ASSUME fresh \in Fresh, Start PROVE TypeOK
  OBVIOUS
<1>1. template \in Template \cup {NoTemplate}
  BY FreshType DEF Start
<1>2. looks = 0 /\ strays = 0 /\ found \in BOOLEAN
  BY DEF Start
<1>3. looks \in 0..MaxLooks /\ strays \in 0..looks
  BY <1>2, Numbers
<1> QED BY <1>1, <1>2, <1>3 DEF Start, TypeOK

LEMMA NextType == TypeOK /\ [Next]_vars => TypeOK'
<1> SUFFICES ASSUME TypeOK, [Next]_vars PROVE TypeOK'
  OBVIOUS
<1>0. looks \in 0..MaxLooks /\ MaxLooks \in Nat /\ strays \in 0..looks
  BY Numbers DEF TypeOK
<1>1. CASE LookInVain
  <2>1. looks < MaxLooks /\ looks' = looks + 1 /\ found' \in BOOLEAN /\ strays' = strays
    BY <1>1 DEF LookInVain
  <2>2. looks' \in 0..MaxLooks /\ strays' \in 0..looks'
    BY <1>0, <2>1
  <2> QED BY <1>1, <2>1, <2>2 DEF LookInVain, TypeOK
<1>2. CASE NewCheckpoint
  <2>1. /\ fresh' \in Fresh /\ Start'
    BY <1>2 DEF NewCheckpoint, Start, TypeOK
  <2>2. template' \in Template \cup {NoTemplate}
    BY <2>1, FreshType DEF Start
  <2>3. looks' = 0 /\ strays' = 0 /\ found' \in BOOLEAN
    BY <2>1 DEF Start
  <2>4. looks' \in 0..MaxLooks /\ strays' \in 0..looks'
    BY <1>0, <2>3
  <2> QED BY <2>1, <2>2, <2>3, <2>4 DEF Start, TypeOK
<1>3. ASSUME NEW f \in Frames, Look(f) PROVE TypeOK'
  <2>1. PICK p \in Best(f) :
          /\ last_bbox' = f[p].at /\ last_hist' = f[p].look
          /\ template' \in Learnt(template, f[p].look)
          /\ result' = [who |-> p, at |-> f[p].at, look |-> f[p].look]
          /\ strays' = IF Strange(f[p].look) THEN strays + 1 ELSE strays
    BY <1>3 DEF Look
  <2>2. p \in People /\ f[p] \in Candidate
    BY SubjectAssumption DEF Best
  <2>3. template' \in Template \cup {NoTemplate}
    BY <2>1, <2>2, LearntType DEF TypeOK, Candidate
  <2>4. looks' = looks + 1 /\ looks < MaxLooks
    BY <1>3 DEF Look
  <2>5. looks' \in 0..MaxLooks /\ strays' \in 0..looks'
    BY <1>0, <2>1, <2>4
  <2>6. /\ last_bbox' \in Places /\ last_hist' \in Looks
        /\ result' \in [who : People, at : Places, look : Looks]
    BY <2>1, <2>2 DEF Candidate
  <2> QED BY <1>3, <2>3, <2>5, <2>6 DEF Look, TypeOK
<1>4. CASE UNCHANGED vars
  BY <1>4 DEF vars, TypeOK
<1> QED BY <1>1, <1>2, <1>3, <1>4 DEF Next

\* Every reachable state is well typed.
THEOREM SubjectTypeCorrect == Spec => []TypeOK
<1>1. Init => TypeOK
  BY StartType DEF Init
<1> QED BY <1>1, NextType, PTL DEF Spec

-----------------------------------------------------------------------------
(* The invariant.                                                          *)

IInv == TypeOK /\ Remembers

LEMMA InitIInv == Init => IInv
<1> SUFFICES ASSUME Init PROVE IInv
  OBVIOUS
<1>1. TypeOK BY StartType DEF Init
<1>2. Remembers BY DEF Init, Start, Remembers, Nobody
<1> QED BY <1>1, <1>2 DEF IInv

LEMMA NextIInv == IInv /\ [Next]_vars => IInv'
<1> SUFFICES ASSUME IInv, [Next]_vars PROVE IInv'
  OBVIOUS
<1>0. TypeOK /\ TypeOK'
  BY NextType DEF IInv
<1>1. Remembers'
  <2>1. CASE UNCHANGED vars BY <2>1 DEF vars, IInv, Remembers
  <2>2. CASE LookInVain BY <2>2 DEF LookInVain, IInv, Remembers
  <2>3. CASE NewCheckpoint BY <2>3 DEF NewCheckpoint, Remembers, Nobody
  <2>4. ASSUME NEW f \in Frames, Look(f) PROVE Remembers'
    BY <2>4 DEF Look, Remembers
  <2> QED BY <2>1, <2>2, <2>3, <2>4 DEF Next
<1> QED BY <1>0, <1>1 DEF IInv

\* The strays that are put right leave something of the difference.
LEMMA LeftNat ==
  ASSUME RoomForStrays, NEW n \in Nat, n <= Strays
  PROVE  Left(n) \in Nat /\ Left(n) <= Same - Other /\ 55 * Left(n) > 70 * Near + 10 * (HighConf - LowConf)
<1>1. n * Loss \in Nat /\ Strays * Loss \in Int /\ n * Loss <= Strays * Loss
  <2>1. Loss * n <= Loss * Strays
    BY Numbers, TimesMore
  <2> QED BY <2>1, Numbers
<1> DEFINE lost == n * Loss
           all  == Strays * Loss
<1>2. LowConf <= HighConf
  BY SubjectAssumption
<1>3. 55 * (Same - Other - all) > 70 * Near + 10 * (HighConf - LowConf)
  BY DEF RoomForStrays
<1>4. lost \in Nat /\ all \in Int /\ lost <= all
  BY <1>1
<1> HIDE DEF lost, all
<1>5. /\ Same - Other - lost \in Nat /\ Same - Other - lost <= Same - Other
      /\ 55 * (Same - Other - lost) > 70 * Near + 10 * (HighConf - LowConf)
  BY <1>2, <1>3, <1>4, Numbers
<1> QED BY <1>5 DEF Left, lost

\* What is learnt from somebody the images recognise takes nothing from it,
LEMMA LearnRecognised ==
  ASSUME Coherent, RoomForStrays, fresh \in Fresh, fresh # NoTemplate,
         NEW t \in Template, NEW look \in Looks, ~Strange(look),
         NEW x \in Looks, NEW y \in Looks, Told(x, y),
         NEW n \in Nat, n <= Strays, t[x] - t[y] >= Left(n),
         NEW a \in Deviations, NEW b \in Deviations, NEW k \in Stretches
  PROVE  Learn(t, look, a, b, k)[x] - Learn(t, look, a, b, k)[y] >= Left(n)
<1>1. PICK r \in Nat : r = Left(n) /\ r <= Same - Other
  BY LeftNat
<1>2. fresh[look] >= Same
  <2>1. fresh[look] \in Int
    BY FreshType, TemplateInt
  <2> QED BY <2>1, Numbers DEF Strange
<1>3. PICK e \in Int : e = Alike[look][x] - Alike[look][y] /\ e >= Same - Other
  <2>1. Alike[look][x] - Alike[look][y] >= Same - Other
    BY <1>2 DEF Coherent, Told
  <2> QED BY <2>1, AlikeInt
<1>4. PICK d \in Int : d = t[x] - t[y] /\ d >= r
  BY <1>1, TemplateRange
<1>5. PICK i \in Nat, j \in Nat : i = 96 * a /\ j = 4 * b
  <2>1. a \in Nat /\ b \in Nat
    BY SubjectAssumption
  <2> QED BY <2>1
<1>6. i * r <= i * d /\ j * r <= j * e
  <2>1. r <= e
    BY <1>1, <1>3, Numbers
  <2> QED BY <1>4, <2>1, TimesMore
<1>7. i * d + j * e >= (i + j) * r
  <2>1. i * d \in Int /\ j * e \in Int /\ i * r \in Int /\ j * r \in Int /\ (i + j) * r = i * r + j * r
    OBVIOUS
  <2> QED BY <1>6, <2>1
<1>8. Learn(t, look, a, b, k)[x] - Learn(t, look, a, b, k)[y] >= r
  BY <1>3, <1>4, <1>5, <1>7, LearnKeeps
<1> QED BY <1>1, <1>8

\* and what is learnt from anybody no more than Loss.
LEMMA LearnStray ==
  ASSUME RoomForStrays,
         NEW t \in Template, NEW look \in Looks, NEW x \in Looks, NEW y \in Looks,
         NEW n \in Nat, n + 1 <= Strays, t[x] - t[y] >= Left(n),
         NEW a \in Deviations, NEW b \in Deviations, NEW k \in Stretches
  PROVE  Learn(t, look, a, b, k)[x] - Learn(t, look, a, b, k)[y] >= Left(n + 1)
<1>1. PICK r \in Nat : r = Left(n + 1)
  BY LeftNat
<1>2. PICK s \in Nat : s = Left(n) /\ s <= Same - Other
  <2>1. n <= Strays BY Numbers
  <2> QED BY <2>1, LeftNat
<1>3. s = r + Loss
  <2>1. (n + 1) * Loss = n * Loss + Loss /\ n * Loss \in Int
    BY Numbers
  <2> QED BY <1>1, <1>2, <2>1, Numbers DEF Left
<1>4. PICK d \in Int : d = t[x] - t[y] /\ d >= s
  BY <1>2, TemplateRange
<1>5. PICK e \in Int : e = Alike[look][x] - Alike[look][y] /\ e >= Low - 10000
  <2>1. Alike[look][x] \in Int /\ Alike[look][y] \in Int /\ Alike[look][x] >= Low /\ Alike[look][y] <= 10000
    BY AlikeInt
  <2> QED BY <2>1, Numbers
<1>6. PICK i \in Nat, j \in Nat : i = 96 * a /\ j = 4 * b
  <2>1. a \in Nat /\ b \in Nat
    BY SubjectAssumption
  <2> QED BY <2>1
<1>7. PICK f \in Nat : f = 10000 - Low
  <2>1. 10000 - Low \in Nat BY Numbers, SubjectAssumption
  <2> QED BY <2>1
<1>8. j * (s + f) <= Loss * (i + j)
  <2>1. j * (Same - Other + 10000 - Low) <= Loss * (i + j)
    BY <1>6 DEF RoomForStrays
  <2>2. PICK g \in Int : g = Same - Other + 10000 - Low /\ s + f <= g
    <3>1. Same - Other + 10000 - Low \in Int /\ s + f <= Same - Other + 10000 - Low
      BY <1>2, <1>7, Numbers
    <3> QED BY <3>1
  <2>3. j * (s + f) <= j * g
    BY <2>2, TimesMore
  <2> QED BY <2>1, <2>2, <2>3, Numbers
<1>9. i * s <= i * d /\ j * (-f) <= j * e
  <2>1. -f \in Int /\ -f <= e
    BY <1>5, <1>7, Numbers
  <2> QED BY <1>4, <2>1, TimesMore
<1>10. i * d + j * e >= (i + j) * r
  <2>1. /\ j * (s + f) = j * s + j * f /\ j * (-f) = -(j * f)
        /\ (i + j) * (r + Loss) = (i + j) * r + Loss * (i + j)
        /\ (i + j) * s = i * s + j * s
    BY Numbers
  <2>2. /\ i * d \in Int /\ j * e \in Int /\ i * s \in Int /\ j * s \in Int /\ j * f \in Int
        /\ (i + j) * r \in Int /\ Loss * (i + j) \in Int
    BY Numbers
  <2>3. (i + j) * s = (i + j) * r + Loss * (i + j)
    BY <1>3, <2>1
  <2> QED BY <1>8, <1>9, <2>1, <2>2, <2>3
<1>11. Learn(t, look, a, b, k)[x] - Learn(t, look, a, b, k)[y] >= r
  BY <1>4, <1>5, <1>6, <1>10, LearnKeeps
<1> QED BY <1>1, <1>11

\* The template tells the people apart, whatever it has learnt.
LEMMA InitKeeps == IInv /\ Init => Keeps
<1> SUFFICES ASSUME IInv, Init PROVE Keeps
  OBVIOUS
<1>1. template = fresh /\ strays = 0 /\ fresh \in Template \cup {NoTemplate}
  BY FreshType DEF Init, Start
<1>2. ASSUME fresh # NoTemplate, NEW a \in Looks, NEW b \in Looks, Told(a, b)
      PROVE  template[a] - template[b] >= Left(strays)
  <2>1. fresh[a] \in Int /\ fresh[b] \in Int
    BY <1>1, <1>2, TemplateInt
  <2>2. fresh[a] >= Same /\ fresh[b] <= Other
    BY <1>2 DEF Told
  <2> QED BY <1>1, <2>1, <2>2, Numbers DEF Left
<1> QED BY <1>1, <1>2 DEF Keeps

LEMMA LookKeeps ==
  ASSUME Coherent, RoomForStrays, IInv, Keeps, NEW f \in Frames, Look(f)
  PROVE  Keeps'
<1>1. PICK p \in Best(f) :
        /\ template' \in Learnt(template, f[p].look)
        /\ strays' = IF Strange(f[p].look) THEN strays + 1 ELSE strays
  BY DEF Look
<1>2. /\ f[p].look \in Looks /\ fresh' = fresh /\ fresh \in Fresh
      /\ strays \in Nat /\ template \in Template \cup {NoTemplate}
  BY SubjectAssumption DEF Best, Candidate, Look, IInv, TypeOK
<1> DEFINE g == f[p].look
<1>3. (template' = NoTemplate) = (template = NoTemplate)
  BY <1>1, <1>2, LearntType
<1>4. ASSUME fresh # NoTemplate, strays' <= Strays,
             NEW x \in Looks, NEW y \in Looks, Told(x, y)
      PROVE  template'[x] - template'[y] >= Left(strays')
  <2>1. template # NoTemplate /\ template \in Template
    BY <1>2, <1>4 DEF Keeps
  <2>2. PICK a \in Deviations, b \in Deviations, k \in Stretches :
          template' = Learn(template, g, a, b, k)
    BY <1>1, <2>1 DEF Learnt
  <2>3. strays <= Strays
    BY <1>1, <1>2, <1>4, Numbers
  <2>4. template[x] - template[y] >= Left(strays)
    BY <1>4, <2>3 DEF Keeps
  <2>5. CASE Strange(g)
    <3>1. strays' = strays + 1 /\ strays + 1 <= Strays
      BY <1>1, <1>4, <2>5
    <3> QED BY <1>2, <2>1, <2>2, <2>4, <3>1, LearnStray
  <2>6. CASE ~Strange(g)
    <3>1. strays' = strays
      BY <1>1, <2>6
    <3> QED BY <1>2, <1>4, <2>1, <2>2, <2>3, <2>4, <2>6, <3>1, LearnRecognised
  <2> QED BY <2>5, <2>6
<1>5. \A x, y \in Looks : Told(x, y)' = Told(x, y)
  BY <1>2 DEF Told
<1> QED BY <1>2, <1>3, <1>4, <1>5 DEF Keeps, Left

LEMMA NextKeeps == Coherent /\ RoomForStrays /\ IInv /\ Keeps /\ [Next]_vars => Keeps'
<1> SUFFICES ASSUME Coherent, RoomForStrays, IInv, Keeps, [Next]_vars PROVE Keeps'
  OBVIOUS
<1>1. CASE LookInVain \/ UNCHANGED vars
  BY <1>1 DEF LookInVain, vars, Keeps, Told, Left
<1>2. CASE NewCheckpoint
  <2>1. template' = fresh /\ fresh' = fresh /\ strays' = 0 /\ fresh \in Template \cup {NoTemplate}
    BY <1>2, FreshType DEF NewCheckpoint, IInv, TypeOK
  <2>2. ASSUME fresh # NoTemplate, NEW a \in Looks, NEW b \in Looks, Told(a, b)
        PROVE  fresh[a] - fresh[b] >= Left(0)
    <3>1. fresh[a] \in Int /\ fresh[b] \in Int
      BY <2>1, <2>2, TemplateInt
    <3>2. fresh[a] >= Same /\ fresh[b] <= Other
      BY <2>2 DEF Told
    <3> QED BY <3>1, <3>2, Numbers DEF Left
  <2>3. \A a, b \in Looks : Told(a, b)' = Told(a, b)
    BY <2>1 DEF Told
  <2> QED BY <2>1, <2>2, <2>3 DEF Keeps, Left
<1>3. ASSUME NEW f \in Frames, Look(f) PROVE Keeps'
  BY <1>3, LookKeeps
<1> QED BY <1>1, <1>2, <1>3 DEF Next

-----------------------------------------------------------------------------
(* The choice.                                                             *)

LEMMA ContinuityType == ASSUME IInv, NEW c \in Candidate PROVE Continuity(c) \in Nat /\ Continuity(c) <= 10000
<1>1. CASE last_bbox = None
  BY <1>1 DEF Continuity
<1>2. CASE last_bbox # None
  <2>1. last_bbox \in Places /\ c.at \in Places
    BY <1>2 DEF IInv, TypeOK, Candidate
  <2> DEFINE m == Dist[last_bbox][c.at]
             left == 10000 - 2 * m
  <2>2. m \in Nat
    BY <2>1, SubjectAssumption
  <2>3. Continuity(c) = IF left < 0 THEN 0 ELSE left
    BY <1>2 DEF Continuity
  <2> HIDE DEF m
  <2> QED BY <2>2, <2>3
<1> QED BY <1>1, <1>2

\* Of two candidates the better one is not much the better for being nearer to the
\* last box, if the other one is near it,
LEMMA ContinuityNear ==
  ASSUME IInv, NEW c \in Candidate, NEW d \in Candidate, NEW n \in Nat,
         last_bbox \in Places, Dist[last_bbox][c.at] <= n
  PROVE  Continuity(d) <= Continuity(c) + 2 * n
<1>1. last_bbox # None /\ c.at \in Places
  BY SubjectAssumption DEF Candidate
<1> DEFINE m == Dist[last_bbox][c.at]
           left == 10000 - 2 * m
<1>2. m \in Nat /\ m <= n
  BY <1>1, SubjectAssumption
<1>3. Continuity(c) = IF left < 0 THEN 0 ELSE left
  BY <1>1 DEF Continuity
<1>4. Continuity(d) \in Nat /\ Continuity(d) <= 10000
  BY ContinuityType
<1> HIDE DEF m
<1> QED BY <1>2, <1>3, <1>4

\* or if the two are near each other.
LEMMA ContinuityGap ==
  ASSUME IInv, NEW c \in Candidate, NEW d \in Candidate, NEW n \in Nat
  PROVE  Dist[d.at][c.at] <= n => Continuity(d) <= Continuity(c) + 2 * n
<1>0. c.at \in Places /\ d.at \in Places /\ Dist[d.at][c.at] \in Nat
  BY SubjectAssumption DEF Candidate
<1>1. CASE last_bbox = None
  <2>1. Continuity(c) = 5000 /\ Continuity(d) = 5000
    BY <1>1 DEF Continuity
  <2>2. 5000 <= 5000 + 2 * n
    OBVIOUS
  <2> QED BY <2>1, <2>2
<1>2. CASE last_bbox # None
  <2>1. last_bbox \in Places
    BY <1>2 DEF IInv, TypeOK
  <2> DEFINE m == Dist[last_bbox][c.at]
             k == Dist[last_bbox][d.at]
             g == Dist[d.at][c.at]
             left(i) == 10000 - 2 * i
  <2>2. m \in Nat /\ k \in Nat /\ g \in Nat /\ m <= k + g
    BY <1>0, <2>1, SubjectAssumption
  <2>3. /\ Continuity(c) = IF left(m) < 0 THEN 0 ELSE left(m)
        /\ Continuity(d) = IF left(k) < 0 THEN 0 ELSE left(k)
    BY <1>2 DEF Continuity
  <2>4. ASSUME g <= n PROVE Continuity(d) <= Continuity(c) + 2 * n
    <3> HIDE DEF m, k, g
    <3> QED BY <2>2, <2>3, <2>4
  <2> QED BY <2>4
<1> QED BY <1>1, <1>2

\* What a candidate that is preferred may lack in similarity.
LEMMA ScoreGap ==
  ASSUME IInv, NEW c \in Candidate, NEW d \in Candidate, NEW n \in Nat,
         template # NoTemplate \/ last_hist # None,
         HistScore(c) \in Int, HistScore(d) \in Int
  PROVE  Continuity(d) <= Continuity(c) + 2 * n /\ Score(c) <= Score(d) =>
           55 * (HistScore(c) - HistScore(d)) <= 70 * n + 10 * (HighConf - LowConf)
<1>1. /\ c.conf \in Int /\ d.conf \in Int /\ c.conf >= LowConf /\ d.conf <= HighConf
      /\ LowConf \in Nat /\ HighConf \in Nat
  BY SubjectAssumption DEF Candidate
<1>2. /\ Score(c) = 55 * HistScore(c) + 35 * Continuity(c) + 10 * c.conf
      /\ Score(d) = 55 * HistScore(d) + 35 * Continuity(d) + 10 * d.conf
  BY DEF Score
<1>3. Continuity(c) \in Nat /\ Continuity(d) \in Nat
  BY ContinuityType
<1> QED BY <1>1, <1>2, <1>3

LEMMA StaysStep == TellsApart /\ IInv /\ [Next]_vars =>
  (/\ template = NoTemplate
   /\ result.who \in DOMAIN frame'
   /\ LET c == frame'[result.who]
      IN  /\ Dist[result.at][c.at] <= Leap /\ Alike[result.look][c.look] >= Same
          /\ \A q \in DOMAIN frame' \ {result.who} : Alike[result.look][frame'[q].look] <= Other
   => result'.who = result.who)
<1> SUFFICES ASSUME TellsApart, IInv, [Next]_vars,
                    template = NoTemplate, result.who \in DOMAIN frame',
                    Dist[result.at][frame'[result.who].at] <= Leap,
                    Alike[result.look][frame'[result.who].look] >= Same,
                    \A q \in DOMAIN frame' \ {result.who} :
                      Alike[result.look][frame'[q].look] <= Other
             PROVE  result'.who = result.who
  OBVIOUS
<1>1. CASE LookInVain \/ UNCHANGED vars
  BY <1>1 DEF LookInVain, vars
<1>2. CASE NewCheckpoint
  BY <1>2 DEF NewCheckpoint, NoFrame
<1>3. ASSUME NEW f \in Frames, Look(f) PROVE result'.who = result.who
  <2> DEFINE w == result.who
  <2>1. frame' = f /\ \E p \in Best(f) : result'.who = p
    BY <1>3 DEF Look
  <2>2. PICK q \in Best(f) : result'.who = q
    BY <2>1
  <2> SUFFICES ASSUME q # w PROVE FALSE
    BY <2>2
  <2>3. /\ w \in DOMAIN f /\ q \in DOMAIN f /\ Score(f[w]) <= Score(f[q])
        /\ f[w] \in Candidate /\ f[q] \in Candidate /\ w \in People
    BY <2>1, <2>2, SubjectAssumption DEF Best
  <2>4. result \in [who : People, at : Places, look : Looks] /\ last_hist # None /\ last_bbox # None
    BY <2>3, SubjectAssumption DEF IInv, TypeOK, Remembers, Nobody
  <2>5. /\ HistScore(f[w]) = Alike[result.look][f[w].look]
        /\ HistScore(f[q]) = Alike[result.look][f[q].look]
    BY <2>4 DEF HistScore, IInv, Remembers
  <2>6. /\ HistScore(f[w]) >= Same /\ HistScore(f[q]) <= Other
    BY <2>1, <2>2, <2>3, <2>5
  <2>7. /\ HistScore(f[w]) \in Int /\ HistScore(f[q]) \in Int
    <3>1. /\ Alike[result.look][f[w].look] \in Share
          /\ Alike[result.look][f[q].look] \in Share
      BY <2>3, <2>4, SubjectAssumption DEF Candidate
    <3> QED BY <2>5, <3>1, SubjectAssumption DEF Share
  <2>8. last_bbox \in Places /\ Dist[last_bbox][f[w].at] <= Leap /\ Leap \in Nat
    BY <2>1, <2>4, SubjectAssumption DEF IInv, Remembers
  <2>9. Continuity(f[q]) <= Continuity(f[w]) + 2 * Leap
    BY <2>3, <2>8, ContinuityNear
  <2>10. 55 * (HistScore(f[w]) - HistScore(f[q])) <= 70 * Leap + 10 * (HighConf - LowConf)
    BY <2>3, <2>4, <2>7, <2>8, <2>9, ScoreGap
  <2>11. {Same, Other, LowConf, HighConf} \subseteq Nat
    BY SubjectAssumption
  <2> QED BY <2>6, <2>7, <2>8, <2>10, <2>11 DEF TellsApart
<1> QED BY <1>1, <1>2, <1>3 DEF Next

\* Without template images a checkpoint stays with its person, for every number of
\* looks, when the weights tell the people apart.
THEOREM StaysWithHolds == TellsApart => (Spec => StaysWith)
<1>1. TellsApart \in BOOLEAN BY DEF TellsApart
<1>2. Spec => []IInv BY InitIInv, NextIInv, PTL DEF Spec
<1> SUFFICES ASSUME TellsApart PROVE Spec => StaysWith
  BY <1>1
<1>3. IInv /\ [Next]_vars =>
        [/\ template = NoTemplate
         /\ result.who \in DOMAIN frame'
         /\ LET c == frame'[result.who]
            IN  /\ Dist[result.at][c.at] <= Leap /\ Alike[result.look][c.look] >= Same
                /\ \A q \in DOMAIN frame' \ {result.who} : Alike[result.look][frame'[q].look] <= Other
         => result'.who = result.who]_vars
  BY StaysStep
<1> QED BY <1>2, <1>3, PTL DEF Spec, StaysWith

LEMMA WinsStep == Coherent /\ RoomForStrays /\ IInv /\ Keeps /\ [Next]_vars =>
  (fresh # NoTemplate /\ strays <= Strays
   => \A p \in DOMAIN frame' :
        /\ fresh[frame'[p].look] >= Same
        /\ \A q \in DOMAIN frame' \ {p} :
             /\ fresh[frame'[q].look] <= Other
             /\ Dist[frame'[q].at][frame'[p].at] <= Near
        => \/ result'.who = p
           \/ UNCHANGED vars)
<1> SUFFICES ASSUME Coherent, RoomForStrays, IInv, Keeps, [Next]_vars,
                    fresh # NoTemplate, strays <= Strays, NEW p \in DOMAIN frame',
                    fresh[frame'[p].look] >= Same,
                    \A q \in DOMAIN frame' \ {p} :
                      /\ fresh[frame'[q].look] <= Other
                      /\ Dist[frame'[q].at][frame'[p].at] <= Near,
                    ~UNCHANGED vars
             PROVE  result'.who = p
  OBVIOUS
<1>1. CASE LookInVain \/ NewCheckpoint
  BY <1>1 DEF LookInVain, NewCheckpoint, NoFrame
<1>2. ASSUME NEW f \in Frames, Look(f) PROVE result'.who = p
  <2>1. frame' = f /\ \E q \in Best(f) : result'.who = q
    BY <1>2 DEF Look
  <2>2. PICK q \in Best(f) : result'.who = q
    BY <2>1
  <2> SUFFICES ASSUME q # p PROVE FALSE
    BY <2>2
  <2>3. /\ p \in DOMAIN f /\ q \in DOMAIN f /\ Score(f[p]) <= Score(f[q])
        /\ f[p] \in Candidate /\ f[q] \in Candidate
    BY <2>1, SubjectAssumption DEF Best
  <2>4. f[p].look \in Looks /\ f[q].look \in Looks
    BY <2>3 DEF Candidate
  <2>5. template # NoTemplate /\ template \in Template \cup {NoTemplate}
    BY DEF Keeps, IInv, TypeOK
  <2>6. fresh[f[q].look] <= Other /\ Dist[f[q].at][f[p].at] <= Near
    BY <2>1, <2>3
  <2>7. Told(f[p].look, f[q].look)
    BY <2>1, <2>3, <2>6 DEF Told, Met
  <2>8. template[f[p].look] - template[f[q].look] >= Left(strays)
    BY <2>4, <2>7 DEF Keeps
  <2>9. HistScore(f[p]) = template[f[p].look] /\ HistScore(f[q]) = template[f[q].look]
    BY <2>5 DEF HistScore
  <2>10. HistScore(f[p]) \in Int /\ HistScore(f[q]) \in Int
    BY <2>4, <2>5, <2>9, TemplateInt
  <2>11. Continuity(f[q]) <= Continuity(f[p]) + 2 * Near
    BY <2>3, <2>6, Numbers, ContinuityGap
  <2>12. 55 * (HistScore(f[p]) - HistScore(f[q])) <= 70 * Near + 10 * (HighConf - LowConf)
    BY <2>3, <2>5, <2>10, <2>11, Numbers, ScoreGap
  <2>13. strays \in Nat
    BY DEF IInv, TypeOK
  <2>14. PICK left \in Nat : left = Left(strays) /\ 55 * left > 70 * Near + 10 * (HighConf - LowConf)
    BY <2>13, LeftNat
  <2> QED BY <2>8, <2>9, <2>10, <2>12, <2>14, Numbers
<1> QED BY <1>1, <1>2 DEF Next

\* With template images the person who looks like them is found in its group at every
\* look, whatever the deviations of the histograms in between, after as many looks at
\* somebody else as the numbers have room for.
THEOREM TemplateWinsHolds == Coherent /\ RoomForStrays => (Spec => TemplateWins)
<1>1. Coherent \in BOOLEAN /\ RoomForStrays \in BOOLEAN BY DEF Coherent, RoomForStrays
<1>2. Spec => []IInv BY InitIInv, NextIInv, PTL DEF Spec
<1> SUFFICES ASSUME Coherent, RoomForStrays PROVE Spec => TemplateWins
  BY <1>1
<1>3. Init /\ IInv => Keeps
  BY InitKeeps
<1>4. IInv /\ Keeps /\ [Next]_vars => Keeps'
  BY NextKeeps
<1>5. Spec => []Keeps
  BY <1>2, <1>3, <1>4, PTL DEF Spec
<1>6. IInv /\ Keeps /\ [Next]_vars =>
        [fresh # NoTemplate /\ strays <= Strays
         => \A p \in DOMAIN frame' :
              /\ fresh[frame'[p].look] >= Same
              /\ \A q \in DOMAIN frame' \ {p} :
                   /\ fresh[frame'[q].look] <= Other
                   /\ Dist[frame'[q].at][frame'[p].at] <= Near
              => result'.who = p]_vars
  BY WinsStep
<1> QED BY <1>2, <1>5, <1>6, PTL DEF Spec, TemplateWins

-----------------------------------------------------------------------------
(* FrameServo: the loop of corrections.                                    *)

ErrType == [cx : Int, cy : Int, w : Int, h : Int, area : Int]

LEMMA ErrIsInt == ASSUME NEW d \in Box PROVE Err(d) \in ErrType
<1>1. /\ d.cx \in Int /\ d.cy \in Int /\ d.w \in Int /\ d.h \in Int /\ d.area \in Int
      /\ Expected.cx \in Int /\ Expected.cy \in Int /\ Expected.w \in Int /\ Expected.h \in Int
  BY FrameAssumption DEF Box
<1>2. PICK a \in Int : a = Expected.w * Expected.h
  BY <1>1
<1>3. d.area - a \in Int
  BY <1>1
<1> QED BY <1>1, <1>2, <1>3 DEF Err, ErrType

LEMMA ToleranceIsNat ==
  /\ Tolerance.cx \in Nat /\ Tolerance.cy \in Nat /\ Tolerance.w \in Nat /\ Tolerance.h \in Nat
  BY FrameAssumption

\* The planner has a command for every error of width or centre out of tolerance.
LEMMA PlannerHasCommand ==
  ASSUME NEW e \in ErrType, WideTolerance, PlannerCommand(e) = Nothing
  PROVE  Abs(e.w) <= Tolerance.w /\ Abs(e.cx) <= Tolerance.cx /\ Abs(e.cy) <= Tolerance.cy
<1> USE ToleranceIsNat DEF WideTolerance, ErrType, Abs, Clamp
<1>1. Abs(e.w) > Tolerance.w => Abs(PlannerDepth(e)) >= 500
  BY DEF PlannerDepth
<1>2. Abs(e.cx) > Tolerance.cx => Abs(PlannerRotate(e)) >= 500
  BY DEF PlannerRotate
<1>3. Abs(e.cy) > Tolerance.cy => Abs(PlannerLift(e)) >= 200
  BY DEF PlannerLift
<1>4. ~(Abs(e.w) > Tolerance.w) /\ ~(Abs(e.cx) > Tolerance.cx) /\ ~(Abs(e.cy) > Tolerance.cy)
  <2> HIDE DEF Abs, Clamp
  <2> QED BY <1>1, <1>2, <1>3 DEF PlannerCommand, Nothing
<1> QED BY <1>4

\* The servo has one for everything that keeps it from being satisfied.
LEMMA ServoHasCommand ==
  ASSUME NEW e \in ErrType, WideTolerance, ServoCommand(e) = Nothing
  PROVE  ServoSatisfied(e)
<1> USE ToleranceIsNat DEF WideTolerance, ErrType, Abs, Clamp
<1>0. AreaTolerance \in Int /\ AreaTolerance >= 10000
  BY DEF AreaTolerance
<1>1. Abs(e.area) > AreaTolerance => Abs(ServoDepth(e)) > 1000
  BY <1>0 DEF ServoDepth
<1>2. Abs(e.cx) > Tolerance.cx => Abs(ServoRotate(e)) > 50
  BY DEF ServoRotate
<1>3. Abs(e.cy) > Tolerance.cy => Abs(ServoLift(e)) > 50
  BY DEF ServoLift
<1>4. ~(Abs(e.area) > AreaTolerance) /\ ~(Abs(e.cx) > Tolerance.cx) /\ ~(Abs(e.cy) > Tolerance.cy)
  <2> HIDE DEF Abs, Clamp
  <2> QED BY <1>1, <1>2, <1>3 DEF ServoCommand, Nothing
<1> QED BY <1>0, <1>4 DEF ServoSatisfied
-----------------------------------------------------------------------------
(* Boxes stay boxes.                                                       *)

\* The box stays a box of positive width.
BoxOK == seen \in Box /\ seen.w > 0

\* The parts of a box are numbers.
LEMMA BoxParts ==
  ASSUME NEW d \in Box
  PROVE  /\ d.cx \in Int /\ d.cy \in Int /\ d.w \in Int /\ d.h \in Int /\ d.area \in Int
         /\ d = [cx |-> d.cx, cy |-> d.cy, w |-> d.w, h |-> d.h, area |-> d.area]
         /\ Expected.cx \in Int /\ Expected.cx >= 0 /\ Expected.cx <= 1000
         /\ Expected.cy \in Int /\ Expected.cy >= 0 /\ Expected.cy <= 1000
         /\ Expected.w \in Int /\ Expected.w >= 20 /\ Expected.w <= 1000
         /\ Expected.w * Expected.h \in Int
<1>1. Expected.cx \in Int /\ Expected.cy \in Int /\ Expected.w \in Int /\ Expected.h \in Int
  BY FrameAssumption DEF Box
<1>2. Expected.w * Expected.h \in Int
  BY <1>1
<1>3. Expected.cx >= 0 /\ Expected.cx <= 1000
  <2>1. Expected.cx \in 0..1000
    BY FrameAssumption
  <2> QED BY <2>1
<1>4. Expected.cy >= 0 /\ Expected.cy <= 1000
  <2>1. Expected.cy \in 0..1000
    BY FrameAssumption
  <2> QED BY <2>1
<1>5. Expected.w >= 20 /\ Expected.w <= 1000
  <2>1. Expected.w \in 20..1000
    BY FrameAssumption
  <2> QED BY <2>1
<1> QED BY <1>1, <1>2, <1>3, <1>4, <1>5 DEF Box

LEMMA ShiftIsInt ==
  ASSUME NEW c, c.by \in Int, NEW r \in Nat
  PROVE  Shift(c, r) \in Int
<1>1. PICK k \in Int : k = r * c.by
  OBVIOUS
<1>2. k \div 4500 \in Int /\ k \div 450000 \in Int /\ k \div 2500 \in Int /\ k \div 1800 \in Int
  OBVIOUS
<1> QED BY <1>1, <1>2 DEF Shift

LEMMA AnswerIsBox ==
  ASSUME NEW d \in Box, d.w > 0, NEW c, c.by \in Int, NEW r \in Nat
  PROVE  Answer(d, c, r) \in Box /\ Answer(d, c, r).w > 0
<1>0. /\ d.cx \in Int /\ d.cy \in Int /\ d.w \in Int /\ d.h \in Int /\ d.area \in Int
      /\ d = [cx |-> d.cx, cy |-> d.cy, w |-> d.w, h |-> d.h, area |-> d.area]
  BY BoxParts
<1>1. PICK s \in Int : s = Shift(c, r)
  BY ShiftIsInt
<1>2. CASE c.kind = "depth"
  <2> DEFINE w == InFrame(d.w + s, 20)
             h == InFrame((d.h * w) \div d.w, 20)
  <2>1. Answer(d, c, r) = [d EXCEPT !.w = w, !.h = h, !.area = w * h]
    BY <1>1, <1>2 DEF Answer
  <2>2. w \in Int /\ w > 0
    BY <1>0 DEF InFrame
  <2>3. PICK k \in Int : k = d.h * w
    <3> HIDE DEF w
    <3> QED BY <1>0, <2>2
  <2>4. k \div d.w \in Int
    BY <1>0
  <2>5. h \in Int
    <3> HIDE DEF w
    <3> QED BY <2>3, <2>4 DEF InFrame
  <2> HIDE DEF w, h
  <2>6. w * h \in Int
    BY <2>2, <2>5
  <2> QED BY <1>0, <2>1, <2>2, <2>5, <2>6 DEF Box
<1>3. CASE c.kind = "rotate"
  <2>1. Answer(d, c, r) = [d EXCEPT !.cx = InFrame(@ + s, 0)]
    BY <1>1, <1>3 DEF Answer
  <2>2. InFrame(d.cx + s, 0) \in Int
    BY <1>0 DEF InFrame
  <2> QED BY <1>0, <2>1, <2>2 DEF Box
<1>4. CASE c.kind = "lift"
  <2>1. Answer(d, c, r) = [d EXCEPT !.cy = InFrame(@ + s, 0)]
    BY <1>1, <1>4 DEF Answer
  <2>2. InFrame(d.cy + s, 0) \in Int
    BY <1>0 DEF InFrame
  <2> QED BY <1>0, <2>1, <2>2 DEF Box
<1>5. CASE c.kind \notin {"depth", "rotate", "lift"}
  BY <1>5 DEF Answer
<1> QED BY <1>2, <1>3, <1>4, <1>5

\* The stand-in begins with a box and answers with one.
LEMMA StandinFirstIsBox == StandinFirst \in Box /\ StandinFirst.w > 0
<1> DEFINE cx == InFrame(Expected.cx - OffsetX, 0)
           cy == InFrame(Expected.cy + OffsetY, 0)
           least == Expected.w * Expected.h - OffsetArea
           area == IF least < 10000 THEN 10000 ELSE least
<1>1. Expected \in Box
  BY FrameAssumption
<1>2. /\ Expected.cx \in Int /\ Expected.cy \in Int /\ Expected.w \in Int /\ Expected.h \in Int
      /\ Expected.w > 0
  BY <1>1, FrameAssumption, BoxParts
<1>3. StandinFirst = [Expected EXCEPT !.cx = cx, !.cy = cy, !.area = area]
  BY DEF StandinFirst
<1>4. cx \in Int /\ cy \in Int
  BY <1>2 DEF InFrame, OffsetX, OffsetY
<1>5. area \in Int
  <2>1. least \in Int
    BY <1>2, SMT DEF OffsetArea
  <2> HIDE DEF least
  <2> QED BY <2>1
<1> HIDE DEF cx, cy, area
<1> QED BY <1>1, <1>2, <1>3, <1>4, <1>5 DEF Box

LEMMA CloserIsInt ==
  ASSUME NEW v \in Int, NEW wanted \in Int
  PROVE  Closer(v, wanted) \in Int
  BY DEF Closer

LEMMA StandinAnswerIsBox ==
  ASSUME NEW d \in Box, d.w > 0, NEW c
  PROVE  StandinAnswer(d, c) \in Box /\ StandinAnswer(d, c).w > 0
<1>0. /\ d.cx \in Int /\ d.cy \in Int /\ d.w \in Int /\ d.h \in Int /\ d.area \in Int
      /\ d = [cx |-> d.cx, cy |-> d.cy, w |-> d.w, h |-> d.h, area |-> d.area]
      /\ Expected.cx \in Int /\ Expected.cy \in Int /\ Expected.w * Expected.h \in Int
  BY BoxParts
<1>1. /\ Closer(d.area, Expected.w * Expected.h) \in Int
      /\ Closer(d.cx, Expected.cx) \in Int /\ Closer(d.cy, Expected.cy) \in Int
  BY <1>0, CloserIsInt
<1> QED BY <1>0, <1>1 DEF StandinAnswer, Box

LEMMA ProposedByInt ==
  ASSUME NEW d \in Box, ctl \in {"planner", "servo"}
  PROVE  Proposed(d).by \in Int
<1>1. Err(d) \in ErrType
  BY ErrIsInt
<1> DEFINE e == Err(d)
<1>2. /\ PlannerDepth(e) \in Int /\ PlannerRotate(e) \in Int /\ PlannerLift(e) \in Int
      /\ ServoDepth(e) \in Int /\ ServoRotate(e) \in Int /\ ServoLift(e) \in Int
  <2> HIDE DEF e
  <2> QED BY <1>1 DEF e, ErrType, PlannerDepth, PlannerRotate, PlannerLift,
                      ServoDepth, ServoRotate, ServoLift, Clamp
<1>3. PlannerCommand(e).by \in Int
  BY <1>2 DEF PlannerCommand, Nothing
<1>4. ServoCommand(e).by \in Int
  BY <1>2 DEF ServoCommand, Nothing
<1> QED BY <1>3, <1>4 DEF Proposed

\* A correction is a command.
LEMMA ProposedIsCommand ==
  ASSUME NEW d \in Box, ctl \in {"planner", "servo"}
  PROVE  Proposed(d) \in Command
<1>1. Proposed(d).by \in Int
  BY ProposedByInt
<1>2. \/ \E k \in {"depth", "rotate", "lift"} : Proposed(d) = [kind |-> k, by |-> Proposed(d).by]
      \/ Proposed(d) = Nothing
  BY DEF Proposed, PlannerCommand, ServoCommand
<1> QED BY <1>1, <1>2 DEF Command, Nothing

\* What is seen next is a box again, whichever camera looks.
LEMMA CorrectSeesABox ==
  ASSUME ctl \in {"planner", "servo"}, seen \in Box, seen.w > 0, Correct
  PROVE  seen' \in Box /\ seen'.w > 0
<1>1. Proposed(seen).by \in Int /\ cmd' = Proposed(seen)
  BY ProposedByInt DEF Correct
<1>2. CASE camera = "standin"
  BY <1>2, StandinAnswerIsBox DEF Correct
<1>3. CASE camera # "standin"
  <2>1. PICK r \in Responses : seen' = Answer(seen, cmd', r)
    BY <1>3 DEF Correct
  <2>2. r \in Nat
    BY FrameAssumption
  <2> QED BY <1>1, <2>1, <2>2, AnswerIsBox
<1> QED BY <1>2, <1>3

ServoInv == ctl \in {"planner", "servo"} /\ BoxOK /\ OnlyHeightGivenUp

LEMMA InitSeesABox == ServoInit => seen \in Box /\ seen.w > 0 /\ ctl \in {"planner", "servo"}
  BY FrameAssumption, StandinFirstIsBox DEF ServoInit

LEMMA InitServo == ServoInit => ServoInv
  BY InitSeesABox DEF ServoInit, ServoInv, BoxOK, OnlyHeightGivenUp

LEMMA NextServo == WideTolerance /\ ServoInv /\ [ServoNext]_servoVars => ServoInv'
<1> SUFFICES ASSUME WideTolerance, ServoInv, [ServoNext]_servoVars PROVE ServoInv'
  OBVIOUS
<1>0. ctl \in {"planner", "servo"} /\ seen \in Box /\ seen.w > 0
  BY DEF ServoInv, BoxOK
<1>1. CASE UNCHANGED servoVars
  BY <1>1 DEF servoVars, ServoInv, BoxOK, OnlyHeightGivenUp, Err
<1>2. CASE Accept
  BY <1>2 DEF Accept, ServoInv, BoxOK, OnlyHeightGivenUp, Err
<1>3. CASE GiveUp
  <2>1. Err(seen) \in ErrType
    BY <1>0, ErrIsInt
  <2> DEFINE e == Err(seen)
  <2>2. CASE ctl = "servo"
    <3>1. ServoSatisfied(e)
      BY <1>3, <2>1, <2>2, ServoHasCommand DEF GiveUp, Proposed
    <3> QED BY <1>3, <2>2, <3>1 DEF GiveUp, Satisfied
  <2>3. CASE ctl = "planner"
    <3>1. Abs(e.w) <= Tolerance.w /\ Abs(e.cx) <= Tolerance.cx /\ Abs(e.cy) <= Tolerance.cy
      BY <1>3, <2>1, <2>3, PlannerHasCommand DEF GiveUp, Proposed
    <3>2. ~(Abs(e.h) <= Tolerance.h)
      BY <1>3, <2>3, <3>1 DEF GiveUp, Satisfied, PlannerSatisfied
    <3>3. Abs(e.h) > Tolerance.h
      BY <3>2, <2>1, ToleranceIsNat DEF Abs, ErrType
    <3>4. Err(seen') = e /\ ctl' = "planner"
      BY <1>3, <2>3 DEF GiveUp, Err
    <3> QED BY <1>0, <1>3, <2>3, <3>1, <3>3, <3>4 DEF GiveUp, ServoInv, BoxOK, OnlyHeightGivenUp
  <2> QED BY <1>0, <2>2, <2>3
<1>4. CASE Correct
  <2>1. seen' \in Box /\ seen'.w > 0
    BY <1>0, <1>4, CorrectSeesABox
  <2> QED BY <1>0, <1>4, <2>1 DEF Correct, ServoInv, BoxOK, OnlyHeightGivenUp
<1>5. CASE Exhaust
  BY <1>5 DEF Exhaust, ServoInv, BoxOK, OnlyHeightGivenUp, Err
<1> QED BY <1>1, <1>2, <1>3, <1>4, <1>5 DEF ServoNext

\* With tolerances the smallest steps can meet, a loop is given up only for the
\* height of the box.
THEOREM OnlyHeightHolds ==
  WideTolerance /\ ServoSpec => []OnlyHeightGivenUp
<1>1. ASSUME WideTolerance PROVE ServoSpec => []OnlyHeightGivenUp
  <2>1. ServoInit => ServoInv BY <1>1, InitServo
  <2>2. ServoInv /\ [ServoNext]_servoVars => ServoInv' BY <1>1, NextServo
  <2>3. ServoInv => OnlyHeightGivenUp BY DEF ServoInv
  <2> QED BY <2>1, <2>2, <2>3, PTL DEF ServoSpec
<1> QED BY <1>1

-----------------------------------------------------------------------------
(* Types, for any tolerance.                                               *)

ServoTypes == ServoTypeOK /\ seen.w > 0

LEMMA InitServoTypes == ServoInit => ServoTypes
  BY FrameAssumption, InitSeesABox DEF ServoInit, ServoTypes, ServoTypeOK, Command, Nothing

LEMMA NextServoTypes == ServoTypes /\ [ServoNext]_servoVars => ServoTypes'
<1> SUFFICES ASSUME ServoTypes, [ServoNext]_servoVars PROVE ServoTypes'
  OBVIOUS
<1>0. ctl \in {"planner", "servo"} /\ MaxIters \in Nat
  BY FrameAssumption DEF ServoTypes, ServoTypeOK
<1>1. CASE UNCHANGED servoVars
  BY <1>1 DEF servoVars, ServoTypes, ServoTypeOK
<1>2. CASE Accept
  BY <1>0, <1>2 DEF Accept, ServoTypes, ServoTypeOK
<1>3. CASE GiveUp
  BY <1>0, <1>3 DEF GiveUp, ServoTypes, ServoTypeOK
<1>4. CASE Correct
  <2>1. seen \in Box /\ seen.w > 0
    BY DEF ServoTypes, ServoTypeOK
  <2>2. seen' \in Box /\ seen'.w > 0
    BY <1>0, <1>4, <2>1, CorrectSeesABox
  <2>3. cmd' \in Command
    BY <1>0, <1>4, <2>1, ProposedIsCommand DEF Correct
  <2> QED BY <1>0, <1>4, <2>2, <2>3 DEF Correct, ServoTypes, ServoTypeOK
<1>5. CASE Exhaust
  BY <1>5 DEF Exhaust, ServoTypes, ServoTypeOK
<1> QED BY <1>1, <1>2, <1>3, <1>4, <1>5 DEF ServoNext

\* Type correctness: in particular a loop never begins more than MaxIters
\* iterations, and no answer of the camera makes a box that is none.
THEOREM ServoTypeCorrect == ServoSpec => []ServoTypeOK
  BY InitServoTypes, NextServoTypes, PTL DEF ServoSpec, ServoTypes

-----------------------------------------------------------------------------
(* What a correction does to an error, in numbers.                         *)

\* What a camera of the stated range makes of a step u.
LEMMA Span ==
  ASSUME NEW u \in Nat, NEW r \in Nat, Weakest \in 0..100, r \in Weakest..(200 - Weakest)
  PROVE  /\ r * u \in Nat /\ Weakest * u \in Nat
         /\ Weakest * u <= r * u /\ r * u + Weakest * u <= 200 * u
         /\ r * (-u) = -(r * u)
<1>1. \A a, b \in Nat : a <= b => a * u <= b * u /\ (b - a) * u = b * u - a * u
  OBVIOUS
<1>2. Weakest \in Nat /\ 200 - Weakest \in Nat /\ Weakest <= r /\ r <= 200 - Weakest
      /\ Weakest <= 200
  OBVIOUS
<1>3. r * u <= (200 - Weakest) * u /\ (200 - Weakest) * u = 200 * u - Weakest * u
  BY <1>1, <1>2
<1>4. Weakest * u <= r * u
  BY <1>1, <1>2
<1>5. r * u \in Nat /\ Weakest * u \in Nat /\ r * (-u) = -(r * u)
  BY <1>2
<1> QED BY <1>3, <1>4, <1>5

\* A step against an error, of at most 25, 18 or 45 per thousandth: the turns, the
\* lift of the servo, the depth of the planner.
Against(by, e) == (e >= 0 /\ by <= 0) \/ (e <= 0 /\ by >= 0)

LEMMA StepTakes ==
  ASSUME NEW e \in Int, NEW by \in Int, Against(by, e),
         NEW r \in Nat, Weakest \in 0..100, r \in Weakest..(200 - Weakest)
  PROVE  LET left(k) == Abs(e + (r * by) \div k) + (Weakest * Abs(by)) \div k
         IN  /\ Abs(by) <= 25 * Abs(e) => left(2500) <= Abs(e)
             /\ Abs(by) <= 18 * Abs(e) => left(1800) <= Abs(e)
             /\ Abs(by) <= 45 * Abs(e) => left(4500) <= Abs(e)
<1> DEFINE n == Abs(e)
           u == Abs(by)
<1>1. n \in Nat /\ u \in Nat /\ ((e = n /\ by = -u) \/ (e = -n /\ by = u))
  BY DEF Against, Abs
<1> HIDE DEF n, u
<1>2. /\ r * u \in Nat /\ Weakest * u \in Nat
      /\ Weakest * u <= r * u /\ r * u + Weakest * u <= 200 * u /\ r * (-u) = -(r * u)
  BY <1>1, Span
<1>3. PICK p \in Nat, w \in Nat, q \in Int : p = r * u /\ w = Weakest * u /\ q = r * by
  BY <1>2
<1>4. w <= p /\ p + w <= 200 * u
  BY <1>2, <1>3
<1>5. (e = n /\ q = -p) \/ (e = -n /\ q = p)
  BY <1>1, <1>2, <1>3
<1>6. ASSUME u <= 25 * n PROVE Abs(e + q \div 2500) + w \div 2500 <= n
  <2>1. n \in Nat /\ w <= p /\ p + w <= 5000 * n
    BY <1>1, <1>4, <1>6
  <2>2. /\ Abs(n + (-p) \div 2500) + w \div 2500 <= n
        /\ Abs(-n + p \div 2500) + w \div 2500 <= n
    BY <2>1 DEF Abs
  <2> QED BY <1>5, <2>2
<1>7. ASSUME u <= 18 * n PROVE Abs(e + q \div 1800) + w \div 1800 <= n
  <2>1. n \in Nat /\ w <= p /\ p + w <= 3600 * n
    BY <1>1, <1>4, <1>7
  <2>2. /\ Abs(n + (-p) \div 1800) + w \div 1800 <= n
        /\ Abs(-n + p \div 1800) + w \div 1800 <= n
    BY <2>1 DEF Abs
  <2> QED BY <1>5, <2>2
<1>8. ASSUME u <= 45 * n PROVE Abs(e + q \div 4500) + w \div 4500 <= n
  <2>1. n \in Nat /\ w <= p /\ p + w <= 9000 * n
    BY <1>1, <1>4, <1>8
  <2>2. /\ Abs(n + (-p) \div 4500) + w \div 4500 <= n
        /\ Abs(-n + p \div 4500) + w \div 4500 <= n
    BY <2>1 DEF Abs
  <2> QED BY <1>5, <2>2
<1> QED BY <1>3, <1>6, <1>7, <1>8 DEF n, u

\* The stand-in takes 45 percent.
LEMMA CloserTakes ==
  ASSUME NEW v \in Int, NEW wanted \in Int
  PROVE  Abs(Closer(v, wanted) - wanted) + (45 * Abs(v - wanted)) \div 100 <= Abs(v - wanted)
<1> DEFINE e == v - wanted
           k == (45 * (wanted - v)) \div 100
<1>1. e \in Int /\ k \in Int /\ wanted - v = -e
  OBVIOUS
<1>2. Closer(v, wanted) - wanted = e + k
  BY <1>1 DEF Closer
<1>3. k = (45 * (-e)) \div 100
  BY <1>1
<1> HIDE DEF e, k
<1>4. Abs(e + k) + (45 * Abs(e)) \div 100 <= Abs(e)
  BY <1>1, <1>3 DEF Abs
<1> QED BY <1>2, <1>4 DEF e

-----------------------------------------------------------------------------
(* A correction helps.                                                     *)

\* The steps that go the right way, and how far, by the error they are for.
LEMMA ProposedSteps ==
  ASSUME NEW d \in Box, ctl \in {"planner", "servo"}
  PROVE  LET e == Err(d)
             c == Proposed(d)
         IN  /\ c.kind = "rotate" => Against(c.by, e.cx) /\ Abs(c.by) <= 25 * Abs(e.cx)
             /\ c.kind = "lift" /\ ctl = "servo" => Against(c.by, e.cy) /\ Abs(c.by) <= 18 * Abs(e.cy)
             /\ c.kind = "depth" /\ ctl = "planner" => Against(c.by, e.w) /\ Abs(c.by) <= 45 * Abs(e.w)
<1> DEFINE e == Err(d)
<1>0. e.cx \in Int /\ e.cy \in Int /\ e.w \in Int
  BY ErrIsInt DEF ErrType
<1> HIDE DEF e
<1>1. /\ Against(PlannerRotate(e), e.cx) /\ Abs(PlannerRotate(e)) <= 25 * Abs(e.cx)
      /\ Against(ServoRotate(e), e.cx) /\ Abs(ServoRotate(e)) <= 25 * Abs(e.cx)
      /\ Against(ServoLift(e), e.cy) /\ Abs(ServoLift(e)) <= 18 * Abs(e.cy)
      /\ Against(PlannerDepth(e), e.w) /\ Abs(PlannerDepth(e)) <= 45 * Abs(e.w)
  BY <1>0 DEF PlannerDepth, PlannerRotate, ServoRotate, ServoLift, Clamp, Against, Abs
<1>2. Proposed(d) = IF ctl = "planner" THEN PlannerCommand(e) ELSE ServoCommand(e)
  BY DEF Proposed, e
<1>3. PlannerCommand(e).kind = "rotate" => PlannerCommand(e).by = PlannerRotate(e)
  BY DEF PlannerCommand, Nothing
<1>4. PlannerCommand(e).kind = "depth" => PlannerCommand(e).by = PlannerDepth(e)
  BY DEF PlannerCommand, Nothing
<1>5. /\ ServoCommand(e).kind = "rotate" => ServoCommand(e).by = ServoRotate(e)
      /\ ServoCommand(e).kind = "lift" => ServoCommand(e).by = ServoLift(e)
  BY DEF ServoCommand, Nothing
<1> QED BY <1>1, <1>2, <1>3, <1>4, <1>5 DEF e

\* A shift that takes off t takes off t at the edges of the frame too.
LEMMA ShiftedTakes ==
  ASSUME NEW v \in Int, NEW s \in Int, NEW t \in Int, NEW E \in Int, E >= 0, E <= 1000,
         Abs((v - E) + s) + t <= Abs(v - E)
  PROVE  /\ Abs(InFrame(v + s, 0) - E) + t <= Abs(v - E)
         /\ E >= 20 => Abs(InFrame(v + s, 20) - E) + t <= Abs(v - E)
  BY DEF InFrame, Abs

\* What the answer of a real camera takes off.
LEMMA AnswerTakes ==
  ASSUME ctl \in {"planner", "servo"}, NEW d \in Box, d.w > 0,
         NEW r \in Nat, Weakest \in 0..100, r \in Weakest..(200 - Weakest)
  PROVE  LET e == Err(d)
             c == Proposed(d)
             f == Err(Answer(d, c, r))
             least == Shift([c EXCEPT !.by = Abs(@)], Weakest)
         IN  /\ c.kind = "rotate" => Abs(f.cx) + least <= Abs(e.cx)
             /\ c.kind = "lift" /\ ctl = "servo" => Abs(f.cy) + least <= Abs(e.cy)
             /\ c.kind = "depth" /\ ctl = "planner" => Abs(f.w) + least <= Abs(e.w)
<1> DEFINE e == Err(d)
           c == Proposed(d)
           b == Answer(d, c, r)
           f == Err(b)
           least == Shift([c EXCEPT !.by = Abs(@)], Weakest)
<1>0. /\ d.cx \in Int /\ d.cy \in Int /\ d.w \in Int
      /\ Expected.cx \in Int /\ Expected.cx >= 0 /\ Expected.cx <= 1000
      /\ Expected.cy \in Int /\ Expected.cy >= 0 /\ Expected.cy <= 1000
      /\ Expected.w \in Int /\ Expected.w >= 20 /\ Expected.w <= 1000
      /\ d = [cx |-> d.cx, cy |-> d.cy, w |-> d.w, h |-> d.h, area |-> d.area]
  BY BoxParts
<1>1. /\ c \in Command /\ c.by \in Int
      /\ c = [kind |-> c.kind, by |-> c.by]
  BY ProposedIsCommand DEF Command
<1>2. e.cx = d.cx - Expected.cx /\ e.cy = d.cy - Expected.cy /\ e.w = d.w - Expected.w
  BY DEF Err
<1>3. f.cx = b.cx - Expected.cx /\ f.cy = b.cy - Expected.cy /\ f.w = b.w - Expected.w
  <2> HIDE DEF b
  <2> QED BY DEF Err
<1>4. e.cx \in Int /\ e.cy \in Int /\ e.w \in Int
  BY ErrIsInt DEF ErrType
<1>5. [c EXCEPT !.by = Abs(@)] = [kind |-> c.kind, by |-> Abs(c.by)]
  BY <1>1
<1>6. Abs(c.by) \in Nat /\ Weakest \in Nat
  BY <1>1 DEF Abs
<1>7. ASSUME c.kind = "rotate" PROVE Abs(f.cx) + least <= Abs(e.cx)
  <2> DEFINE s == (r * c.by) \div 2500
             t == (Weakest * Abs(c.by)) \div 2500
  <2>1. least = t /\ Shift(c, r) = s
    BY <1>5, <1>7 DEF Shift
  <2>2. s \in Int /\ t \in Int
    BY <1>1, <1>6
  <2>3. Abs(e.cx + s) + t <= Abs(e.cx)
    <3>1. Against(c.by, e.cx) /\ Abs(c.by) <= 25 * Abs(e.cx)
      BY <1>7, ProposedSteps
    <3> HIDE DEF e, c
    <3> QED BY <1>1, <1>4, <3>1, StepTakes
  <2>4. b.cx = InFrame(d.cx + s, 0)
    BY <1>0, <1>7, <2>1 DEF Answer
  <2>5. Abs((d.cx - Expected.cx) + s) + t <= Abs(d.cx - Expected.cx)
    BY <1>2, <2>3
  <2> HIDE DEF s, t, c, b, e
  <2>6. Abs(InFrame(d.cx + s, 0) - Expected.cx) + t <= Abs(d.cx - Expected.cx)
    <3>1. PICK E \in Int, v \in Int : E = Expected.cx /\ v = d.cx /\ E >= 0 /\ E <= 1000
      BY <1>0
    <3> QED BY <2>2, <2>5, <3>1, ShiftedTakes
  <2> QED BY <1>2, <1>3, <2>1, <2>4, <2>6
<1>8. ASSUME c.kind = "lift", ctl = "servo" PROVE Abs(f.cy) + least <= Abs(e.cy)
  <2> DEFINE s == (r * c.by) \div 1800
             t == (Weakest * Abs(c.by)) \div 1800
  <2>1. least = t /\ Shift(c, r) = s
    BY <1>5, <1>8 DEF Shift
  <2>2. s \in Int /\ t \in Int
    BY <1>1, <1>6
  <2>3. Abs(e.cy + s) + t <= Abs(e.cy)
    <3>1. Against(c.by, e.cy) /\ Abs(c.by) <= 18 * Abs(e.cy)
      BY <1>8, ProposedSteps
    <3> HIDE DEF e, c
    <3> QED BY <1>1, <1>4, <3>1, StepTakes
  <2>4. b.cy = InFrame(d.cy + s, 0)
    BY <1>0, <1>8, <2>1 DEF Answer
  <2>5. Abs((d.cy - Expected.cy) + s) + t <= Abs(d.cy - Expected.cy)
    BY <1>2, <2>3
  <2> HIDE DEF s, t, c, b, e
  <2>6. Abs(InFrame(d.cy + s, 0) - Expected.cy) + t <= Abs(d.cy - Expected.cy)
    <3>1. PICK E \in Int, v \in Int : E = Expected.cy /\ v = d.cy /\ E >= 0 /\ E <= 1000
      BY <1>0
    <3> QED BY <2>2, <2>5, <3>1, ShiftedTakes
  <2> QED BY <1>2, <1>3, <2>1, <2>4, <2>6
<1>9. ASSUME c.kind = "depth", ctl = "planner" PROVE Abs(f.w) + least <= Abs(e.w)
  <2> DEFINE s == (r * c.by) \div 4500
             t == (Weakest * Abs(c.by)) \div 4500
  <2>1. least = t /\ Shift(c, r) = s
    BY <1>5, <1>9 DEF Shift
  <2>2. s \in Int /\ t \in Int
    BY <1>1, <1>6
  <2>3. Abs(e.w + s) + t <= Abs(e.w)
    <3>1. Against(c.by, e.w) /\ Abs(c.by) <= 45 * Abs(e.w)
      BY <1>9, ProposedSteps
    <3> HIDE DEF e, c
    <3> QED BY <1>1, <1>4, <3>1, StepTakes
  <2>4. b.w = InFrame(d.w + s, 20)
    <3> DEFINE w == InFrame(d.w + s, 20)
               h == InFrame((d.h * w) \div d.w, 20)
    <3>1. b = [d EXCEPT !.w = w, !.h = h, !.area = w * h]
      <4> HIDE DEF s, c
      <4> QED BY <1>9, <2>1 DEF Answer
    <3> HIDE DEF w, h, b
    <3>2. b.w = w
      BY <1>0, <3>1
    <3> QED BY <3>2 DEF w
  <2>5. Abs((d.w - Expected.w) + s) + t <= Abs(d.w - Expected.w)
    BY <1>2, <2>3
  <2> HIDE DEF s, t, c, b, e
  <2>6. Abs(InFrame(d.w + s, 20) - Expected.w) + t <= Abs(d.w - Expected.w)
    <3>1. PICK E \in Int, v \in Int : E = Expected.w /\ v = d.w /\ E >= 20 /\ E <= 1000
      BY <1>0
    <3>2. E >= 0 /\ Abs((v - E) + s) + t <= Abs(v - E)
      BY <2>5, <3>1
    <3>3. Abs(InFrame(v + s, 20) - E) + t <= Abs(v - E)
      BY <2>2, <3>1, <3>2, ShiftedTakes
    <3> QED BY <3>1, <3>3
  <2> QED BY <1>2, <1>3, <2>1, <2>4, <2>6
<1> QED BY <1>7, <1>8, <1>9

\* What the answer of the stand-in takes off.
LEMMA StandinTakes ==
  ASSUME NEW d \in Box, NEW c
  PROVE  LET e == Err(d)
             f == Err(StandinAnswer(d, c))
         IN  /\ c.kind = "rotate" => Abs(f.cx) + (45 * Abs(e.cx)) \div 100 <= Abs(e.cx)
             /\ c.kind = "lift" => Abs(f.cy) + (45 * Abs(e.cy)) \div 100 <= Abs(e.cy)
             /\ c.kind = "depth" => Abs(f.area) + (45 * Abs(e.area)) \div 100 <= Abs(e.area)
<1> DEFINE b == StandinAnswer(d, c)
<1>0. /\ d.cx \in Int /\ d.cy \in Int /\ d.area \in Int
      /\ Expected.cx \in Int /\ Expected.cy \in Int /\ Expected.w * Expected.h \in Int
      /\ d = [cx |-> d.cx, cy |-> d.cy, w |-> d.w, h |-> d.h, area |-> d.area]
  BY BoxParts
<1>1. PICK a \in Int : a = Expected.w * Expected.h
  BY <1>0
<1>2. /\ c.kind = "rotate" => b.cx = Closer(d.cx, Expected.cx)
      /\ c.kind = "lift" => b.cy = Closer(d.cy, Expected.cy)
      /\ c.kind = "depth" => b.area = Closer(d.area, a)
  BY <1>0, <1>1 DEF StandinAnswer
<1>3. /\ Abs(Closer(d.cx, Expected.cx) - Expected.cx) + (45 * Abs(d.cx - Expected.cx)) \div 100
           <= Abs(d.cx - Expected.cx)
      /\ Abs(Closer(d.cy, Expected.cy) - Expected.cy) + (45 * Abs(d.cy - Expected.cy)) \div 100
           <= Abs(d.cy - Expected.cy)
      /\ Abs(Closer(d.area, a) - a) + (45 * Abs(d.area - a)) \div 100 <= Abs(d.area - a)
  BY <1>0, <1>1, CloserTakes
<1> HIDE DEF b
<1>4. /\ Err(d).cx = d.cx - Expected.cx /\ Err(d).cy = d.cy - Expected.cy /\ Err(d).area = d.area - a
      /\ Err(b).cx = b.cx - Expected.cx /\ Err(b).cy = b.cy - Expected.cy /\ Err(b).area = b.area - a
  BY <1>1 DEF Err
<1>5. /\ c.kind = "rotate" => Abs(Err(b).cx) + (45 * Abs(Err(d).cx)) \div 100 <= Abs(Err(d).cx)
      /\ c.kind = "lift" => Abs(Err(b).cy) + (45 * Abs(Err(d).cy)) \div 100 <= Abs(Err(d).cy)
      /\ c.kind = "depth" => Abs(Err(b).area) + (45 * Abs(Err(d).area)) \div 100 <= Abs(Err(d).area)
  BY <1>2, <1>3, <1>4
<1> QED BY <1>5 DEF b

\* CorrectionHelps of one step.
Helps ==
  status' = "look" =>
    LET e == Err(seen)
        f == Err(seen')
        least == Shift([cmd' EXCEPT !.by = Abs(@)], Weakest)
    IN  IF camera = "standin"
        THEN /\ cmd'.kind = "rotate" => Abs(f.cx) + (45 * Abs(e.cx)) \div 100 <= Abs(e.cx)
             /\ cmd'.kind = "lift" => Abs(f.cy) + (45 * Abs(e.cy)) \div 100 <= Abs(e.cy)
             /\ cmd'.kind = "depth" => Abs(f.area) + (45 * Abs(e.area)) \div 100 <= Abs(e.area)
        ELSE /\ cmd'.kind = "rotate" => Abs(f.cx) + least <= Abs(e.cx)
             /\ cmd'.kind = "lift" /\ ctl = "servo" => Abs(f.cy) + least <= Abs(e.cy)
             /\ cmd'.kind = "depth" /\ ctl = "planner" => Abs(f.w) + least <= Abs(e.w)

LEMMA CorrectHelps == ASSUME ServoTypes, MildAnswers, Correct PROVE Helps
<1>0. ctl \in {"planner", "servo"} /\ seen \in Box /\ seen.w > 0 /\ cmd' = Proposed(seen)
  BY FrameAssumption DEF ServoTypes, ServoTypeOK, Correct
<1>1. CASE camera = "standin"
  <2>1. seen' = StandinAnswer(seen, cmd')
    BY <1>1 DEF Correct
  <2> QED BY <1>0, <1>1, <2>1, StandinTakes DEF Helps
<1>2. CASE camera # "standin"
  <2>1. PICK r \in Responses : seen' = Answer(seen, cmd', r)
    BY <1>2 DEF Correct
  <2>2. r \in Nat /\ Weakest \in 0..100 /\ r \in Weakest..(200 - Weakest)
    BY FrameAssumption DEF MildAnswers
  <2> QED BY <1>0, <1>2, <2>1, <2>2, AnswerTakes DEF Helps
<1> QED BY <1>1, <1>2

\* While the answers of a camera lie between Weakest and as much too strong, every
\* turn, every drive of the planner and every lift of the servo takes off at least
\* what the weakest answer gives; before the stand-in all three corrections take off
\* its 45 percent.
THEOREM CorrectionHelpsHolds == MildAnswers /\ ServoSpec => CorrectionHelps
<1>1. ASSUME MildAnswers, ServoTypes, [ServoNext]_servoVars PROVE [Helps]_servoVars
  <2>1. CASE Correct
    BY <1>1, <2>1, CorrectHelps
  <2>2. CASE ~Correct
    <3>1. status' # "look" \/ UNCHANGED servoVars
      BY <1>1, <2>2 DEF ServoNext, Accept, GiveUp, Exhaust
    <3> QED BY <3>1 DEF Helps
  <2> QED BY <2>1, <2>2
<1>2. ASSUME MildAnswers PROVE ServoSpec => CorrectionHelps
  <2>1. ServoInit => ServoTypes BY <1>2, InitServoTypes
  <2>2. ServoTypes /\ [ServoNext]_servoVars => ServoTypes' BY <1>2, NextServoTypes
  <2>3. ServoTypes /\ [ServoNext]_servoVars => [Helps]_servoVars BY <1>1, <1>2
  <2>4. ServoSpec => [][Helps]_servoVars BY <2>1, <2>2, <2>3, PTL DEF ServoSpec
  <2> QED BY <2>4 DEF Helps, CorrectionHelps
<1> QED BY <1>2

-----------------------------------------------------------------------------
(* LooksFor is a function: its recursion ends because every step is one.   *)

\* The least member of a set of natural numbers.
LEMMA Least ==
  ASSUME NEW T \in SUBSET Nat, T # {}
  PROVE  \E n \in T : \A k \in T : n <= k
<1>1. PICK n \in T : \A k \in T : ~(<<k, n>> \in OpToRel(<, Nat))
  BY NatLessThanWellFounded, WFMin
<1>2. \A k \in T : ~(k < n)
  BY <1>1 DEF OpToRel
<1>3. \A k \in T : n <= k
  BY <1>2
<1> QED BY <1>3

\* A recursion that goes back by step[n] from every n above tol.
Stepping(tol, step) ==
  /\ tol \in Nat
  /\ step \in [Nat -> Nat]
  /\ \A n \in Nat : n > tol => step[n] >= 1 /\ step[n] <= n

Back(g, n, tol, step) == IF n <= tol THEN 0 ELSE 1 + g[n - step[n]]

UpTo(h, n, tol, step) ==
  /\ h \in [0..n -> Nat]
  /\ \A m \in 0..n : h[m] = Back(h, m, tol, step)

LEMMA SmallerArgument ==
  ASSUME NEW tol, NEW step, Stepping(tol, step), NEW n \in Nat, n > tol
  PROVE  n - step[n] \in Nat /\ n - step[n] < n
<1>1. step[n] \in Nat /\ step[n] >= 1 /\ step[n] <= n
  BY DEF Stepping
<1> QED BY <1>1

\* Two beginnings of the recursion agree.
LEMMA Agree ==
  ASSUME NEW tol, NEW step, Stepping(tol, step),
         NEW m \in Nat, NEW n \in Nat, NEW g, NEW h, UpTo(g, m, tol, step), UpTo(h, n, tol, step)
  PROVE  \A k \in Nat : k <= m /\ k <= n => g[k] = h[k]
<1> DEFINE T == {k \in Nat : k <= m /\ k <= n /\ g[k] # h[k]}
<1> SUFFICES ASSUME T # {} PROVE FALSE
  OBVIOUS
<1>1. PICK k \in T : \A j \in T : k <= j
  BY Least
<1>2. k \in Nat /\ k \in 0..m /\ k \in 0..n /\ g[k] # h[k]
  BY <1>1
<1>3. g[k] = Back(g, k, tol, step) /\ h[k] = Back(h, k, tol, step)
  BY <1>2 DEF UpTo
<1>4. tol \in Nat
  BY DEF Stepping
<1>5. k > tol
  BY <1>2, <1>3, <1>4 DEF Back
<1> DEFINE j == k - step[k]
<1>6. j \in Nat /\ j < k
  BY <1>2, <1>5, SmallerArgument
<1>7. j \notin T
  BY <1>1, <1>2, <1>6
<1>8. g[j] = h[j]
  BY <1>2, <1>6, <1>7
<1> QED BY <1>2, <1>3, <1>4, <1>5, <1>8 DEF Back

\* There is a beginning up to every n.
LEMMA Begins ==
  ASSUME NEW tol, NEW step, Stepping(tol, step)
  PROVE  \A n \in Nat : \E h : UpTo(h, n, tol, step)
<1> DEFINE T == {n \in Nat : ~ \E h : UpTo(h, n, tol, step)}
<1> SUFFICES ASSUME T # {} PROVE FALSE
  OBVIOUS
<1>1. PICK n \in T : \A k \in T : n <= k
  BY Least
<1>2. n \in Nat /\ tol \in Nat
  BY <1>1 DEF Stepping
<1>3. CASE n <= tol
  <2> DEFINE h == [k \in 0..n |-> 0]
  <2>1. h \in [0..n -> Nat]
    OBVIOUS
  <2>2. \A m \in 0..n : h[m] = Back(h, m, tol, step)
    BY <1>2, <1>3 DEF Back
  <2>3. UpTo(h, n, tol, step)
    BY <2>1, <2>2 DEF UpTo
  <2> QED BY <1>1, <2>3
<1>4. CASE n > tol
  <2>1. n - 1 \in Nat /\ n - 1 \notin T
    BY <1>1, <1>2, <1>4
  <2>2. PICK g : UpTo(g, n - 1, tol, step)
    BY <2>1
  <2> DEFINE j == n - step[n]
             h == [k \in 0..n |-> IF k = n THEN 1 + g[j] ELSE g[k]]
  <2>3. j \in Nat /\ j \in 0..(n - 1) /\ j # n
    BY <1>2, <1>4, SmallerArgument
  <2>4. \A k \in 0..(n - 1) : g[k] \in Nat /\ g[k] = Back(g, k, tol, step)
    BY <2>2 DEF UpTo
  <2>5. \A k \in 0..n : k # n => k \in 0..(n - 1)
    BY <1>2
  <2>6. h \in [0..n -> Nat]
    BY <2>3, <2>4, <2>5
  <2>7. ASSUME NEW m \in 0..n PROVE h[m] = Back(h, m, tol, step)
    <3>1. m \in Nat
      BY <1>2
    <3>2. CASE m = n
      <4>1. h[m] = 1 + g[j] /\ h[j] = g[j]
        BY <1>2, <2>3, <3>2
      <4> HIDE DEF h
      <4> QED BY <1>2, <1>4, <3>2, <4>1 DEF Back
    <3>3. CASE m # n
      <4>1. m \in 0..(n - 1) /\ h[m] = g[m]
        BY <2>5, <3>3
      <4>2. g[m] = Back(g, m, tol, step)
        BY <2>4, <4>1
      <4>3. CASE m <= tol
        BY <1>2, <3>1, <4>1, <4>2, <4>3 DEF Back
      <4>4. CASE m > tol
        <5> DEFINE i == m - step[m]
        <5>1. i \in Nat /\ i < m
          BY <3>1, <4>4, SmallerArgument
        <5>2. i \in 0..n /\ i # n
          BY <1>2, <3>1, <5>1
        <5>3. h[i] = g[i]
          BY <5>2
        <5> HIDE DEF h
        <5> QED BY <1>2, <3>1, <4>1, <4>2, <4>4, <5>3 DEF Back
      <4> QED BY <1>2, <3>1, <4>3, <4>4
    <3> QED BY <3>2, <3>3
  <2>8. UpTo(h, n, tol, step)
    BY <2>6, <2>7 DEF UpTo
  <2> QED BY <1>1, <2>8
<1> QED BY <1>2, <1>3, <1>4

\* So there is one for all of them.
LEMMA Recursion ==
  ASSUME NEW tol, NEW step, Stepping(tol, step)
  PROVE  \E g \in [Nat -> Nat] : g = [n \in Nat |-> Back(g, n, tol, step)]
<1> DEFINE part(n) == CHOOSE h : UpTo(h, n, tol, step)
           g == [n \in Nat |-> part(n)[n]]
<1>1. \A n \in Nat : UpTo(part(n), n, tol, step)
  BY Begins
<1> HIDE DEF part
<1>2. \A n \in Nat : g[n] \in Nat
  <2> TAKE n \in Nat
  <2>1. UpTo(part(n), n, tol, step) /\ n \in 0..n
    BY <1>1
  <2> QED BY <2>1 DEF UpTo
<1>3. ASSUME NEW n \in Nat PROVE g[n] = Back(g, n, tol, step)
  <2>1. UpTo(part(n), n, tol, step) /\ n \in 0..n /\ tol \in Nat
    BY <1>1 DEF Stepping
  <2>2. g[n] = Back(part(n), n, tol, step)
    BY <2>1 DEF UpTo
  <2>3. CASE n <= tol
    BY <2>1, <2>2, <2>3 DEF Back
  <2>4. CASE n > tol
    <3> DEFINE j == n - step[n]
    <3>1. j \in Nat /\ j < n
      BY <2>4, SmallerArgument
    <3>2. UpTo(part(j), j, tol, step)
      BY <1>1, <3>1
    <3>3. part(n)[j] = part(j)[j]
      BY <2>1, <3>1, <3>2, Agree
    <3>4. g[j] = part(n)[j]
      BY <3>1, <3>3
    <3> HIDE DEF g
    <3> QED BY <2>1, <2>2, <2>4, <3>4 DEF Back
  <2> QED BY <2>1, <2>3, <2>4
<1>4. g = [n \in Nat |-> Back(g, n, tol, step)]
  <2>1. \A n \in Nat : g[n] = Back(g, n, tol, step)
    BY <1>3
  <2> QED BY <2>1
<1>5. g \in [Nat -> Nat]
  BY <1>2
<1> QED BY <1>4, <1>5

-----------------------------------------------------------------------------
(* Fewer looks for a smaller error.                                        *)

\* What one correction takes off an error of n.
Taken(cap, share) ==
  [n \in Nat |-> (share * (IF n > cap THEN cap ELSE n)) \div 100]

\* The share makes a step of every error out of tolerance, and of the cut-off one.
Takeable(tol, cap, share) ==
  /\ tol \in Nat /\ cap \in Nat /\ share \in 0..100
  /\ share * (tol + 1) >= 100 /\ share * cap >= 100

LEMMA ShareGrows ==
  ASSUME NEW share \in 0..100, NEW m \in Nat, NEW n \in Nat, m <= n
  PROVE  /\ share * m \in Nat /\ share * n \in Nat
         /\ share * m <= share * n /\ share * n - share * m <= 100 * (n - m)
<1>1. PICK d \in Nat : n = m + d
  <2>1. n - m \in Nat /\ n = m + (n - m)
    OBVIOUS
  <2> QED BY <2>1
<1>2. share * n = share * m + share * d
  BY <1>1
<1>3. share * d <= 100 * d /\ share * d \in Nat /\ share * m \in Nat
  <2>1. PICK e \in Nat : share + e = 100
    <3>1. 100 - share \in Nat /\ share + (100 - share) = 100
      OBVIOUS
    <3> QED BY <3>1
  <2>2. (share + e) * d = share * d + e * d /\ e * d \in Nat
    BY <2>1
  <2>3. share * d \in Nat /\ share * m \in Nat
    OBVIOUS
  <2> QED BY <2>1, <2>2, <2>3
<1> QED BY <1>1, <1>2, <1>3

\* What is taken off is a step, and it leaves less of a smaller error.
LEMMA TakenSteps ==
  ASSUME NEW tol, NEW cap, NEW share, Takeable(tol, cap, share)
  PROVE  /\ Stepping(tol, Taken(cap, share))
         /\ \A m, n \in Nat : m <= n => m - Taken(cap, share)[m] <= n - Taken(cap, share)[n]
<1> DEFINE cut(n) == IF n > cap THEN cap ELSE n
           step == Taken(cap, share)
<1>0. tol \in Nat /\ cap \in Nat /\ share \in 0..100 /\ share * (tol + 1) >= 100 /\ share * cap >= 100
  BY DEF Takeable
<1>1. \A n \in Nat : step[n] = (share * cut(n)) \div 100
  BY DEF Taken
<1>2. ASSUME NEW n \in Nat
      PROVE  /\ cut(n) \in Nat /\ share * cut(n) \in Nat /\ share * cut(n) <= 100 * cut(n)
             /\ step[n] \in Nat /\ step[n] <= n
             /\ n > tol => step[n] >= 1
  <2>1. cut(n) \in Nat /\ cut(n) <= n
    BY <1>0
  <2>2. PICK c \in Nat : c = cut(n)
    BY <2>1
  <2>3. PICK p \in Nat : p = share * c
    BY <1>0, <2>2
  <2>4. p <= 100 * c
    <3>1. share * 0 = 0 /\ share * c - share * 0 <= 100 * (c - 0)
      BY <1>0, <2>2, ShareGrows
    <3> QED BY <2>3, <3>1
  <2>5. step[n] = p \div 100
    BY <1>1, <2>2, <2>3
  <2>6. ASSUME n > tol PROVE p >= 100
    <3>1. CASE n > cap
      BY <1>0, <2>2, <2>3, <3>1
    <3>2. CASE ~(n > cap)
      <4>1. c = n /\ tol + 1 \in Nat /\ tol + 1 <= n
        BY <1>0, <2>2, <2>6, <3>2
      <4>2. share * (tol + 1) <= share * n
        BY <1>0, <4>1, ShareGrows
      <4>3. PICK q \in Nat : q = share * (tol + 1)
        BY <1>0
      <4> QED BY <1>0, <2>3, <4>1, <4>2, <4>3
    <3> QED BY <3>1, <3>2
  <2> HIDE DEF step
  <2>7. step[n] \in Nat /\ step[n] <= c /\ (n > tol => step[n] >= 1)
    BY <2>2, <2>3, <2>4, <2>5, <2>6
  <2>8. step[n] <= n
    BY <2>1, <2>2, <2>7
  <2> HIDE DEF cut
  <2> QED BY <2>1, <2>2, <2>3, <2>4, <2>7, <2>8
<1>3. step \in [Nat -> Nat]
  <2>1. step = [n \in Nat |-> step[n]]
    BY DEF Taken
  <2> HIDE DEF step, cut
  <2> QED BY <1>2, <2>1
<1>4. ASSUME NEW m \in Nat, NEW n \in Nat, m <= n PROVE m - step[m] <= n - step[n]
  <2>1. PICK a \in Nat, b \in Nat : a = cut(m) /\ b = cut(n)
    BY <1>2
  <2>2. a <= b /\ b - a <= n - m
    BY <1>0, <1>4, <2>1
  <2>3. PICK p \in Nat, q \in Nat : p = share * a /\ q = share * b
    BY <1>0, <2>1
  <2>4. q - p <= 100 * (b - a) /\ p <= q
    BY <1>0, <2>2, <2>3, ShareGrows
  <2>5. step[m] = p \div 100 /\ step[n] = q \div 100
    BY <1>1, <2>1, <2>3
  <2> HIDE DEF step, cut
  <2>6. p \div 100 \in Int /\ q \div 100 \in Int /\ q \div 100 - p \div 100 <= b - a
    BY <2>2, <2>4
  <2> QED BY <2>2, <2>5, <2>6
<1> HIDE DEF step, cut
<1>5. Stepping(tol, step)
  BY <1>0, <1>2, <1>3 DEF Stepping
<1> QED BY <1>4, <1>5 DEF step

\* The definition of LooksFor, as an equation.
LEMMA LooksIs ==
  ASSUME NEW tol, NEW cap, NEW share, Takeable(tol, cap, share)
  PROVE  /\ LooksFor(tol, cap, share) \in [Nat -> Nat]
         /\ \A n \in Nat : LooksFor(tol, cap, share)[n] =
                             Back(LooksFor(tol, cap, share), n, tol, Taken(cap, share))
<1> DEFINE step == Taken(cap, share)
           f == LooksFor(tol, cap, share)
<1>1. PICK g \in [Nat -> Nat] : g = [n \in Nat |-> Back(g, n, tol, step)]
  BY TakenSteps, Recursion
<1>2. \A h : [n \in Nat |-> Back(h, n, tol, step)]
             = [n \in Nat |-> IF n <= tol THEN 0
                              ELSE 1 + h[n - (share * (IF n > cap THEN cap ELSE n)) \div 100]]
  BY DEF Back, Taken
<1>3. f = [n \in Nat |-> Back(f, n, tol, step)]
  BY <1>1, <1>2 DEF LooksFor
<1>4. \A n \in Nat : f[n] = Back(f, n, tol, step) /\ g[n] = Back(g, n, tol, step)
  <2> HIDE DEF f, step
  <2>1. \A n \in Nat : f[n] = Back(f, n, tol, step)
    BY <1>3
  <2>2. \A n \in Nat : g[n] = Back(g, n, tol, step)
    BY <1>1
  <2> QED BY <2>1, <2>2
<1>5. Stepping(tol, step)
  BY TakenSteps
<1> HIDE DEF f, step
\* The solution is the only one, which gives it its type.
<1>6. \A n \in Nat : f[n] = g[n]
  <2> DEFINE T == {n \in Nat : f[n] # g[n]}
  <2> SUFFICES ASSUME T # {} PROVE FALSE
    OBVIOUS
  <2>1. PICK n \in T : \A k \in T : n <= k
    BY Least
  <2>2. n \in Nat /\ tol \in Nat /\ f[n] # g[n]
    BY <1>5, <2>1 DEF Stepping
  <2>3. n > tol
    BY <1>4, <2>2 DEF Back
  <2> DEFINE j == n - step[n]
  <2>4. j \in Nat /\ j < n
    BY <1>5, <2>2, <2>3, SmallerArgument
  <2>5. f[j] = g[j]
    BY <2>1, <2>2, <2>4
  <2> QED BY <1>4, <2>2, <2>3, <2>5 DEF Back
<1>7. f \in [Nat -> Nat]
  <2>1. f = [n \in Nat |-> f[n]]
    BY <1>3
  <2> QED BY <1>1, <1>6, <2>1
<1> QED BY <1>4, <1>7 DEF f, step

\* One look fewer for what a correction leaves.
LEMMA FewerLooks ==
  ASSUME NEW tol, NEW cap, NEW share, Takeable(tol, cap, share),
         NEW n \in Nat, n > tol, NEW k \in Nat, k + Taken(cap, share)[n] <= n
  PROVE  LooksFor(tol, cap, share)[k] + 1 <= LooksFor(tol, cap, share)[n]
<1> DEFINE step == Taken(cap, share)
           f == LooksFor(tol, cap, share)
<1>1. /\ Stepping(tol, step)
      /\ \A i, j \in Nat : i <= j => i - step[i] <= j - step[j]
      /\ f \in [Nat -> Nat] /\ \A i \in Nat : f[i] = Back(f, i, tol, step)
      /\ k + step[n] <= n
  BY TakenSteps, LooksIs
<1> HIDE DEF step, f
<1>2. tol \in Nat /\ step \in [Nat -> Nat]
  BY <1>1 DEF Stepping
<1>3. \A i, j \in Nat : i <= j => f[i] <= f[j]
  <2> DEFINE T == {j \in Nat : \E i \in Nat : i <= j /\ f[i] > f[j]}
  <2>1. T = {}
    <3> SUFFICES ASSUME T # {} PROVE FALSE
      OBVIOUS
    <3>1. PICK j \in T : \A l \in T : j <= l
      BY Least
    <3>2. j \in Nat /\ \A l \in Nat : l < j => l \notin T
      BY <3>1
    <3>3. PICK i \in Nat : i <= j /\ f[i] > f[j]
      BY <3>1
    <3>4. f[i] \in Nat /\ f[j] \in Nat
      BY <1>1, <3>2
    <3>5. i > tol /\ j > tol
      BY <1>1, <1>2, <3>2, <3>3, <3>4 DEF Back
    <3> DEFINE i2 == i - step[i]
               j2 == j - step[j]
    <3>6. i2 \in Nat /\ j2 \in Nat /\ j2 < j
      BY <1>1, <3>2, <3>5, SmallerArgument
    <3>7. i2 <= j2
      BY <1>1, <3>2, <3>3
    <3>8. f[i] = 1 + f[i2] /\ f[j] = 1 + f[j2]
      BY <1>1, <1>2, <3>2, <3>5 DEF Back
    <3>9. f[i2] \in Nat /\ f[j2] \in Nat
      BY <1>1, <3>6
    <3>10. ~(f[i2] > f[j2])
      BY <3>2, <3>6, <3>7
    <3> QED BY <3>3, <3>8, <3>9, <3>10
  <2> TAKE i, j \in Nat
  <2> HAVE i <= j
  <2>2. j \notin T
    BY <2>1
  <2>3. f[i] \in Nat /\ f[j] \in Nat
    BY <1>1
  <2> QED BY <2>2, <2>3
<1> DEFINE j == n - step[n]
<1>4. j \in Nat /\ step[n] \in Nat
  BY <1>1, <1>2, SmallerArgument
<1>5. k <= j
  BY <1>1, <1>4
<1>6. f[n] = 1 + f[j]
  BY <1>1, <1>2 DEF Back
<1>7. f[k] \in Nat /\ f[j] \in Nat /\ f[k] <= f[j]
  BY <1>1, <1>3, <1>4, <1>5
<1> QED BY <1>6, <1>7 DEF f

-----------------------------------------------------------------------------
(* The budget.                                                             *)

LEMMA AbsIsNat == ASSUME NEW n \in Int PROVE Abs(n) \in Nat
  BY DEF Abs

LEMMA OffsetsAreNat ==
  /\ OffsetArea \in Nat /\ OffsetX \in Nat /\ OffsetY \in Nat
  /\ OffsetArea >= 10000 /\ OffsetX >= 3 /\ OffsetY >= 3
  BY SMT DEF OffsetArea, OffsetX, OffsetY

\* Each of the recursions behind LooksNeeded ends.
LEMMA LooksEnd ==
  ASSUME WideTolerance, Weakest >= 9
  PROVE  /\ Takeable(Tolerance.w, 133, Weakest) /\ Takeable(Tolerance.cx, 200, Weakest)
         /\ Takeable(AreaTolerance, OffsetArea, 45)
         /\ Takeable(Tolerance.cx, OffsetX, 45) /\ Takeable(Tolerance.cy, OffsetY, 45)
<1>0. /\ Tolerance.w \in Nat /\ Tolerance.cx \in Nat /\ Tolerance.cy \in Nat
      /\ Tolerance.w >= 11 /\ Tolerance.cx >= 19 /\ Tolerance.cy >= 11
  BY ToleranceIsNat DEF WideTolerance
<1>1. AreaTolerance \in Nat /\ AreaTolerance >= 10000
  <2>1. PICK a \in Nat : a = Tolerance.w * Tolerance.h
    BY ToleranceIsNat
  <2> QED BY <2>1 DEF AreaTolerance
<1>2. Weakest \in 0..100 /\ Weakest * 12 >= 100
  <2>1. PICK s \in 0..100 : s = Weakest
    BY FrameAssumption
  <2>2. s >= 9 /\ s * 12 >= 100
    BY <2>1
  <2> QED BY <2>1, <2>2
<1>3. \A n \in Nat : n >= 12 => Weakest * n >= 100
  <2> TAKE n \in Nat
  <2> HAVE n >= 12
  <2>1. Weakest * 12 <= Weakest * n /\ Weakest * n \in Nat
    BY <1>2, ShareGrows
  <2> QED BY <1>2, <2>1
<1>4. Weakest * (Tolerance.w + 1) >= 100 /\ Weakest * (Tolerance.cx + 1) >= 100
      /\ Weakest * 133 >= 100 /\ Weakest * 200 >= 100
  <2>1. Tolerance.w + 1 \in Nat /\ Tolerance.w + 1 >= 12 /\ Tolerance.cx + 1 \in Nat
        /\ Tolerance.cx + 1 >= 12
    BY <1>0
  <2> QED BY <1>3, <2>1
<1> QED BY <1>0, <1>1, <1>2, <1>4, OffsetsAreNat DEF Takeable

\* What a correction of the planner takes off at the least.
LEMMA PlannerTakes ==
  ASSUME NEW e \in ErrType
  PROVE  /\ Taken(133, Weakest)[Abs(e.w)] <= (Weakest * Abs(PlannerDepth(e))) \div 4500
         /\ Taken(200, Weakest)[Abs(e.cx)] <= (Weakest * Abs(PlannerRotate(e))) \div 2500
<1>0. e.w \in Int /\ e.cx \in Int /\ Weakest \in 0..100
  BY FrameAssumption DEF ErrType
<1>1. PICK n \in Nat, u \in Nat : n = Abs(e.w) /\ u = Abs(PlannerDepth(e))
  BY <1>0, AbsIsNat DEF PlannerDepth, Clamp
<1>2. PICK m \in Nat, v \in Nat : m = Abs(e.cx) /\ v = Abs(PlannerRotate(e))
  BY <1>0, AbsIsNat DEF PlannerRotate, Clamp
<1>3. PICK c \in Nat, b \in Nat : c = (IF n > 133 THEN 133 ELSE n) /\ b = (IF m > 200 THEN 200 ELSE m)
  OBVIOUS
<1>4. 45 * c <= u
  BY <1>0, <1>1, <1>3 DEF PlannerDepth, Clamp, Abs
<1>5. 25 * b <= v
  BY <1>0, <1>2, <1>3 DEF PlannerRotate, Clamp, Abs
<1>6. PICK x \in Nat, y \in Nat : x = Weakest * c /\ y = Weakest * u
  BY <1>0
<1>7. PICK i \in Nat, j \in Nat : i = Weakest * b /\ j = Weakest * v
  BY <1>0
<1>8. 45 * x <= y
  <2>1. Weakest * (45 * c) <= Weakest * u
    BY <1>0, <1>4, ShareGrows
  <2>2. Weakest * (45 * c) = 45 * (Weakest * c)
    BY <1>0
  <2> QED BY <1>6, <2>1, <2>2
<1>9. 25 * i <= j
  <2>1. Weakest * (25 * b) <= Weakest * v
    BY <1>0, <1>5, ShareGrows
  <2>2. Weakest * (25 * b) = 25 * (Weakest * b)
    BY <1>0
  <2> QED BY <1>7, <2>1, <2>2
<1>10. Taken(133, Weakest)[n] = x \div 100 /\ Taken(200, Weakest)[m] = i \div 100
  BY <1>3, <1>6, <1>7 DEF Taken
<1>11. x \div 100 <= y \div 4500 /\ i \div 100 <= j \div 2500
  BY <1>8, <1>9
<1> QED BY <1>1, <1>2, <1>6, <1>7, <1>10, <1>11

LEMMA StandinTaken ==
  ASSUME NEW cap \in Nat, NEW n \in Nat
  PROVE  Taken(cap, 45)[n] \in Nat /\ Taken(cap, 45)[n] <= (45 * n) \div 100
<1>1. PICK c \in Nat : c = (IF n > cap THEN cap ELSE n)
  OBVIOUS
<1>2. Taken(cap, 45)[n] = (45 * c) \div 100 /\ c <= n
  BY <1>1 DEF Taken
<1> QED BY <1>2

\* A command is for an error out of tolerance.
LEMMA PlannerAims ==
  ASSUME NEW d \in Box, ctl = "planner", Proposed(d) # Nothing, Abs(Err(d).cy) <= Tolerance.cy
  PROVE  LET e == Err(d)
             c == Proposed(d)
         IN  \/ c.kind = "depth" /\ Abs(e.w) > Tolerance.w /\ c.by = PlannerDepth(e)
             \/ c.kind = "rotate" /\ Abs(e.cx) > Tolerance.cx /\ c.by = PlannerRotate(e)
<1> DEFINE e == Err(d)
<1>1. Proposed(d) = PlannerCommand(e)
  BY DEF Proposed
<1>2. Abs(e.cy) \in Nat
  BY ErrIsInt, AbsIsNat DEF ErrType
<1>3. ~(Abs(e.cy) > Tolerance.cy)
  BY <1>2, ToleranceIsNat
<1> HIDE DEF e
<1>4. \/ Abs(e.w) > Tolerance.w /\ PlannerCommand(e) = [kind |-> "depth", by |-> PlannerDepth(e)]
      \/ Abs(e.cx) > Tolerance.cx /\ PlannerCommand(e) = [kind |-> "rotate", by |-> PlannerRotate(e)]
  BY <1>1, <1>3 DEF PlannerCommand
<1> QED BY <1>1, <1>4 DEF e

LEMMA ServoAims ==
  ASSUME NEW d \in Box, ctl = "servo", Proposed(d) # Nothing
  PROVE  LET e == Err(d)
             c == Proposed(d)
         IN  \/ c.kind = "depth" /\ Abs(e.area) > AreaTolerance
             \/ c.kind = "rotate" /\ Abs(e.cx) > Tolerance.cx
             \/ c.kind = "lift" /\ Abs(e.cy) > Tolerance.cy
<1> DEFINE e == Err(d)
<1>1. Proposed(d) = ServoCommand(e)
  BY DEF Proposed
<1> HIDE DEF e
<1>2. \/ Abs(e.area) > AreaTolerance /\ ServoCommand(e) = [kind |-> "depth", by |-> ServoDepth(e)]
      \/ Abs(e.cx) > Tolerance.cx /\ ServoCommand(e) = [kind |-> "rotate", by |-> ServoRotate(e)]
      \/ Abs(e.cy) > Tolerance.cy /\ ServoCommand(e) = [kind |-> "lift", by |-> ServoLift(e)]
  BY <1>1 DEF ServoCommand
<1> QED BY <1>1, <1>2 DEF e

\* A correction leaves the other errors alone.
LEMMA OthersStay ==
  ASSUME NEW d \in Box, NEW c, NEW r
  PROVE  LET b == Answer(d, c, r)
             s == StandinAnswer(d, c)
         IN  /\ c.kind = "depth" => b.cx = d.cx /\ b.cy = d.cy /\ s.cx = d.cx /\ s.cy = d.cy
             /\ c.kind = "rotate" => b.w = d.w /\ b.cy = d.cy /\ s.area = d.area /\ s.cy = d.cy
             /\ c.kind = "lift" => s.area = d.area /\ s.cx = d.cx
<1>1. d = [cx |-> d.cx, cy |-> d.cy, w |-> d.w, h |-> d.h, area |-> d.area]
  BY BoxParts
<1> QED BY <1>1 DEF Answer, StandinAnswer

\* One look fewer after each correction of a box that can be brought home.
LEMMA CorrectUsesALook ==
  ASSUME ServoTypes, MildAnswers, WideTolerance, Weakest >= 9, camera = "standin" => ctl = "servo",
         Correct, Coverable(seen)
  PROVE  /\ LooksNeeded(seen) \in Nat /\ LooksNeeded(seen') \in Nat
         /\ LooksNeeded(seen') + 1 <= LooksNeeded(seen)
         /\ Coverable(seen')
<1> DEFINE e == Err(seen)
           f == Err(seen')
<1>0. /\ seen \in Box /\ seen.w > 0 /\ ctl \in {"planner", "servo"}
      /\ cmd' = Proposed(seen) /\ Proposed(seen) # Nothing /\ status' = "look"
  BY FrameAssumption DEF ServoTypes, ServoTypeOK, Correct
<1>1. seen' \in Box
  BY <1>0, CorrectSeesABox
<1>2. e \in ErrType /\ f \in ErrType
  BY <1>0, <1>1, ErrIsInt
<1>3. /\ Abs(e.w) \in Nat /\ Abs(e.cx) \in Nat /\ Abs(e.cy) \in Nat /\ Abs(e.area) \in Nat
      /\ Abs(f.w) \in Nat /\ Abs(f.cx) \in Nat /\ Abs(f.cy) \in Nat /\ Abs(f.area) \in Nat
  BY <1>2, AbsIsNat DEF ErrType
<1>4. Helps
  BY CorrectHelps
<1>5. /\ seen'.cx = seen.cx => f.cx = e.cx
      /\ seen'.cy = seen.cy => f.cy = e.cy
      /\ seen'.w = seen.w => f.w = e.w
      /\ seen'.area = seen.area => f.area = e.area
  BY DEF Err
<1>6. /\ Takeable(Tolerance.w, 133, Weakest) /\ Takeable(Tolerance.cx, 200, Weakest)
      /\ Takeable(AreaTolerance, OffsetArea, 45)
      /\ Takeable(Tolerance.cx, OffsetX, 45) /\ Takeable(Tolerance.cy, OffsetY, 45)
  BY LooksEnd
<1> DEFINE dw == LooksFor(Tolerance.w, 133, Weakest)
           dx == LooksFor(Tolerance.cx, 200, Weakest)
           sa == LooksFor(AreaTolerance, OffsetArea, 45)
           sx == LooksFor(Tolerance.cx, OffsetX, 45)
           sy == LooksFor(Tolerance.cy, OffsetY, 45)
<1>7. /\ dw \in [Nat -> Nat] /\ dx \in [Nat -> Nat]
      /\ sa \in [Nat -> Nat] /\ sx \in [Nat -> Nat] /\ sy \in [Nat -> Nat]
  BY <1>6, LooksIs
<1>8. CASE camera = "standin"
  <2>1. ctl = "servo" /\ seen' = StandinAnswer(seen, cmd')
    BY <1>8 DEF Correct
  <2>2. /\ cmd'.kind = "depth" => f.cx = e.cx /\ f.cy = e.cy
        /\ cmd'.kind = "rotate" => f.area = e.area /\ f.cy = e.cy
        /\ cmd'.kind = "lift" => f.area = e.area /\ f.cx = e.cx
    BY <1>0, <1>5, <2>1, OthersStay
  <2>3. /\ LooksNeeded(seen) = sa[Abs(e.area)] + sx[Abs(e.cx)] + sy[Abs(e.cy)]
        /\ LooksNeeded(seen') = sa[Abs(f.area)] + sx[Abs(f.cx)] + sy[Abs(f.cy)]
    BY <1>8 DEF LooksNeeded
  <2>4. /\ cmd'.kind = "rotate" => Abs(f.cx) + (45 * Abs(e.cx)) \div 100 <= Abs(e.cx)
        /\ cmd'.kind = "lift" => Abs(f.cy) + (45 * Abs(e.cy)) \div 100 <= Abs(e.cy)
        /\ cmd'.kind = "depth" => Abs(f.area) + (45 * Abs(e.area)) \div 100 <= Abs(e.area)
    BY <1>0, <1>4, <1>8 DEF Helps
  <2> HIDE DEF e, f, sa, sx, sy
  <2>5. ASSUME cmd'.kind = "depth", Abs(e.area) > AreaTolerance
        PROVE  sa[Abs(f.area)] + 1 <= sa[Abs(e.area)]
    <3>1. /\ Taken(OffsetArea, 45)[Abs(e.area)] \in Nat
          /\ Taken(OffsetArea, 45)[Abs(e.area)] <= (45 * Abs(e.area)) \div 100
      BY <1>3, StandinTaken, OffsetsAreNat
    <3>2. Abs(f.area) + Taken(OffsetArea, 45)[Abs(e.area)] <= Abs(e.area)
      BY <1>3, <2>4, <2>5, <3>1
    <3> QED BY <1>3, <1>6, <2>5, <3>2, FewerLooks DEF sa
  <2>6. ASSUME cmd'.kind = "rotate", Abs(e.cx) > Tolerance.cx
        PROVE  sx[Abs(f.cx)] + 1 <= sx[Abs(e.cx)]
    <3>1. /\ Taken(OffsetX, 45)[Abs(e.cx)] \in Nat
          /\ Taken(OffsetX, 45)[Abs(e.cx)] <= (45 * Abs(e.cx)) \div 100
      BY <1>3, StandinTaken, OffsetsAreNat
    <3>2. Abs(f.cx) + Taken(OffsetX, 45)[Abs(e.cx)] <= Abs(e.cx)
      BY <1>3, <2>4, <2>6, <3>1
    <3> QED BY <1>3, <1>6, <2>6, <3>2, FewerLooks DEF sx
  <2>7. ASSUME cmd'.kind = "lift", Abs(e.cy) > Tolerance.cy
        PROVE  sy[Abs(f.cy)] + 1 <= sy[Abs(e.cy)]
    <3>1. /\ Taken(OffsetY, 45)[Abs(e.cy)] \in Nat
          /\ Taken(OffsetY, 45)[Abs(e.cy)] <= (45 * Abs(e.cy)) \div 100
      BY <1>3, StandinTaken, OffsetsAreNat
    <3>2. Abs(f.cy) + Taken(OffsetY, 45)[Abs(e.cy)] <= Abs(e.cy)
      BY <1>3, <2>4, <2>7, <3>1
    <3> QED BY <1>3, <1>6, <2>7, <3>2, FewerLooks DEF sy
  <2>8. \/ cmd'.kind = "depth" /\ Abs(e.area) > AreaTolerance
        \/ cmd'.kind = "rotate" /\ Abs(e.cx) > Tolerance.cx
        \/ cmd'.kind = "lift" /\ Abs(e.cy) > Tolerance.cy
    BY <1>0, <2>1, ServoAims DEF e
  <2>9. /\ sa[Abs(e.area)] \in Nat /\ sx[Abs(e.cx)] \in Nat /\ sy[Abs(e.cy)] \in Nat
        /\ sa[Abs(f.area)] \in Nat /\ sx[Abs(f.cx)] \in Nat /\ sy[Abs(f.cy)] \in Nat
    BY <1>3, <1>7
  <2>10. Coverable(seen')
    BY <1>8 DEF Coverable
  <2>11. /\ sa[Abs(f.area)] + sx[Abs(f.cx)] + sy[Abs(f.cy)] + 1
              <= sa[Abs(e.area)] + sx[Abs(e.cx)] + sy[Abs(e.cy)]
    BY <2>2, <2>5, <2>6, <2>7, <2>8, <2>9
  <2> QED BY <2>3, <2>9, <2>10, <2>11
<1>9. CASE camera # "standin"
  <2>1. ctl = "planner" /\ Abs(e.cy) <= Tolerance.cy
    BY <1>9 DEF Coverable
  <2>2. PICK r \in Responses : seen' = Answer(seen, cmd', r)
    BY <1>9 DEF Correct
  <2>3. /\ cmd'.kind = "depth" => f.cx = e.cx /\ f.cy = e.cy
        /\ cmd'.kind = "rotate" => f.w = e.w /\ f.cy = e.cy
    BY <1>0, <1>5, <2>2, OthersStay
  <2>4. /\ LooksNeeded(seen) = dw[Abs(e.w)] + dx[Abs(e.cx)]
        /\ LooksNeeded(seen') = dw[Abs(f.w)] + dx[Abs(f.cx)]
    BY <1>9 DEF LooksNeeded
  <2>5. \/ cmd'.kind = "depth" /\ Abs(e.w) > Tolerance.w /\ cmd'.by = PlannerDepth(e)
        \/ cmd'.kind = "rotate" /\ Abs(e.cx) > Tolerance.cx /\ cmd'.by = PlannerRotate(e)
    BY <1>0, <2>1, PlannerAims
  <2>6. cmd' = [kind |-> cmd'.kind, by |-> cmd'.by]
    BY <1>0, ProposedIsCommand DEF Command
  <2>7. /\ cmd'.kind = "rotate" => Abs(f.cx) + (Weakest * Abs(cmd'.by)) \div 2500 <= Abs(e.cx)
        /\ cmd'.kind = "depth" => Abs(f.w) + (Weakest * Abs(cmd'.by)) \div 4500 <= Abs(e.w)
    <3> DEFINE least == Shift([cmd' EXCEPT !.by = Abs(@)], Weakest)
    <3>1. /\ cmd'.kind = "rotate" => Abs(f.cx) + least <= Abs(e.cx)
          /\ cmd'.kind = "depth" => Abs(f.w) + least <= Abs(e.w)
      BY <1>0, <1>4, <1>9, <2>1 DEF Helps
    <3>2. [cmd' EXCEPT !.by = Abs(@)] = [kind |-> cmd'.kind, by |-> Abs(cmd'.by)]
      BY <2>6
    <3>3. /\ cmd'.kind = "rotate" => least = (Weakest * Abs(cmd'.by)) \div 2500
          /\ cmd'.kind = "depth" => least = (Weakest * Abs(cmd'.by)) \div 4500
      BY <2>1, <3>2 DEF Shift
    <3> HIDE DEF least, e, f
    <3> QED BY <3>1, <3>3
  <2> HIDE DEF e, f, dw, dx
  <2>8. ASSUME cmd'.kind = "depth", Abs(e.w) > Tolerance.w, cmd'.by = PlannerDepth(e)
        PROVE  dw[Abs(f.w)] + 1 <= dw[Abs(e.w)]
    <3>1. PICK t \in Int : t = (Weakest * Abs(PlannerDepth(e))) \div 4500
      <4>1. PlannerDepth(e) \in Int /\ Weakest \in Int
        BY <1>2, FrameAssumption DEF PlannerDepth, Clamp, ErrType
      <4>2. PICK k \in Int : k = Weakest * Abs(PlannerDepth(e))
        BY <4>1, AbsIsNat
      <4> QED BY <4>2
    <3>2. Taken(133, Weakest)[Abs(e.w)] <= t
      BY <1>2, <3>1, PlannerTakes
    <3>3. Taken(133, Weakest)[Abs(e.w)] \in Nat
      BY <1>3, <1>6, TakenSteps DEF Stepping
    <3>4. Abs(f.w) + Taken(133, Weakest)[Abs(e.w)] <= Abs(e.w)
      BY <1>3, <2>7, <2>8, <3>1, <3>2, <3>3
    <3> QED BY <1>3, <1>6, <2>8, <3>4, FewerLooks DEF dw
  <2>9. ASSUME cmd'.kind = "rotate", Abs(e.cx) > Tolerance.cx, cmd'.by = PlannerRotate(e)
        PROVE  dx[Abs(f.cx)] + 1 <= dx[Abs(e.cx)]
    <3>1. PICK t \in Int : t = (Weakest * Abs(PlannerRotate(e))) \div 2500
      <4>1. PlannerRotate(e) \in Int /\ Weakest \in Int
        BY <1>2, FrameAssumption DEF PlannerRotate, Clamp, ErrType
      <4>2. PICK k \in Int : k = Weakest * Abs(PlannerRotate(e))
        BY <4>1, AbsIsNat
      <4> QED BY <4>2
    <3>2. Taken(200, Weakest)[Abs(e.cx)] <= t
      BY <1>2, <3>1, PlannerTakes
    <3>3. Taken(200, Weakest)[Abs(e.cx)] \in Nat
      BY <1>3, <1>6, TakenSteps DEF Stepping
    <3>4. Abs(f.cx) + Taken(200, Weakest)[Abs(e.cx)] <= Abs(e.cx)
      BY <1>3, <2>7, <2>9, <3>1, <3>2, <3>3
    <3> QED BY <1>3, <1>6, <2>9, <3>4, FewerLooks DEF dx
  <2>10. /\ dw[Abs(e.w)] \in Nat /\ dx[Abs(e.cx)] \in Nat
         /\ dw[Abs(f.w)] \in Nat /\ dx[Abs(f.cx)] \in Nat
    BY <1>3, <1>7
  <2>11. dw[Abs(f.w)] + dx[Abs(f.cx)] + 1 <= dw[Abs(e.w)] + dx[Abs(e.cx)]
    BY <2>3, <2>5, <2>8, <2>9, <2>10
  <2>12. Coverable(seen')
    <3>1. f.cy = e.cy
      BY <2>3, <2>5
    <3>2. Abs(f.cy) <= Tolerance.cy
      BY <2>1, <3>1
    <3> QED BY <2>1, <3>2 DEF Coverable, f
  <2> QED BY <2>4, <2>10, <2>11, <2>12
<1> QED BY <1>8, <1>9

\* The looks taken and those still needed are no more than the first box needed.
BudgetInv ==
  /\ camera = "standin" => ctl = "servo"
  /\ Coverable(first) /\ status \in {"look", "exhausted"} =>
       /\ Coverable(seen)
       /\ LooksNeeded(seen) \in Nat /\ LooksNeeded(first) \in Nat
       /\ iter + LooksNeeded(seen) <= LooksNeeded(first)
       /\ status = "exhausted" => iter = MaxIters

LEMMA LooksAreNat ==
  ASSUME WideTolerance, Weakest >= 9, NEW d \in Box
  PROVE  LooksNeeded(d) \in Nat
<1> DEFINE e == Err(d)
<1>1. Abs(e.w) \in Nat /\ Abs(e.cx) \in Nat /\ Abs(e.cy) \in Nat /\ Abs(e.area) \in Nat
  BY ErrIsInt, AbsIsNat DEF ErrType
<1>2. /\ LooksFor(Tolerance.w, 133, Weakest) \in [Nat -> Nat]
      /\ LooksFor(Tolerance.cx, 200, Weakest) \in [Nat -> Nat]
      /\ LooksFor(AreaTolerance, OffsetArea, 45) \in [Nat -> Nat]
      /\ LooksFor(Tolerance.cx, OffsetX, 45) \in [Nat -> Nat]
      /\ LooksFor(Tolerance.cy, OffsetY, 45) \in [Nat -> Nat]
  BY LooksEnd, LooksIs
<1> HIDE DEF e
<1>3. /\ LooksFor(Tolerance.w, 133, Weakest)[Abs(e.w)] \in Nat
      /\ LooksFor(Tolerance.cx, 200, Weakest)[Abs(e.cx)] \in Nat
      /\ LooksFor(AreaTolerance, OffsetArea, 45)[Abs(e.area)] \in Nat
      /\ LooksFor(Tolerance.cx, OffsetX, 45)[Abs(e.cx)] \in Nat
      /\ LooksFor(Tolerance.cy, OffsetY, 45)[Abs(e.cy)] \in Nat
  BY <1>1, <1>2
<1> QED BY <1>3 DEF LooksNeeded, e

LEMMA InitBudget == WideTolerance /\ Weakest >= 9 /\ ServoInit => BudgetInv
<1> SUFFICES ASSUME WideTolerance, Weakest >= 9, ServoInit PROVE BudgetInv
  OBVIOUS
<1>1. seen \in Box /\ first = seen /\ iter = 0 /\ status = "look"
      /\ (camera = "standin" => ctl = "servo")
  BY InitSeesABox DEF ServoInit
<1>2. LooksNeeded(seen) \in Nat
  BY <1>1, LooksAreNat
<1> QED BY <1>1, <1>2 DEF BudgetInv

LEMMA NextBudget ==
  WideTolerance /\ MildAnswers /\ Weakest >= 9 /\ ServoTypes /\ BudgetInv /\ [ServoNext]_servoVars
    => BudgetInv'
<1> SUFFICES ASSUME WideTolerance, MildAnswers, Weakest >= 9,
                    ServoTypes, BudgetInv, [ServoNext]_servoVars
             PROVE  BudgetInv'
  OBVIOUS
<1>0. iter \in Nat /\ MaxIters \in Nat /\ ctl' = ctl /\ camera' = camera /\ first' = first
  BY FrameAssumption DEF ServoTypes, ServoTypeOK, ServoNext, Accept, GiveUp, Correct, Exhaust, servoVars
<1>1. /\ Coverable(first)' = Coverable(first) /\ LooksNeeded(first)' = LooksNeeded(first)
      /\ Coverable(seen)' = Coverable(seen') /\ LooksNeeded(seen)' = LooksNeeded(seen')
  BY <1>0 DEF Coverable, LooksNeeded
<1>2. CASE UNCHANGED servoVars
  BY <1>0, <1>1, <1>2 DEF servoVars, BudgetInv
<1>3. CASE Accept \/ GiveUp
  BY <1>0, <1>3 DEF Accept, GiveUp, BudgetInv
<1>4. CASE Correct
  <2> SUFFICES ASSUME Coverable(first)
               PROVE  /\ Coverable(seen') /\ LooksNeeded(seen') \in Nat /\ LooksNeeded(first) \in Nat
                      /\ iter' + LooksNeeded(seen') <= LooksNeeded(first)
                      /\ status' # "exhausted"
    BY <1>0, <1>1 DEF BudgetInv
  <2>1. /\ status = "look" /\ status' = "look" /\ iter' = iter + 1
        /\ Coverable(seen) /\ LooksNeeded(first) \in Nat
        /\ iter + LooksNeeded(seen) <= LooksNeeded(first)
    BY <1>4 DEF BudgetInv, Correct
  <2>2. /\ LooksNeeded(seen) \in Nat /\ LooksNeeded(seen') \in Nat
        /\ LooksNeeded(seen') + 1 <= LooksNeeded(seen) /\ Coverable(seen')
    BY <1>4, <2>1, CorrectUsesALook DEF BudgetInv
  <2> QED BY <1>0, <2>1, <2>2
<1>5. CASE Exhaust
  <2>1. status = "look" /\ status' = "exhausted" /\ iter' = iter /\ iter = MaxIters /\ seen' = seen
    BY <1>5 DEF Exhaust
  <2> QED BY <1>0, <1>1, <2>1 DEF BudgetInv
<1> QED BY <1>2, <1>3, <1>4, <1>5 DEF ServoNext

\* The iterations run out only for a first box that needs as many: with tolerances the
\* smallest steps can meet and answers of at least nine percent, for every max_iters.
THEOREM BudgetHolds ==
  WideTolerance /\ MildAnswers /\ Weakest >= 9 /\ ServoSpec => []BudgetSuffices
<1>1. ASSUME WideTolerance, MildAnswers, Weakest >= 9
      PROVE  ServoSpec => []BudgetSuffices
  <2>1. ServoInit => ServoTypes /\ BudgetInv BY <1>1, InitServoTypes, InitBudget
  <2>2. ServoTypes /\ BudgetInv /\ [ServoNext]_servoVars => ServoTypes' /\ BudgetInv'
    BY <1>1, NextServoTypes, NextBudget
  <2>3. BudgetInv => BudgetSuffices
    BY FrameAssumption DEF BudgetInv, BudgetSuffices
  <2> QED BY <2>1, <2>2, <2>3, PTL DEF ServoSpec
<1> QED BY <1>1

=============================================================================
