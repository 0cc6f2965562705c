------------------------- MODULE VariadicCache_proof -------------------------
(***************************************************************************)
(* The invariants of VariadicCache for any types, numbers of arguments and *)
(* sizes of the cache.  A key is read back: each id in it was given to one *)
(* name, and while all ids are one digit and its zeros, no text of ids can *)
(* be read in two ways, so the function found under a key is the one asked *)
(* for.  With more ids than digits this ends, as VariadicCache_collide.cfg *)
(* shows.                                                                  *)
(***************************************************************************)
EXTENDS VariadicCache, TLAPS, SequenceTheorems, WellFoundedInduction

USE TypesAssumption, NumbersAssumption

-----------------------------------------------------------------------------
(* Numbers.                                                                *)

\* Every non-empty set of numbers has a least element.
LEMMA Least ==
  ASSUME NEW T \in SUBSET Nat, T # {}
  PROVE  \E n \in T : \A m \in T : n <= m
<1> DEFINE R == {ss \in Nat \X Nat : ss[1] < ss[2]}
<1>1. OpToRel(<, Nat) = R
  BY Zenon DEF OpToRel
<1>2. IsWellFoundedOn(R, Nat)
  BY <1>1, NatLessThanWellFounded, Zenon
<1>3. \A x, y \in Nat : <<x, y>> \in R <=> x < y
  OBVIOUS
<1> HIDE DEF R
<1>4. PICK n \in T : \A m \in T : ~(<<m, n>> \in R)
  BY <1>2, WFMin, Zenon
<1>5. \A m \in T : ~(m < n)
  BY <1>3, <1>4
<1> QED
  BY <1>5

\* Induction, as a fact about sets.
LEMMA Induction ==
  ASSUME NEW S \in SUBSET Nat, 0 \in S, \A n \in S : n + 1 \in S
  PROVE  S = Nat
<1> DEFINE T == Nat \ S
<1> SUFFICES ASSUME T # {} PROVE FALSE
  OBVIOUS
<1>1. PICK n \in T : \A m \in T : n <= m
  BY Least
<1>2. n # 0 /\ n - 1 \in Nat /\ ~(n <= n - 1) /\ (n - 1) + 1 = n
  OBVIOUS
<1>3. n - 1 \in S
  BY <1>1, <1>2
<1> QED
  BY <1>2, <1>3

-----------------------------------------------------------------------------
(* What recursion computes.                                                *)

\* Cutting off a digit makes a number of several digits smaller.
LEMMA CutSmaller ==
  ASSUME NEW m \in Nat, NEW k \in Nat, m <= k + 1, ~(m < HexBase)
  PROVE  m \div HexBase \in 0..k
<1> DEFINE q == m \div HexBase
<1>1. q \in Nat /\ HexBase * q <= m
  OBVIOUS
<1>2. q < m
  <2> HIDE DEF q
  <2>1. q = 0 \/ HexBase * q >= 2 * q
    BY <1>1
  <2> QED
    BY <1>1, <2>1
<1> QED
  BY <1>1, <1>2

\* A number of one digit is written as that digit.
LEMMA OneDigit ==
  ASSUME NEW n \in 0..WrapAt, n < HexBase
  PROVE  digits[n] = <<n>>
<1> DEFINE Low(m) == <<m>>
           High(d, m) == Append(d, m % HexBase)
           Cut(m) == m \div HexBase
           Solves(f, k) ==
             f = [m \in 0..k |-> IF m < HexBase THEN Low(m) ELSE High(f[Cut(m)], m)]
           S == {k \in Nat : \E f : Solves(f, k)}
<1>1. 0 \in S
  <2> DEFINE f == [m \in 0..0 |-> Low(m)]
  <2>1. Solves(f, 0)
    OBVIOUS
  <2> QED
    BY <2>1
<1>2. ASSUME NEW k \in S PROVE k + 1 \in S
  <2>0. k \in Nat
    OBVIOUS
  <2>1. \A m \in 0..(k + 1) : ~(m < HexBase) => Cut(m) \in 0..k
    <3> HIDE DEF S
    <3> SUFFICES ASSUME NEW m \in 0..(k + 1), ~(m < HexBase)
                 PROVE  m \div HexBase \in 0..k
      OBVIOUS
    <3> QED
      BY <2>0, CutSmaller
  <2> HIDE DEF Low, High, Cut
  <2>2. PICK f : Solves(f, k)
    OBVIOUS
  <2> DEFINE g == [m \in 0..(k + 1) |-> IF m < HexBase THEN Low(m)
                                        ELSE High(f[Cut(m)], m)]
  <2>3. \A m \in 0..k : g[m] = f[m]
    BY <2>2, SMTT(30)
  <2>4. \A m \in 0..(k + 1) : ~(m < HexBase) =>
          Cut(m) \in 0..k /\ g[Cut(m)] = f[Cut(m)]
    BY <2>1, <2>3
  <2>5. g = [m \in 0..(k + 1) |-> IF m < HexBase THEN Low(m)
                                  ELSE High(g[Cut(m)], m)]
    BY <2>4
  <2>6. Solves(g, k + 1)
    BY <2>5, Zenon
  <2>7. k + 1 \in Nat
    OBVIOUS
  <2> HIDE DEF g, Solves
  <2> QED
    BY <2>6, <2>7
<1>3. S = Nat
  BY <1>1, <1>2, Induction
<1>4. \E f : Solves(f, WrapAt)
  BY <1>3
<1>5. Solves(digits, WrapAt)
  BY <1>4, Zenon DEF digits
<1> QED
  BY <1>5

\* getIds goes through its types one by one.
LEMMA GetIdsDef ==
  ASSUME NEW s, NEW ts \in Seq(Names)
  PROVE  \E scan : /\ scan[0] = s
                   /\ \A i \in 1..Len(ts) : scan[i] = getId(scan[i - 1], ts[i])
                   /\ getIds(s, ts) = scan[Len(ts)]
<1> DEFINE Solves(f, k) ==
             f = [i \in 0..k |-> IF i = 0 THEN s ELSE getId(f[i - 1], ts[i])]
           S == {k \in Nat : \E f : Solves(f, k)}
<1>1. 0 \in S
  <2> DEFINE f == [i \in 0..0 |-> s]
  <2>1. Solves(f, 0)
    OBVIOUS
  <2> QED
    BY <2>1
<1>2. ASSUME NEW k \in S PROVE k + 1 \in S
  <2>1. PICK f : Solves(f, k)
    OBVIOUS
  <2> DEFINE g == [i \in 0..(k + 1) |-> IF i = 0 THEN s ELSE getId(f[i - 1], ts[i])]
  <2>2. \A i \in 0..k : g[i] = f[i]
    BY <2>1
  <2>3. \A i \in 0..(k + 1) : i # 0 => g[i - 1] = f[i - 1]
    <3>1. \A i \in 0..(k + 1) : i # 0 => i - 1 \in 0..k
      OBVIOUS
    <3> HIDE DEF g
    <3> QED
      BY <2>2, <3>1
  <2>4. g = [i \in 0..(k + 1) |-> IF i = 0 THEN s ELSE getId(g[i - 1], ts[i])]
    BY <2>3
  <2>5. Solves(g, k + 1)
    BY <2>4, Zenon
  <2>6. k + 1 \in Nat
    OBVIOUS
  <2> HIDE DEF g, Solves
  <2> QED
    BY <2>5, <2>6
<1>3. S = Nat
  BY <1>1, <1>2, Induction
<1>4. \E f : Solves(f, Len(ts))
  <2>1. Len(ts) \in Nat
    OBVIOUS
  <2> HIDE DEF Solves
  <2> QED
    BY <2>1, <1>3
<1> DEFINE scan == CHOOSE f : Solves(f, Len(ts))
<1>5. Solves(scan, Len(ts))
  BY <1>4, Zenon
<1>6. getIds(s, ts) = scan[Len(ts)]
  BY Zenon DEF getIds
<1> HIDE DEF scan
<1>7. /\ scan[0] = s
      /\ \A i \in 1..Len(ts) : scan[i] = getId(scan[i - 1], ts[i])
  BY <1>5
<1> QED
  BY <1>6, <1>7, Zenon

-----------------------------------------------------------------------------
(* What a text says.                                                       *)

\* sp are the texts that a scan writes for the ids, one after the other.
Spells(sp, ids) ==
  sp[0] = <<>> /\ \A i \in 1..Len(ids) : sp[i] = sp[i - 1] \o IdText(ids[i])

\* An id was given to one name, and a type that lasts has one id.
Given(c, f, nm) ==
  /\ c \in Nat /\ f \in [Types -> Nat \union {NoId}]
  /\ DOMAIN nm \subseteq 0..(c - 1)
  /\ \A n \in DOMAIN nm : nm[n] \in Names /\ (nm[n] \in Types => f[nm[n]] = n)
  /\ \A t \in Types : f[t] # NoId => f[t] \in DOMAIN nm /\ nm[f[t]] = t

\* A text is that of a signature.
Reads(text, sig, nm) ==
  \E ids, sp : /\ ids \in Seq(DOMAIN nm) /\ Len(ids) = Len(sig)
               /\ \A i \in 1..Len(sig) : nm[ids[i]] = sig[i]
               /\ Spells(sp, ids) /\ text = sp[Len(ids)]

\* The names m say all that nm says.
Extends(m, nm) == \A n \in DOMAIN nm : n \in DOMAIN m /\ m[n] = nm[n]

\* A text is read as before when more names are known.
LEMMA ReadsExtends ==
  ASSUME NEW text, NEW sig \in Seq(Names), NEW nm, NEW m, Reads(text, sig, nm), Extends(m, nm)
  PROVE  Reads(text, sig, m)
<1>1. PICK ids, sp : /\ ids \in Seq(DOMAIN nm) /\ Len(ids) = Len(sig)
                     /\ \A i \in 1..Len(sig) : nm[ids[i]] = sig[i]
                     /\ Spells(sp, ids) /\ text = sp[Len(ids)]
  BY DEF Reads
<1>2. DOMAIN nm \subseteq DOMAIN m
  BY DEF Extends
<1>3. ids \in Seq(DOMAIN m)
  BY <1>1, <1>2
<1>4. \A i \in 1..Len(sig) : m[ids[i]] = sig[i]
  BY <1>1 DEF Extends
<1> QED
  BY <1>1, <1>3, <1>4 DEF Reads

\* The empty text is that of no types.
LEMMA ReadsNothing == \A nm : Reads(<<>>, <<>>, nm)
<1> SUFFICES ASSUME NEW nm PROVE Reads(<<>>, <<>>, nm)
  OBVIOUS
<1> DEFINE sp == [i \in 0..0 |-> <<>>]
<1>1. Spells(sp, <<>>) /\ sp[0] = <<>>
  BY DEF Spells
<1>2. <<>> \in Seq(DOMAIN nm) /\ Len(<<>>) = 0
  OBVIOUS
<1>3. /\ <<>> \in Seq(DOMAIN nm) /\ Len(<<>>) = Len(<<>>)
      /\ \A i \in 1..Len(<<>>) : nm[<<>>[i]] = <<>>[i]
      /\ Spells(sp, <<>>) /\ <<>> = sp[Len(<<>>)]
  <2> HIDE DEF sp
  <2> QED
    BY <1>1, <1>2
<1> QED
  BY <1>3, Zenon DEF Reads

\* One more id.
LEMMA ReadsAppend ==
  ASSUME NEW text, NEW sig \in Seq(Names), NEW nm, Reads(text, sig, nm),
         NEW n \in DOMAIN nm
  PROVE  Reads(text \o IdText(n), Append(sig, nm[n]), nm)
<1>1. PICK ids, sp : /\ ids \in Seq(DOMAIN nm) /\ Len(ids) = Len(sig)
                     /\ \A i \in 1..Len(sig) : nm[ids[i]] = sig[i]
                     /\ Spells(sp, ids) /\ text = sp[Len(ids)]
  BY DEF Reads
<1> DEFINE more == Append(ids, n)
           L == Len(ids)
           sp2 == [i \in 0..(L + 1) |-> IF i <= L THEN sp[i] ELSE text \o IdText(n)]
<1>2. /\ L \in Nat /\ more \in Seq(DOMAIN nm) /\ Len(more) = L + 1
      /\ more[L + 1] = n /\ \A i \in 1..L : more[i] = ids[i]
  BY <1>1
<1>3. /\ Len(Append(sig, nm[n])) = L + 1
      /\ \A i \in 1..(L + 1) : nm[more[i]] = Append(sig, nm[n])[i]
  BY <1>1
<1>4. Spells(sp2, more) /\ sp2[L + 1] = text \o IdText(n)
  <2>1. sp2[L + 1] = text \o IdText(n) /\ sp2[0] = <<>> /\ sp2[L] = text
        /\ \A i \in 1..L : sp2[i] = sp[i] /\ sp2[i - 1] = sp[i - 1]
    BY <1>1, <1>2 DEF Spells
  <2> HIDE DEF sp2, more, L
  <2>2. \A i \in 1..(L + 1) : i = L + 1 \/ i \in 1..L
    BY <1>2
  <2>3. \A i \in 1..L : sp2[i] = sp2[i - 1] \o IdText(more[i])
    BY <1>1, <1>2, <2>1 DEF Spells, L
  <2>4. (L + 1) - 1 = L
    BY <1>2
  <2> QED
    BY <1>2, <2>1, <2>2, <2>3, <2>4 DEF Spells
<1> DEFINE sig2 == Append(sig, nm[n])
<1>5. /\ more \in Seq(DOMAIN nm) /\ Len(more) = Len(sig2)
      /\ \A i \in 1..Len(sig2) : nm[more[i]] = sig2[i]
      /\ Spells(sp2, more) /\ text \o IdText(n) = sp2[Len(more)]
  <2> HIDE DEF more, sp2
  <2> QED
    BY <1>2, <1>3, <1>4
<1> QED
  BY <1>5, Zenon DEF Reads

\* A new id.
LEMMA GivenNew ==
  ASSUME NEW s, NEW nm, NEW t \in Names, Given(s.counter, s.ids, nm),
         ~(t \in Types /\ s.ids[t] # NoId)
  PROVE  \E m : /\ Extends(m, nm) /\ Given(s.counter + 1, Noted(s, t), m)
                /\ s.counter \in DOMAIN m /\ m[s.counter] = t
<1> DEFINE c == s.counter
           f == s.ids
           g == Noted(s, t)
           m == [n \in DOMAIN nm \union {c} |-> IF n = c THEN t ELSE nm[n]]
<1>1. c \in Nat /\ c \notin DOMAIN nm /\ \A n \in DOMAIN nm : n \in 0..(c - 1) /\ m[n] = nm[n]
  BY DEF Given
<1>2. c \in DOMAIN m /\ m[c] = t /\ DOMAIN m = DOMAIN nm \union {c}
  OBVIOUS
<1>3. g \in [Types -> Nat \union {NoId}]
      /\ \A u \in Types : g[u] = IF u = t THEN c ELSE f[u]
  BY DEF Given, Noted
<1>4. Extends(m, nm)
  BY <1>1, <1>2 DEF Extends
<1> HIDE DEF m, g, c, f
<1>5. Given(c + 1, g, m)
  <2>0. Given(c, f, nm) /\ ~(t \in Types /\ f[t] # NoId)
    BY DEF c, f
  <2>1. c + 1 \in Nat /\ DOMAIN m \subseteq 0..((c + 1) - 1)
    BY <1>1, <1>2
  <2>2. \A n \in DOMAIN m : m[n] \in Names /\ (m[n] \in Types => g[m[n]] = n)
    <3> SUFFICES ASSUME NEW n \in DOMAIN m
                 PROVE  m[n] \in Names /\ (m[n] \in Types => g[m[n]] = n)
      OBVIOUS
    <3>1. CASE n = c
      BY <3>1, <1>2, <1>3
    <3>2. CASE n # c
      <4>1. n \in DOMAIN nm /\ m[n] = nm[n] /\ n \in Nat
        BY <3>2, <1>1, <1>2
      <4>2. nm[n] \in Types => f[nm[n]] = n /\ nm[n] # t
        BY <2>0, <4>1 DEF Given, NoId
      <4> QED
        BY <2>0, <4>1, <4>2, <1>3 DEF Given
    <3> QED
      BY <3>1, <3>2
  <2>3. \A u \in Types : g[u] # NoId => g[u] \in DOMAIN m /\ m[g[u]] = u
    BY <1>1, <1>2, <1>3, <2>0 DEF Given
  <2> QED
    BY <1>3, <2>1, <2>2, <2>3 DEF Given
<1> QED
  BY <1>2, <1>4, <1>5 DEF c, g

\* What a scan has read since it began with the names nm.
Scanned(s, sig, nm) ==
  \E m : Extends(m, nm) /\ Given(s.counter, s.ids, m) /\ Reads(s.text, sig, m)

\* getId reads one more type, and gives out one id at most.
LEMMA GetIdReads ==
  ASSUME NEW s, NEW sig \in Seq(Names), NEW nm, Scanned(s, sig, nm), NEW t \in Names
  PROVE  /\ Scanned(getId(s, t), Append(sig, t), nm)
         /\ getId(s, t).counter \in {s.counter, s.counter + 1}
<1>1. PICK m : Extends(m, nm) /\ Given(s.counter, s.ids, m) /\ Reads(s.text, sig, m)
  BY DEF Scanned
<1>2. CASE t \in Types /\ s.ids[t] # NoId
  <2> DEFINE r == getId(s, t)
  <2>1. /\ r.counter = s.counter /\ r.ids = s.ids
        /\ r.text = s.text \o IdText(s.ids[t])
    BY <1>2 DEF getId, Scan
  <2>2. s.ids[t] \in DOMAIN m /\ m[s.ids[t]] = t
    BY <1>1, <1>2 DEF Given
  <2>3. Reads(r.text, Append(sig, t), m)
    BY <1>1, <2>1, <2>2, ReadsAppend
  <2> HIDE DEF r
  <2>4. Scanned(r, Append(sig, t), nm)
    BY <1>1, <2>1, <2>3, Zenon DEF Scanned
  <2> QED
    BY <2>1, <2>4 DEF r
<1>3. CASE ~(t \in Types /\ s.ids[t] # NoId)
  <2> DEFINE r == getId(s, t)
  <2>1. /\ r.counter = s.counter + 1 /\ r.ids = Noted(s, t)
        /\ r.text = s.text \o IdText(s.counter)
    BY <1>3 DEF getId, Scan
  <2>2. PICK n : /\ Extends(n, m) /\ Given(s.counter + 1, Noted(s, t), n)
                 /\ s.counter \in DOMAIN n /\ n[s.counter] = t
    BY <1>1, <1>3, GivenNew
  <2>3. Reads(r.text, Append(sig, t), n)
    BY <1>1, <2>1, <2>2, ReadsExtends, ReadsAppend
  <2>4. Extends(n, nm)
    BY <1>1, <2>2 DEF Extends
  <2> HIDE DEF r
  <2>5. Scanned(r, Append(sig, t), nm)
    BY <2>1, <2>2, <2>3, <2>4, Zenon DEF Scanned
  <2> QED
    BY <2>1, <2>5 DEF r
<1> QED
  BY <1>2, <1>3

\* getIds reads them all.
LEMMA GetIdsReads ==
  ASSUME NEW s, NEW sig \in Seq(Names), NEW nm, Scanned(s, sig, nm),
         NEW ts \in Seq(Names)
  PROVE  /\ Scanned(getIds(s, ts), sig \o ts, nm)
         /\ getIds(s, ts).counter \in s.counter..(s.counter + Len(ts))
<1>1. PICK scan : /\ scan[0] = s
                  /\ \A i \in 1..Len(ts) : scan[i] = getId(scan[i - 1], ts[i])
                  /\ getIds(s, ts) = scan[Len(ts)]
  BY GetIdsDef
<1>2. s.counter \in Nat
  BY DEF Scanned, Given
<1> DEFINE Sofar(i) == sig \o SubSeq(ts, 1, i)
           P(i) == /\ Scanned(scan[i], Sofar(i), nm)
                   /\ scan[i].counter \in s.counter..(s.counter + i)
           S == {i \in Nat : i <= Len(ts) => P(i)}
<1>3. Sofar(0) = sig /\ Sofar(Len(ts)) = sig \o ts
  BY SMTT(30)
<1>4. ASSUME NEW i \in Nat, i + 1 <= Len(ts)
      PROVE  Sofar(i) \in Seq(Names) /\ Append(Sofar(i), ts[i + 1]) = Sofar(i + 1)
  <2>1. SubSeq(ts, 1, i) \in Seq(Names) /\ ts[i + 1] \in Names
    BY <1>4
  <2>2. SubSeq(ts, 1, i + 1) = Append(SubSeq(ts, 1, i), ts[i + 1])
    BY <1>4
  <2>3. Append(Sofar(i), ts[i + 1]) = sig \o Append(SubSeq(ts, 1, i), ts[i + 1])
    BY <2>1, SMTT(30)
  <2>4. Sofar(i) \in Seq(Names)
    BY <2>1
  <2>5. Append(Sofar(i), ts[i + 1]) = Sofar(i + 1)
    BY <2>2, <2>3, Zenon
  <2> QED
    BY <2>4, <2>5
<1> HIDE DEF Sofar
<1>5. P(0)
  BY <1>1, <1>2, <1>3
<1>6. ASSUME NEW i \in Nat, i + 1 <= Len(ts), P(i) PROVE P(i + 1)
  <2>1. i + 1 \in 1..Len(ts) /\ (i + 1) - 1 = i /\ ts[i + 1] \in Names
    BY <1>6
  <2>2. scan[i + 1] = getId(scan[i], ts[i + 1])
    BY <1>1, <2>1
  <2>3. /\ Sofar(i) \in Seq(Names) /\ Append(Sofar(i), ts[i + 1]) = Sofar(i + 1)
        /\ Scanned(scan[i], Sofar(i), nm)
    BY <1>4, <1>6
  <2> HIDE DEF S, P
  <2>4. /\ Scanned(scan[i + 1], Sofar(i + 1), nm)
        /\ scan[i + 1].counter \in {scan[i].counter, scan[i].counter + 1}
    BY <2>1, <2>2, <2>3, GetIdReads, Zenon
  <2> QED
    BY <1>2, <1>6, <2>4, SMTT(30) DEF P
<1> HIDE DEF P
<1>7. 0 \in S
  BY <1>5
<1>8. \A i \in S : i + 1 \in S
  BY <1>6
<1>9. S = Nat
  BY <1>7, <1>8, Induction
<1>10. Len(ts) \in S
  BY <1>9, Zenon, LenProperties
<1>11. P(Len(ts))
  BY <1>10
<1> QED
  BY <1>1, <1>3, <1>11 DEF P

-----------------------------------------------------------------------------
(* What a text of ids of one digit can be read as.                         *)

\* The ids written as one digit and its zeros.
Short == 0..(HexBase - 1)

\* Such an id begins with the digit that it is made of.
LEMMA IdHead ==
  ASSUME 2 * HexBase <= WrapAt, NEW n \in Short
  PROVE  IdText(n) \in Seq(Nat) /\ Len(IdText(n)) >= 1 /\ IdText(n)[1] = n
<1>1. n \in 0..WrapAt /\ n < HexBase /\ n \in Nat
  BY DEF Short
<1>2. n % WrapAt = n /\ n < WrapAt \div 2
  <2>1. \A m \in Nat, k \in Nat \ {0} : m < k => m % k = m
    OBVIOUS
  <2>2. HexBase <= WrapAt \div 2
    OBVIOUS
  <2> QED
    BY <1>1, <2>1, <2>2
<1>3. IdText(n) = Shifted(n)
  BY <1>2 DEF IdText
<1>4. CASE n = 0
  BY <1>3, <1>4 DEF Shifted
<1>5. CASE n # 0
  <2> DEFINE zeros == [i \in 1..LowZeros |-> 0]
  <2>1. IdText(n) = <<n>> \o zeros
    BY <1>1, <1>3, <1>5, OneDigit DEF Shifted
  <2>2. zeros \in Seq(Nat)
    OBVIOUS
  <2> HIDE DEF zeros
  <2> QED
    BY <1>1, <2>1, <2>2
<1> QED
  BY <1>4, <1>5

\* What is joined to a text leaves it as it was.
LEMMA Joined ==
  ASSUME NEW x \in Seq(Nat), NEW y \in Seq(Nat)
  PROVE  /\ x \o y \in Seq(Nat) /\ Len(x \o y) = Len(x) + Len(y)
         /\ \A j \in 1..Len(x) : (x \o y)[j] = x[j]
         /\ Len(y) >= 1 => (x \o y)[Len(x) + 1] = y[1]
OBVIOUS

\* Texts of such ids are sequences of digits, without a sign.
LEMMA SpellsType ==
  ASSUME 2 * HexBase <= WrapAt, NEW ids \in Seq(Short), NEW sp, Spells(sp, ids)
  PROVE  \A i \in 0..Len(ids) : sp[i] \in Seq(Nat)
<1> DEFINE S == {i \in Nat : i <= Len(ids) => sp[i] \in Seq(Nat)}
<1>1. 0 \in S
  <2>1. sp[0] = <<>> /\ <<>> \in Seq(Nat)
    BY DEF Spells
  <2> QED
    BY <2>1
<1>2. ASSUME NEW i \in S PROVE i + 1 \in S
  <2> SUFFICES ASSUME i + 1 <= Len(ids) PROVE sp[i + 1] \in Seq(Nat)
    OBVIOUS
  <2>1. i + 1 \in 1..Len(ids) /\ (i + 1) - 1 = i /\ sp[i] \in Seq(Nat)
    OBVIOUS
  <2>2. IdText(ids[i + 1]) \in Seq(Nat)
    BY <2>1, IdHead
  <2>3. sp[i + 1] = sp[i] \o IdText(ids[i + 1])
    BY <2>1 DEF Spells
  <2> QED
    BY <2>1, <2>2, <2>3
<1>3. S = Nat
  BY <1>1, <1>2, Induction
<1>4. \A i \in Nat : i \in S
  BY <1>3, Zenon
<1> QED
  BY <1>4

\* What was written stays, and tells the next id.
LEMMA Written ==
  ASSUME 2 * HexBase <= WrapAt, NEW ids \in Seq(Short), NEW sp, Spells(sp, ids),
         NEW i \in 0..Len(ids), i < Len(ids), NEW k \in (i + 1)..Len(ids)
  PROVE  /\ Len(sp[i]) < Len(sp[k])
         /\ sp[k][Len(sp[i]) + 1] = ids[i + 1]
<1> DEFINE P(m) == /\ Len(sp[i]) < Len(sp[m])
                   /\ sp[m][Len(sp[i]) + 1] = ids[i + 1]
           S == {d \in Nat : (i + 1) + d <= Len(ids) => P((i + 1) + d)}
<1>1. \A m \in 1..Len(ids) :
        /\ sp[m - 1] \in Seq(Nat) /\ sp[m] = sp[m - 1] \o IdText(ids[m])
        /\ IdText(ids[m]) \in Seq(Nat) /\ Len(IdText(ids[m])) >= 1
        /\ IdText(ids[m])[1] = ids[m]
  <2> SUFFICES ASSUME NEW m \in 1..Len(ids)
               PROVE  /\ sp[m - 1] \in Seq(Nat) /\ sp[m] = sp[m - 1] \o IdText(ids[m])
                      /\ IdText(ids[m]) \in Seq(Nat) /\ Len(IdText(ids[m])) >= 1
                      /\ IdText(ids[m])[1] = ids[m]
    OBVIOUS
  <2>1. m - 1 \in 0..Len(ids) /\ ids[m] \in Short
    OBVIOUS
  <2>2. sp[m - 1] \in Seq(Nat)
    BY <2>1, SpellsType
  <2> QED
    BY <2>1, <2>2, IdHead DEF Spells
<1>2. P(i + 1)
  <2>1. i + 1 \in 1..Len(ids) /\ (i + 1) - 1 = i
    OBVIOUS
  <2>2. PICK x \in Seq(Nat), y \in Seq(Nat) :
          x = sp[i] /\ y = IdText(ids[i + 1]) /\ sp[i + 1] = x \o y
          /\ Len(y) >= 1 /\ y[1] = ids[i + 1]
    BY <1>1, <2>1
  <2>3. Len(x) \in Nat /\ Len(y) \in Nat /\ Len(y) >= 1
    BY <2>2
  <2>4. Len(x \o y) = Len(x) + Len(y) /\ (x \o y)[Len(x) + 1] = y[1]
    BY <2>3, Joined, Zenon
  <2>5. Len(x) < Len(x) + Len(y)
    BY <2>3
  <2> QED
    BY <2>2, <2>4, <2>5, Zenon
<1>3. ASSUME NEW m \in (i + 1)..Len(ids), m + 1 <= Len(ids), P(m) PROVE P(m + 1)
  <2>1. m + 1 \in 1..Len(ids) /\ (m + 1) - 1 = m
    BY <1>3
  <2>2. PICK x \in Seq(Nat), y \in Seq(Nat) :
          x = sp[m] /\ sp[m + 1] = x \o y
    BY <1>1, <2>1
  <2>3. sp[i] \in Seq(Nat) /\ Len(sp[i]) \in Nat
    BY SpellsType
  <2>4. Len(x) \in Nat /\ Len(y) \in Nat /\ Len(x) <= Len(x \o y)
    BY Joined
  <2>5. Len(sp[i]) + 1 \in 1..Len(x)
    BY <1>3, <2>2, <2>3, <2>4, SMTT(30)
  <2>6. (x \o y)[Len(sp[i]) + 1] = x[Len(sp[i]) + 1]
    BY <2>5, Joined
  <2>7. Len(sp[i]) < Len(x \o y)
    BY <2>3, <2>4, <2>5
  <2> QED
    BY <1>3, <2>2, <2>6, <2>7
<1> HIDE DEF P
<1>4. 0 \in S
  BY <1>2
<1>5. ASSUME NEW d \in S PROVE d + 1 \in S
  <2>1. (i + 1) + (d + 1) = ((i + 1) + d) + 1
    OBVIOUS
  <2> QED
    BY <1>3, <2>1
<1>6. S = Nat
  BY <1>4, <1>5, Induction
<1>7. PICK d \in Nat : k = (i + 1) + d
  <2>1. k - (i + 1) \in Nat /\ k = (i + 1) + (k - (i + 1))
    OBVIOUS
  <2> QED
    BY <2>1
<1>8. d \in S
  BY <1>6, Zenon
<1> QED
  BY <1>7, <1>8 DEF P

\* From the text the ids are found again, one after the other.
LEMMA ReadOneWay ==
  ASSUME 2 * HexBase <= WrapAt,
         NEW u \in Seq(Short), NEW sp, Spells(sp, u),
         NEW v \in Seq(Short), NEW sq, Spells(sq, v),
         sp[Len(u)] = sq[Len(v)], Len(u) <= Len(v)
  PROVE  u = v
<1> DEFINE P(i) == sp[i] = sq[i] /\ \A j \in 1..i : u[j] = v[j]
           S == {i \in Nat : i <= Len(u) => P(i)}
<1>1. P(0)
  BY DEF Spells
<1>2. ASSUME NEW i \in Nat, i + 1 <= Len(u), P(i) PROVE P(i + 1)
  <2>1. /\ i \in 0..Len(u) /\ i < Len(u) /\ Len(u) \in (i + 1)..Len(u)
        /\ i \in 0..Len(v) /\ i < Len(v) /\ Len(v) \in (i + 1)..Len(v)
        /\ i + 1 \in 1..Len(u) /\ i + 1 \in 1..Len(v) /\ (i + 1) - 1 = i
    BY <1>2
  <2>2. sp[Len(u)][Len(sp[i]) + 1] = u[i + 1] /\ sq[Len(v)][Len(sq[i]) + 1] = v[i + 1]
    BY <2>1, Written
  <2>3. u[i + 1] = v[i + 1]
    BY <1>2, <2>2
  <2>4. sp[i + 1] = sp[i] \o IdText(u[i + 1]) /\ sq[i + 1] = sq[i] \o IdText(v[i + 1])
    BY <2>1 DEF Spells
  <2> QED
    BY <1>2, <2>3, <2>4
<1> HIDE DEF P
<1>3. 0 \in S
  BY <1>1
<1>4. \A i \in S : i + 1 \in S
  BY <1>2
<1>5. S = Nat
  BY <1>3, <1>4, Induction
<1>6. Len(u) \in S /\ Len(v) \in Nat
  BY <1>5, Zenon, LenProperties
<1>7. P(Len(u))
  BY <1>6
<1>8. Len(u) = Len(v)
  <2> SUFFICES ASSUME Len(u) < Len(v) PROVE FALSE
    BY <1>6
  <2>1. Len(sq[Len(u)]) < Len(sq[Len(v)])
    BY <1>6, Written
  <2>2. sq[Len(v)] \in Seq(Nat)
    BY <1>6, SpellsType
  <2> QED
    BY <1>7, <2>1, <2>2 DEF P
<1> QED
  BY <1>7, <1>8, SeqEqual DEF P

\* Two texts of such ids are the same only if the ids are.
LEMMA Decoding ==
  ASSUME 2 * HexBase <= WrapAt,
         NEW u \in Seq(Short), NEW sp, Spells(sp, u),
         NEW v \in Seq(Short), NEW sq, Spells(sq, v),
         sp[Len(u)] = sq[Len(v)]
  PROVE  u = v
<1>1. Len(u) \in Nat /\ Len(v) \in Nat
  OBVIOUS
<1>2. Len(u) <= Len(v) \/ Len(v) <= Len(u)
  BY <1>1
<1> QED
  BY <1>2, ReadOneWay

-----------------------------------------------------------------------------
(* Keys and signatures.                                                    *)

\* A key is the text of the return type and then those of the arguments.
KeyReads(key, ret, args, nm) ==
  \E x, y : key = x \o y /\ Reads(x, <<ret>>, nm) /\ Reads(y, args, nm)

\* Types that last have one id each, and so one text.
LEMMA OneText ==
  ASSUME NEW c, NEW f, NEW nm, Given(c, f, nm), NEW sig \in Seq(Types),
         NEW x, NEW y, Reads(x, sig, nm), Reads(y, sig, nm)
  PROVE  x = y
<1>1. PICK u, sp : /\ u \in Seq(DOMAIN nm) /\ Len(u) = Len(sig)
                   /\ \A i \in 1..Len(sig) : nm[u[i]] = sig[i]
                   /\ Spells(sp, u) /\ x = sp[Len(u)]
  BY DEF Reads
<1>2. PICK v, sq : /\ v \in Seq(DOMAIN nm) /\ Len(v) = Len(sig)
                   /\ \A i \in 1..Len(sig) : nm[v[i]] = sig[i]
                   /\ Spells(sq, v) /\ y = sq[Len(v)]
  BY DEF Reads
<1>3. \A i \in 1..Len(sig) : u[i] = v[i]
  <2> SUFFICES ASSUME NEW i \in 1..Len(sig) PROVE u[i] = v[i]
    OBVIOUS
  <2>1. u[i] \in DOMAIN nm /\ v[i] \in DOMAIN nm /\ sig[i] \in Types
    BY <1>1, <1>2
  <2>2. nm[u[i]] = sig[i] /\ nm[v[i]] = sig[i]
    BY <1>1, <1>2
  <2> QED
    BY <2>1, <2>2 DEF Given
<1> DEFINE S == {i \in Nat : i <= Len(sig) => sp[i] = sq[i]}
<1>4. 0 \in S
  BY <1>1, <1>2 DEF Spells
<1>5. ASSUME NEW i \in S PROVE i + 1 \in S
  <2> SUFFICES ASSUME i + 1 <= Len(sig) PROVE sp[i + 1] = sq[i + 1]
    OBVIOUS
  <2>1. i + 1 \in 1..Len(sig) /\ (i + 1) - 1 = i /\ sp[i] = sq[i]
    OBVIOUS
  <2>2. sp[i + 1] = sp[i] \o IdText(u[i + 1]) /\ sq[i + 1] = sq[i] \o IdText(v[i + 1])
    BY <1>1, <1>2, <2>1 DEF Spells
  <2> QED
    BY <1>3, <2>1, <2>2
<1>6. S = Nat
  BY <1>4, <1>5, Induction
<1>7. Len(sig) \in S
  BY <1>6, Zenon, LenProperties
<1> QED
  BY <1>1, <1>2, <1>7

\* A text of ids of one digit is that of one signature.
LEMMA OneSignature ==
  ASSUME 2 * HexBase <= WrapAt, NEW nm, DOMAIN nm \subseteq Short, NEW x,
         NEW s \in Seq(Names), NEW t \in Seq(Names), Reads(x, s, nm), Reads(x, t, nm)
  PROVE  s = t
<1>1. PICK u, sp : /\ u \in Seq(DOMAIN nm) /\ Len(u) = Len(s)
                   /\ \A i \in 1..Len(s) : nm[u[i]] = s[i]
                   /\ Spells(sp, u) /\ x = sp[Len(u)]
  BY DEF Reads
<1>2. PICK v, sq : /\ v \in Seq(DOMAIN nm) /\ Len(v) = Len(t)
                   /\ \A i \in 1..Len(t) : nm[v[i]] = t[i]
                   /\ Spells(sq, v) /\ x = sq[Len(v)]
  BY DEF Reads
<1>3. u \in Seq(Short) /\ v \in Seq(Short)
  BY <1>1, <1>2
<1>4. u = v
  BY <1>1, <1>2, <1>3, Decoding
<1> QED
  BY <1>1, <1>2, <1>4, SeqEqual

\* The text of one type is that of its id.
LEMMA ReadsOne ==
  ASSUME 2 * HexBase <= WrapAt, NEW nm, DOMAIN nm \subseteq Short, NEW x, NEW r,
         Reads(x, <<r>>, nm)
  PROVE  \E n \in Short : n \in DOMAIN nm /\ nm[n] = r /\ x = IdText(n)
<1>1. PICK u, sp : /\ u \in Seq(DOMAIN nm) /\ Len(u) = 1
                   /\ nm[u[1]] = r
                   /\ Spells(sp, u) /\ x = sp[1]
  BY DEF Reads
<1>2. u[1] \in DOMAIN nm /\ u[1] \in Short
  <2>1. 1 \in 1..Len(u)
    BY <1>1
  <2> QED
    BY <1>1, <2>1, ElementOfSeq
<1>3. sp[1] = <<>> \o IdText(u[1])
  <2>1. 1 \in 1..Len(u) /\ 1 - 1 = 0
    BY <1>1
  <2>2. sp[0] = <<>> /\ sp[1] = sp[1 - 1] \o IdText(u[1])
    BY <1>1, <2>1 DEF Spells
  <2> QED
    BY <2>1, <2>2
<1>4. <<>> \o IdText(u[1]) = IdText(u[1])
  BY <1>2, IdHead
<1> QED
  BY <1>1, <1>2, <1>3, <1>4

\* The text of a signature is a sequence of digits.
LEMMA ReadsType ==
  ASSUME 2 * HexBase <= WrapAt, NEW nm, DOMAIN nm \subseteq Short, NEW x,
         NEW s \in Seq(Names), Reads(x, s, nm)
  PROVE  x \in Seq(Nat)
<1>1. PICK u, sp : /\ u \in Seq(DOMAIN nm) /\ Len(u) = Len(s)
                   /\ Spells(sp, u) /\ x = sp[Len(u)]
  BY DEF Reads
<1>2. u \in Seq(Short) /\ Len(u) \in 0..Len(u)
  BY <1>1
<1> QED
  BY <1>1, <1>2, SpellsType

\* A key of ids of one digit is that of one signature.
LEMMA OneKey ==
  ASSUME 2 * HexBase <= WrapAt, NEW nm, DOMAIN nm \subseteq Short, NEW key,
         NEW r, NEW a \in Seq(Names), KeyReads(key, r, a, nm),
         NEW q, NEW b \in Seq(Names), KeyReads(key, q, b, nm)
  PROVE  r = q /\ a = b
<1>1. PICK x, y : key = x \o y /\ Reads(x, <<r>>, nm) /\ Reads(y, a, nm)
  BY DEF KeyReads
<1>2. PICK w, z : key = w \o z /\ Reads(w, <<q>>, nm) /\ Reads(z, b, nm)
  BY DEF KeyReads
<1>3. \E m \in Short : m \in DOMAIN nm /\ nm[m] = r /\ x = IdText(m)
  <2>1. Reads(x, <<r>>, nm)
    BY <1>1
  <2> QED
    BY <2>1, ReadsOne
<1>4. \E n \in Short : n \in DOMAIN nm /\ nm[n] = q /\ w = IdText(n)
  <2>1. Reads(w, <<q>>, nm)
    BY <1>2
  <2> QED
    BY <2>1, ReadsOne
<1>5. PICK m \in Short, n \in Short : /\ m \in DOMAIN nm /\ nm[m] = r /\ x = IdText(m)
                                     /\ n \in DOMAIN nm /\ nm[n] = q /\ w = IdText(n)
  BY <1>3, <1>4, Zenon
<1>6. y \in Seq(Nat) /\ z \in Seq(Nat)
  BY <1>1, <1>2, ReadsType
<1>7. /\ x \in Seq(Nat) /\ Len(x) >= 1 /\ x[1] = m
      /\ w \in Seq(Nat) /\ Len(w) >= 1 /\ w[1] = n
  BY <1>5, IdHead
<1>8. m = n
  <2>1. 1 \in 1..Len(x) /\ 1 \in 1..Len(w)
    BY <1>7
  <2>2. (x \o y)[1] = x[1] /\ (w \o z)[1] = w[1]
    BY <1>6, <1>7, <2>1, Joined
  <2> QED
    BY <1>1, <1>2, <1>7, <2>2
<1>9. r = q /\ x = w
  BY <1>5, <1>8
<1>10. y = z
  <2>1. x \o y = x \o z
    BY <1>1, <1>2, <1>9
  <2>2. Len(y) = Len(z)
    BY <1>6, <1>7, <2>1, Joined
  <2>3. \A i \in 1..Len(y) : /\ (x \o y)[Len(x) + i] = y[i]
                             /\ (x \o z)[Len(x) + i] = z[i]
    BY <1>6, <1>7, <2>2, SMTT(30)
  <2> QED
    BY <1>6, <2>1, <2>2, <2>3, SeqEqual
<1> QED
  BY <1>1, <1>2, <1>9, <1>10, OneSignature

-----------------------------------------------------------------------------
(* The invariant.                                                          *)

\* What may be an argument: anything but a struct.
Plain == Types \union PointerNames

\* Every cached function is under a key that reads as its signature.
Signed(nm) ==
  \A k \in DOMAIN cache :
    /\ cache[k].ret \in Types /\ cache[k].args \in Seq(Plain)
    /\ KeyReads(k, cache[k].ret, cache[k].args, nm)

\* The inductive invariant: some naming of the ids agrees with the types' own
\* ids, and all keys read by it.
VInv ==
  /\ counter \in 0..(MaxCounter + Len(FixedArgs))
  /\ returnType \in Types
  /\ \E nm : Given(counter, idOf, nm) /\ Signed(nm)

\* A key is read as before when more names are known.
LEMMA KeyReadsExtends ==
  ASSUME NEW key, NEW ret \in Names, NEW args \in Seq(Names), NEW nm, NEW m,
         KeyReads(key, ret, args, nm), Extends(m, nm)
  PROVE  KeyReads(key, ret, args, m)
<1>1. PICK x, y : key = x \o y /\ Reads(x, <<ret>>, nm) /\ Reads(y, args, nm)
  BY DEF KeyReads
<1>2. <<ret>> \in Seq(Names)
  OBVIOUS
<1>3. Reads(x, <<ret>>, m) /\ Reads(y, args, m)
  BY <1>1, <1>2, ReadsExtends
<1> QED
  BY <1>1, <1>3 DEF KeyReads

\* A scan that begins.
LEMMA ScanBegins ==
  ASSUME NEW c, NEW f, NEW nm, Given(c, f, nm)
  PROVE  Scanned(Scan(c, f, <<>>), <<>>, nm)
<1>1. Extends(nm, nm)
  BY DEF Extends
<1> QED
  BY <1>1, ReadsNothing DEF Scanned, Scan

\* The fixed types have their ids, and nothing is cached.
LEMMA InitKeys == Init => VInv
<1> SUFFICES ASSUME Init PROVE VInv
  OBVIOUS
<1> DEFINE none == [t \in Types |-> NoId]
           nm == [n \in {} |-> n]
<1>1. PICK used \in UsedBefore :
        LET s == getIds(Scan(used, none, <<>>), FixedArgs)
        IN counter = s.counter /\ idOf = s.ids /\ returnType = ReturnType /\ cache = <<>>
  BY DEF Init
<1> DEFINE s0 == Scan(used, none, <<>>)
           s == getIds(s0, FixedArgs)
<1>2. Given(used, none, nm)
  BY DEF Given
<1> HIDE DEF nm, none
<1>3. Scanned(s0, <<>>, nm)
  BY <1>2, ScanBegins
<1>4. s0.counter = used /\ FixedArgs \in Seq(Names) /\ <<>> \in Seq(Names)
  BY DEF Scan, Names
<1> HIDE DEF s0
<1>5. Scanned(s, <<>> \o FixedArgs, nm) /\ s.counter \in used..(used + Len(FixedArgs))
  BY <1>3, <1>4, GetIdsReads
<1>6. counter = s.counter /\ idOf = s.ids /\ returnType = ReturnType /\ cache = <<>>
  BY <1>1 DEF s0
<1> HIDE DEF s
<1>7. \E m : Given(counter, idOf, m)
  BY <1>5, <1>6 DEF Scanned
<1>8. counter \in 0..(MaxCounter + Len(FixedArgs))
  BY <1>5, <1>6
<1> QED
  BY <1>6, <1>7, <1>8 DEF VInv, Signed

\* More names leave the cached keys read as they were.
LEMMA SignedExtends ==
  ASSUME NEW nm, Signed(nm), NEW m, Extends(m, nm)
  PROVE  Signed(m)
<1> SUFFICES ASSUME NEW k \in DOMAIN cache
             PROVE  KeyReads(k, cache[k].ret, cache[k].args, m)
  BY DEF Signed
<1>1. cache[k].ret \in Names /\ cache[k].args \in Seq(Names)
  BY DEF Signed, Plain, Names
<1> QED
  BY <1>1, KeyReadsExtends DEF Signed

\* An id that another function gives out has no name here.
LEMMA OtherTypeKeys ==
  ASSUME VInv, OtherType
  PROVE  VInv'
<1>1. PICK nm : Given(counter, idOf, nm) /\ Signed(nm)
  BY DEF VInv
<1>2. Given(counter + 1, idOf, nm)
  BY <1>1 DEF Given
<1>3. Signed(nm)'
  BY <1>1 DEF OtherType, Signed
<1> QED
  BY <1>2, <1>3 DEF VInv, OtherType

\* The return type is no part of what the keys read as.
LEMMA PatchKeys ==
  ASSUME VInv, NEW t \in Types, Patch(t)
  PROVE  VInv'
BY DEF VInv, Patch, Signed

LEMMA ArgsType ==
  ASSUME NEW args \in VarArgs
  PROVE  args \in Seq(Names)
BY DEF VarArgs

\* The types before a struct get their ids, and the cache is left alone.
LEMMA ThrowsKeys ==
  ASSUME VInv, NEW args \in VarArgs, GenerateThrows(args)
  PROVE  VInv'
<1> DEFINE F == {i \in DOMAIN args : args[i] \in Structs}
           k == FirstStruct(args)
           ts == SubSeq(args, 1, k - 1)
           s == getIds(Scan(counter, idOf, <<>>), ts)
<1>1. args \in Seq(Names)
  BY ArgsType
<1>2. ts \in Seq(Names)
  <2>1. F # {} /\ F \in SUBSET Nat
    BY <1>1 DEF GenerateThrows, Range
  <2>2. PICK i \in F : \A j \in F : i <= j
    BY <2>1, Least
  <2>3. i \in DOMAIN args /\ args[i] \in Structs
        /\ \A j \in 1..(i - 1) : args[j] \notin Structs
    BY <1>1, <2>2
  <2>4. k \in DOMAIN args
    BY <2>3, Zenon DEF FirstStruct
  <2> HIDE DEF k
  <2> QED
    BY <1>1, <2>4
<1>3. PICK nm : Given(counter, idOf, nm) /\ Signed(nm)
  BY DEF VInv
<1>4. Scanned(Scan(counter, idOf, <<>>), <<>>, nm) /\ <<>> \in Seq(Names)
  BY <1>3, ScanBegins
<1>5. Scanned(s, <<>> \o ts, nm)
      /\ s.counter \in Scan(counter, idOf, <<>>).counter..(Scan(counter, idOf, <<>>).counter + Len(ts))
  BY <1>2, <1>4, GetIdsReads
<1>6. counter' = s.counter /\ idOf' = s.ids /\ s.counter <= MaxCounter
      /\ UNCHANGED <<returnType, cache>>
  BY DEF GenerateThrows
<1> HIDE DEF s, ts
<1>7. PICK m : Extends(m, nm) /\ Given(counter', idOf', m)
  BY <1>5, <1>6 DEF Scanned
<1>8. Signed(m)'
  <2>1. Signed(m)
    BY <1>3, <1>7, SignedExtends
  <2> QED
    BY <2>1, <1>6 DEF Signed
<1>9. counter' \in 0..(MaxCounter + Len(FixedArgs))
  BY <1>6, <1>7 DEF Given
<1> QED
  BY <1>6, <1>7, <1>8, <1>9 DEF VInv

\* What the generator looks up is a key that reads as what it was asked for.
LEMMA Looked ==
  ASSUME NEW args \in VarArgs, Range(args) \intersect Structs = {},
         returnType \in Types, NEW nm, Given(counter, idOf, nm)
  PROVE  /\ FixedArgs \o args \in Seq(Plain)
         /\ \E m : /\ Extends(m, nm)
                   /\ Given(ReturnId(ArgIds(args)).counter, ReturnId(ArgIds(args)).ids, m)
                   /\ KeyReads(Key(ReturnId(ArgIds(args)).text, ArgIds(args).text),
                               returnType, FixedArgs \o args, m)
<1> DEFINE s0 == Scan(counter, idOf, <<>>)
           s1 == getIds(s0, FixedArgs)
           s == ArgIds(args)
           r0 == Scan(s.counter, s.ids, <<>>)
           r == ReturnId(s)
           all == FixedArgs \o args
<1>1. s = getIds(s1, args) /\ r = getId(r0, returnType)
  BY DEF ArgIds, ReturnId
<1>2. args \in Seq(Plain) /\ FixedArgs \in Seq(Plain) /\ all \in Seq(Plain)
  <2>1. args \in Seq(Names)
    BY ArgsType
  <2>2. \A i \in 1..Len(args) : args[i] \in Plain
    BY <2>1 DEF Range, Plain, Names
  <2>3. args \in Seq(Plain)
    BY <2>1, <2>2
  <2>4. FixedArgs \in Seq(Plain)
    BY DEF Plain
  <2> QED
    BY <2>3, <2>4
<1>3. args \in Seq(Names) /\ FixedArgs \in Seq(Names) /\ all \in Seq(Names)
      /\ returnType \in Names /\ <<>> \in Seq(Names)
      /\ <<>> \o FixedArgs = FixedArgs
  BY <1>2 DEF Plain, Names
<1>4. Scanned(s0, <<>>, nm)
  BY ScanBegins
<1> HIDE DEF s0, s, r
<1>5. Scanned(s1, FixedArgs, nm)
  BY <1>3, <1>4, GetIdsReads
<1> HIDE DEF s1
<1>6. Scanned(s, all, nm)
  BY <1>1, <1>3, <1>5, GetIdsReads
<1>7. PICK m1 : Extends(m1, nm) /\ Given(s.counter, s.ids, m1) /\ Reads(s.text, all, m1)
  BY <1>6 DEF Scanned
<1>8. Scanned(r0, <<>>, m1)
  BY <1>7, ScanBegins
<1> HIDE DEF r0
<1>9. Scanned(r, <<returnType>>, m1)
  <2>1. Append(<<>>, returnType) = <<returnType>>
    OBVIOUS
  <2>2. Scanned(r, Append(<<>>, returnType), m1)
    BY <1>1, <1>3, <1>8, GetIdReads
  <2> QED
    BY <2>1, <2>2
<1>10. PICK m : Extends(m, m1) /\ Given(r.counter, r.ids, m) /\ Reads(r.text, <<returnType>>, m)
  BY <1>9 DEF Scanned
<1>11. Reads(s.text, all, m)
  BY <1>3, <1>7, <1>10, ReadsExtends
<1> HIDE DEF all
<1>12. KeyReads(Key(r.text, s.text), returnType, all, m)
  BY <1>10, <1>11 DEF KeyReads, Key
<1>13. Extends(m, nm)
  BY <1>7, <1>10 DEF Extends
<1> QED
  BY <1>2, <1>10, <1>12, <1>13, Zenon DEF all, s, r

\* If CIF_var throws, the ids stay and the cache is left alone.
LEMMA CifThrowsKeys ==
  ASSUME VInv, NEW args \in VarArgs, CifThrows(args)
  PROVE  VInv'
<1>1. PICK nm : Given(counter, idOf, nm) /\ Signed(nm)
  BY DEF VInv
<1>2. /\ counter' = ReturnId(ArgIds(args)).counter
      /\ idOf' = ReturnId(ArgIds(args)).ids
      /\ counter' <= MaxCounter /\ UNCHANGED <<returnType, cache>>
      /\ Range(args) \intersect Structs = {} /\ returnType \in Types
  BY DEF CifThrows, VInv
<1>3. PICK m : Extends(m, nm) /\ Given(counter', idOf', m)
  BY <1>1, <1>2, Looked
<1>4. Signed(m)
  BY <1>1, <1>3, SignedExtends
<1>5. Signed(m)'
  BY <1>2, <1>4 DEF Signed
<1>6. counter' \in 0..(MaxCounter + Len(FixedArgs))
  BY <1>2, <1>3 DEF Given
<1> QED
  BY <1>2, <1>3, <1>5, <1>6 DEF VInv

LEMMA Generated ==
  ASSUME NEW args \in VarArgs, Generate(args), returnType \in Types,
         NEW nm, Given(counter, idOf, nm)
  PROVE  \E m, key :
           /\ Extends(m, nm) /\ Given(counter', idOf', m) /\ counter' <= MaxCounter
           /\ asked'.ret = returnType /\ asked'.args \in Seq(Plain)
           /\ KeyReads(key, returnType, asked'.args, m)
           /\ DOMAIN cache' = DOMAIN cache \union {key}
           /\ \A k \in DOMAIN cache : cache'[k] = cache[k]
           /\ cache'[key] = got'
           /\ key \notin DOMAIN cache => got'.ret = asked'.ret /\ got'.args = asked'.args
<1> DEFINE s == ArgIds(args)
           r == ReturnId(s)
           key == Key(r.text, s.text)
           all == FixedArgs \o args
           new == [ret |-> returnType, args |-> all, cifRet |-> ReturnType]
           func == Lookup(key, new)
<1>1. /\ r.counter <= MaxCounter /\ counter' = r.counter /\ idOf' = r.ids
      /\ cache' = [k \in DOMAIN cache \union {key} |-> IF k = key THEN func ELSE cache[k]]
      /\ asked' = [ret |-> returnType, args |-> all] /\ got' = func
  BY Zenon DEF Generate
<1>2. Range(args) \intersect Structs = {}
  BY DEF Generate
<1>3. /\ all \in Seq(Plain)
      /\ \E m : Extends(m, nm) /\ Given(r.counter, r.ids, m)
                /\ KeyReads(key, returnType, all, m)
  BY <1>2, Looked, Zenon
<1> HIDE DEF s, r, key, all
<1>4. PICK m : Extends(m, nm) /\ Given(r.counter, r.ids, m)
               /\ KeyReads(key, returnType, all, m)
  BY <1>3
<1>5. /\ key \in DOMAIN cache => func = cache[key]
      /\ key \notin DOMAIN cache => func.ret = returnType /\ func.args = all
  BY DEF Lookup
<1> HIDE DEF func, new
<1>6. /\ Extends(m, nm) /\ Given(counter', idOf', m) /\ counter' <= MaxCounter
      /\ asked'.ret = returnType /\ asked'.args \in Seq(Plain)
      /\ KeyReads(key, returnType, asked'.args, m)
      /\ DOMAIN cache' = DOMAIN cache \union {key}
      /\ \A k \in DOMAIN cache : cache'[k] = cache[k]
      /\ cache'[key] = got'
      /\ key \notin DOMAIN cache => got'.ret = asked'.ret /\ got'.args = asked'.args
  <2>1. Given(counter', idOf', m) /\ counter' <= MaxCounter
    BY <1>1, <1>4
  <2>2. asked'.ret = returnType /\ asked'.args = all
    BY <1>1
  <2>3. /\ DOMAIN cache' = DOMAIN cache \union {key} /\ cache'[key] = func
        /\ \A k \in DOMAIN cache : cache'[k] = cache[k]
    BY <1>1, <1>5
  <2> QED
    BY <1>1, <1>3, <1>4, <1>5, <2>1, <2>2, <2>3
<1> QED
  BY <1>6, Zenon

\* The generator keeps the invariant, and what it finds under a key is what it
\* was asked for as long as the ids are of one digit.
LEMMA GenerateKeys ==
  ASSUME VInv, NEW args \in VarArgs, Generate(args)
  PROVE  VInv' /\ (MaxCounter <= HexBase /\ 2 * HexBase <= WrapAt => RightSignature')
<1>1. PICK nm : Given(counter, idOf, nm) /\ Signed(nm)
  BY DEF VInv
<1>2. PICK m, key :
         /\ Extends(m, nm) /\ Given(counter', idOf', m) /\ counter' <= MaxCounter
         /\ asked'.ret = returnType /\ asked'.args \in Seq(Plain)
         /\ KeyReads(key, returnType, asked'.args, m)
         /\ DOMAIN cache' = DOMAIN cache \union {key}
         /\ \A k \in DOMAIN cache : cache'[k] = cache[k]
         /\ cache'[key] = got'
         /\ key \notin DOMAIN cache => got'.ret = asked'.ret /\ got'.args = asked'.args
  BY <1>1, Generated DEF VInv
<1>3. Signed(m)
  BY <1>1, <1>2, SignedExtends
<1>4. returnType' \in Types /\ returnType \in Types
  BY DEF VInv, Generate
<1>5. Signed(m)'
  BY <1>2, <1>3, <1>4 DEF Signed
<1>6. counter' \in 0..(MaxCounter + Len(FixedArgs))
  BY <1>2 DEF Given
<1>7. ASSUME MaxCounter <= HexBase, 2 * HexBase <= WrapAt
      PROVE  got'.ret = asked'.ret /\ got'.args = asked'.args
  <2>1. CASE key \notin DOMAIN cache
    BY <1>2, <2>1
  <2>2. CASE key \in DOMAIN cache
    <3>1. DOMAIN m \subseteq Short
      BY <1>2, <1>7 DEF Given, Short
    <3>2. /\ got' = cache[key] /\ KeyReads(key, cache[key].ret, cache[key].args, m)
          /\ cache[key].args \in Seq(Names) /\ asked'.args \in Seq(Names)
      BY <1>2, <1>3, <2>2 DEF Signed, Plain, Names
    <3>3. cache[key].ret = returnType /\ cache[key].args = asked'.args
      BY <1>2, <1>7, <3>1, <3>2, OneKey
    <3> QED
      BY <1>2, <3>2, <3>3
  <2> QED
    BY <2>1, <2>2
<1> QED
  BY <1>2, <1>4, <1>5, <1>6, <1>7 DEF VInv, RightSignature

-----------------------------------------------------------------------------
(* The theorems.                                                           *)

\* Every key in the cache can be read, id by id, as the signature of the
\* function that is under it.
THEOREM KeysRead == Spec => []VInv
<1>1. ASSUME VInv, [Next]_vars PROVE VInv'
  <2>1. CASE OtherType
    BY <1>1, <2>1, OtherTypeKeys
  <2>2. ASSUME NEW t \in Types, Patch(t) PROVE VInv'
    BY <1>1, <2>2, PatchKeys
  <2>3. ASSUME NEW args \in VarArgs, Generate(args) PROVE VInv'
    BY <1>1, <2>3, GenerateKeys
  <2>4. ASSUME NEW args \in VarArgs, GenerateThrows(args) PROVE VInv'
    BY <1>1, <2>4, ThrowsKeys
  <2>5. ASSUME NEW args \in VarArgs, CifThrows(args) PROVE VInv'
    BY <1>1, <2>5, CifThrowsKeys
  <2>6. CASE UNCHANGED vars
    BY <1>1, <2>6 DEF vars, VInv, Signed
  <2> QED
    BY <1>1, <2>1, <2>2, <2>3, <2>4, <2>5, <2>6 DEF Next
<1> QED
  BY <1>1, InitKeys, PTL DEF Spec

\* Type correctness: in particular each id was given out before, and no struct
\* is in a cached signature.
THEOREM TypeCorrect == Spec => []TypeOK
<1>1. VInv => TypeOK
  <2> SUFFICES ASSUME VInv PROVE TypeOK
    OBVIOUS
  <2>1. PICK nm : Given(counter, idOf, nm) /\ Signed(nm)
    BY DEF VInv
  <2>2. idOf \in [Types -> 0..(counter - 1) \union {NoId}]
    BY <2>1 DEF Given
  <2>3. \A k \in DOMAIN cache : cache[k].args \in Seq(Names)
    BY <2>1 DEF Signed, Plain, Names
  <2> QED
    BY <2>2, <2>3 DEF TypeOK, VInv
<1> QED
  BY <1>1, KeysRead, PTL

\* While at most HexBase ids are given out (and the shift does not reach the
\* sign), the generator returns a function for the types it was given, whatever
\* was cached before.  One id more and it need not: see VariadicCache_collide.
THEOREM RightFunction ==
  ASSUME MaxCounter <= HexBase, 2 * HexBase <= WrapAt
  PROVE  Spec => []RightSignature
<1>1. Init => RightSignature
  BY DEF Init, RightSignature
<1>2. ASSUME VInv, RightSignature, [Next]_vars PROVE RightSignature'
  <2>1. ASSUME NEW args \in VarArgs, Generate(args) PROVE RightSignature'
    BY <1>2, <2>1, GenerateKeys
  <2>2. CASE UNCHANGED <<asked, got>>
    BY <1>2, <2>2 DEF RightSignature
  <2> QED
    BY <1>2, <2>1, <2>2 DEF Next, OtherType, Patch, GenerateThrows, CifThrows, vars
<1> QED
  BY <1>1, <1>2, KeysRead, PTL DEF Spec

\* Functions of types that last are reused.
ReusedIfLasting ==
  \A k, l \in DOMAIN cache :
    /\ cache[k].ret = cache[l].ret /\ cache[k].args = cache[l].args
    /\ cache[k].args \in Seq(Types)
    => k = l

\* Two cached functions of one signature are one function, for any number of
\* ids, if the type objects of the arguments last.
THEOREM LastingReused == Spec => []ReusedIfLasting
<1>1. VInv => ReusedIfLasting
  <2> SUFFICES ASSUME VInv, NEW k \in DOMAIN cache, NEW l \in DOMAIN cache,
                      cache[k].ret = cache[l].ret, cache[k].args = cache[l].args,
                      cache[k].args \in Seq(Types)
               PROVE  k = l
    BY DEF ReusedIfLasting
  <2>1. PICK nm : Given(counter, idOf, nm) /\ Signed(nm)
    BY DEF VInv
  <2> DEFINE ret == cache[k].ret
             args == cache[k].args
  <2>2. ret \in Types /\ args \in Seq(Types) /\ <<ret>> \in Seq(Types)
    BY <2>1 DEF Signed
  <2>3. KeyReads(k, ret, args, nm) /\ KeyReads(l, ret, args, nm)
    BY <2>1 DEF Signed
  <2> HIDE DEF ret, args
  <2>4. PICK x, y : k = x \o y /\ Reads(x, <<ret>>, nm) /\ Reads(y, args, nm)
    BY <2>3 DEF KeyReads
  <2>5. PICK w, z : l = w \o z /\ Reads(w, <<ret>>, nm) /\ Reads(z, args, nm)
    BY <2>3 DEF KeyReads
  <2>6. x = w /\ y = z
    BY <2>1, <2>2, <2>4, <2>5, OneText
  <2> QED
    BY <2>4, <2>5, <2>6
<1> QED
  BY <1>1, KeysRead, PTL

\* In programs whose types all last, functions with the same signature are
\* cached once and reused.
THEOREM Reused ==
  ASSUME PointerNames = {}
  PROVE  Spec => []SameSignatureReused
<1>1. VInv /\ ReusedIfLasting => SameSignatureReused
  <2> SUFFICES ASSUME VInv, ReusedIfLasting PROVE SameSignatureReused
    OBVIOUS
  <2>1. \A k \in DOMAIN cache : cache[k].args \in Seq(Types)
    BY DEF VInv, Signed, Plain
  <2> QED
    BY <2>1 DEF ReusedIfLasting, SameSignatureReused
<1> QED
  BY <1>1, KeysRead, LastingReused, PTL
=============================================================================
