------------------------- MODULE PathSelectionProofs -------------------------
(***************************************************************************)
(* Proofs about PathSelection, for every set of relays, every assignment   *)
(* of networks and every hop count.                                        *)
(*                                                                         *)
(* ExactPath and RepeatsOnlyIfForced speak of the finished path only.  The *)
(* inductive invariant says how the passes get there: the relays of the    *)
(* topology are split over candidates, path and leftover with none lost or *)
(* doubled (Split); used holds the networks of the path and covers those   *)
(* of leftover (Networks); and a network is repeated in the path only at a *)
(* position that comes after every network and every relay of unknown      *)
(* network (RepeatsLate), so that cutting the path cannot drop one of them *)
(* and keep the repetition.                                                *)
(***************************************************************************)
EXTENDS PathSelection, Integers, FiniteSetTheorems, SequenceTheorems,
        WellFoundedInduction, TLAPS

Distinct(s) == \A i, j \in 1 .. Len(s) : s[i] = s[j] => i = j

Apart(s, t) == \A i \in 1 .. Len(s), j \in 1 .. Len(t) : s[i] # t[j]

Working == pc \in {"pass", "fill"}

Split ==
    Working =>
        /\ Len(path) + Len(candidates) + Len(leftover) = Cardinality(topology)
        /\ hopCount <= Cardinality(topology)
        /\ Distinct(path) /\ Distinct(candidates) /\ Distinct(leftover)
        /\ Apart(path, candidates) /\ Apart(path, leftover)
        /\ Apart(candidates, leftover)
        /\ \A i \in 1 .. Len(path) : path[i] \in topology
        /\ \A i \in 1 .. Len(candidates) : candidates[i] \in topology
        /\ \A i \in 1 .. Len(leftover) : leftover[i] \in topology
        /\ \A r \in topology :
               \/ \E i \in 1 .. Len(path) : path[i] = r
               \/ \E i \in 1 .. Len(candidates) : candidates[i] = r
               \/ \E i \in 1 .. Len(leftover) : leftover[i] = r

Networks ==
    Working =>
        /\ \A i \in 1 .. Len(path) :
               Subnet[path[i]] # Unknown => Subnet[path[i]] \in used
        /\ \A i \in 1 .. Len(leftover) :
               Subnet[leftover[i]] # Unknown /\ Subnet[leftover[i]] \in used
        /\ \A u \in used : \E i \in 1 .. Len(path) : Subnet[path[i]] = u

Repeat(i, j) == /\ i < j
                /\ Subnet[path[i]] # Unknown
                /\ Subnet[path[i]] = Subnet[path[j]]

RepeatsLate ==
    /\ pc = "pass" => \A i, j \in 1 .. Len(path) : ~Repeat(i, j)
    /\ pc = "fill" =>
          /\ candidates = <<>>
          /\ \A i, j \in 1 .. Len(path) : Repeat(i, j) =>
                /\ \A u \in used : \E k \in 1 .. Len(path) :
                       k < j /\ Subnet[path[k]] = u
                /\ \A r \in topology : Subnet[r] = Unknown =>
                       \E k \in 1 .. Len(path) : k < j /\ path[k] = r

Blank == pc = "start" => /\ candidates = <<>> /\ path = <<>>
                         /\ leftover = <<>> /\ used = {}

IInv == /\ TypeOK /\ Blank /\ Split /\ Networks /\ RepeatsLate
        /\ ExactPath /\ RepeatsOnlyIfForced

------------------------------------------------------------------------------
(***************************************************************************)
(* What Head, Tail and Append do, index by index.                          *)
(***************************************************************************)
LEMMA HeadTail ==
    ASSUME NEW S, NEW s \in Seq(S), s # <<>>
    PROVE  /\ Len(s) \in Nat /\ Len(s) >= 1
           /\ Head(s) = s[1] /\ Head(s) \in S
           /\ Tail(s) \in Seq(S)
           /\ Len(Tail(s)) = Len(s) - 1
           /\ \A i \in 1 .. Len(s) - 1 : Tail(s)[i] = s[i + 1]
  OBVIOUS

\* Append adds one element at the end and keeps the rest in place.
LEMMA Appended ==
    ASSUME NEW S, NEW s \in Seq(S), NEW x \in S
    PROVE  /\ Append(s, x) \in Seq(S)
           /\ Len(s) \in Nat
           /\ Len(Append(s, x)) = Len(s) + 1
           /\ \A i \in 1 .. Len(s) : Append(s, x)[i] = s[i]
           /\ Append(s, x)[Len(s) + 1] = x
  OBVIOUS

(***************************************************************************)
(* A shuffle is a sequence of all relays of the topology, each one once.   *)
(***************************************************************************)
LEMMA ShuffleFacts ==
    ASSUME NEW S \in SUBSET Relays, NEW s \in Shuffles(S)
    PROVE  /\ s \in Seq(Relays)
           /\ Len(s) = Cardinality(S)
           /\ Distinct(s)
           /\ \A i \in 1 .. Len(s) : s[i] \in S
           /\ \A r \in S : \E i \in 1 .. Len(s) : s[i] = r
<1>1. IsFiniteSet(S) /\ Cardinality(S) \in Nat
  BY RelaysAssumption, FS_Subset, FS_CardinalityType
<1> DEFINE n == Cardinality(S)
<1>2. s \in [1 .. n -> S] /\ \A i, j \in 1 .. n : s[i] = s[j] => i = j
  BY DEF Shuffles
<1>3. s \in Seq(Relays) /\ Len(s) = n
  BY <1>1, <1>2
<1>4. s \in Injection(1 .. n, S)
  BY <1>2 DEF Injection, IsInjective
<1>5. IsFiniteSet(1 .. n) /\ Cardinality(1 .. n) = n
  BY <1>1, FS_Interval
<1>6. s \in Surjection(1 .. n, S)
  BY <1>1, <1>4, <1>5, FS_Injection
<1>7. \A r \in S : \E i \in 1 .. n : s[i] = r
  BY <1>6 DEF Surjection
<1> QED BY <1>2, <1>3, <1>7 DEF Distinct

------------------------------------------------------------------------------
(***************************************************************************)
(* The invariant holds at the start and the shuffle establishes it for the *)
(* first pass.                                                             *)
(***************************************************************************)
LEMMA InitIInv == Init => IInv
<1> SUFFICES ASSUME Init PROVE IInv
  OBVIOUS
<1>1. TypeOK
  BY DEF Init, TypeOK
<1> QED BY <1>1 DEF Init, IInv, Blank, Split, Networks, RepeatsLate, Working,
                    ExactPath, RepeatsOnlyIfForced

\* InsufficientRelays leaves nothing to show about a path.
LEMMA RefuseStep == IInv /\ Refuse => IInv'
  BY DEF IInv, Refuse, TypeOK, Blank, Split, Networks, RepeatsLate, Working,
         ExactPath, RepeatsOnlyIfForced

\* The shuffle puts every relay of the topology among the candidates.
LEMMA ShuffleStep == IInv /\ Shuffle => IInv'
<1> SUFFICES ASSUME IInv, Shuffle PROVE IInv'
  OBVIOUS
<1>1. /\ candidates' = order' /\ pc' = "pass" /\ topology' = topology
      /\ hopCount' = hopCount /\ path' = <<>> /\ used' = {} /\ leftover' = <<>>
      /\ topology \in SUBSET Relays /\ order' \in Shuffles(topology)
      /\ hopCount <= Cardinality(topology) /\ hopCount \in 0 .. MaxHops
  <2>1. Cardinality(topology) \in Nat
    BY RelaysAssumption, FS_Subset, FS_CardinalityType DEF IInv, TypeOK
  <2> QED BY <2>1, MaxHopsAssumption DEF Shuffle, IInv, TypeOK, Blank
<1>2. /\ candidates' \in Seq(Relays)
      /\ Len(candidates') = Cardinality(topology)
      /\ Distinct(candidates')
      /\ \A i \in 1 .. Len(candidates') : candidates'[i] \in topology
      /\ \A r \in topology : \E i \in 1 .. Len(candidates') : candidates'[i] = r
  BY <1>1, ShuffleFacts
<1>3. TypeOK'
  BY <1>1, <1>2 DEF TypeOK
<1>4. Split'
  <2>1. Len(path') = 0 /\ Len(leftover') = 0 /\ Len(candidates') \in Nat
    BY <1>1, <1>2
  <2> QED BY <1>1, <1>2, <2>1 DEF Split, Distinct, Apart
<1>5. Networks' /\ RepeatsLate'
  BY <1>1 DEF Networks, RepeatsLate
<1> QED BY <1>1, <1>3, <1>4, <1>5
        DEF IInv, Blank, ExactPath, RepeatsOnlyIfForced

------------------------------------------------------------------------------
(***************************************************************************)
(* The first pass moves one relay from candidates to path or leftover.     *)
(***************************************************************************)
Considered(r) ==
    /\ Working /\ pc = "pass"
    /\ r = candidates[1] /\ r \in topology
    /\ Len(candidates) \in Nat /\ Len(candidates) >= 1
    /\ candidates' \in Seq(Relays)
    /\ Len(candidates') = Len(candidates) - 1
    /\ \A i \in 1 .. Len(candidates') : candidates'[i] = candidates[i + 1]
    /\ \A i \in 1 .. Len(candidates') : candidates'[i] # r
    /\ Distinct(candidates')
    /\ \A i \in 1 .. Len(candidates') : candidates'[i] \in topology
    /\ \A x \in topology :
           (\E i \in 1 .. Len(candidates) : candidates[i] = x)
           => x = r \/ \E i \in 1 .. Len(candidates') : candidates'[i] = x

\* Whichever arm the match takes, exactly the head leaves candidates.
LEMMA ConsiderFacts ==
    ASSUME IInv, NEW r \in Relays, Considers(r)
    PROVE  Considered(r)
<1>1. /\ pc = "pass" /\ candidates # <<>> /\ r = Head(candidates)
      /\ candidates' = Tail(candidates) /\ candidates \in Seq(Relays)
  BY DEF Considers, IInv, TypeOK
<1>2. /\ Len(candidates) \in Nat /\ Len(candidates) >= 1 /\ r = candidates[1]
      /\ candidates' \in Seq(Relays)
      /\ Len(candidates') = Len(candidates) - 1
      /\ \A i \in 1 .. Len(candidates) - 1 : candidates'[i] = candidates[i + 1]
  BY <1>1, HeadTail
<1>3. /\ Distinct(candidates)
      /\ \A i \in 1 .. Len(candidates) : candidates[i] \in topology
  BY <1>1 DEF IInv, Split, Working
<1>4. /\ r \in topology
      /\ \A i \in 1 .. Len(candidates') : candidates'[i] # r
      /\ Distinct(candidates')
      /\ \A i \in 1 .. Len(candidates') : candidates'[i] \in topology
  BY <1>2, <1>3 DEF Distinct
<1>5. ASSUME NEW x \in topology,
             \E i \in 1 .. Len(candidates) : candidates[i] = x
      PROVE  x = r \/ \E i \in 1 .. Len(candidates') : candidates'[i] = x
  <2>1. PICK i \in 1 .. Len(candidates) : candidates[i] = x
    BY <1>5
  <2>2. CASE i = 1
    BY <1>2, <2>1, <2>2
  <2>3. CASE i # 1
    <3>1. i - 1 \in 1 .. Len(candidates') /\ candidates'[i - 1] = x
      BY <1>2, <2>1, <2>3
    <3> QED BY <3>1
  <2> QED BY <2>2, <2>3
<1> QED BY <1>1, <1>2, <1>4, <1>5 DEF Working, Considered

(***************************************************************************)
(* A sequence without repetitions, and with one more element that is not   *)
(* in it.                                                                  *)
(***************************************************************************)
Grown(t, s, x, S) ==
    /\ Distinct(t)
    /\ \A i \in 1 .. Len(t) : t[i] \in S
    /\ \A i \in 1 .. Len(s) : i \in 1 .. Len(t) /\ t[i] = s[i]
    /\ \E i \in 1 .. Len(t) : t[i] = x
    /\ \A i \in 1 .. Len(t) : t[i] = x \/ \E j \in 1 .. Len(s) : t[i] = s[j]

\* Appending a new element to a sequence without repetitions.
LEMMA Extended ==
    ASSUME NEW s \in Seq(Relays), NEW x \in Relays, NEW S, x \in S,
           Distinct(s), \A i \in 1 .. Len(s) : s[i] # x,
           \A i \in 1 .. Len(s) : s[i] \in S
    PROVE  Grown(Append(s, x), s, x, S)
<1> DEFINE t == Append(s, x)
<1>1. /\ t \in Seq(Relays) /\ Len(s) \in Nat /\ Len(t) = Len(s) + 1
      /\ \A i \in 1 .. Len(s) : t[i] = s[i]
      /\ t[Len(s) + 1] = x
  BY Appended
<1> HIDE DEF t
<1>2. \A i \in 1 .. Len(t) : i = Len(s) + 1 \/ i \in 1 .. Len(s)
  BY <1>1
<1>3. Len(s) + 1 \in 1 .. Len(t) /\ \A i \in 1 .. Len(s) : i \in 1 .. Len(t)
  BY <1>1
<1>4. Distinct(t)
  <2> SUFFICES ASSUME NEW i \in 1 .. Len(t), NEW j \in 1 .. Len(t), t[i] = t[j]
               PROVE  i = j
    BY DEF Distinct
  <2> QED BY <1>1, <1>2 DEF Distinct
<1>5. \A i \in 1 .. Len(t) : t[i] \in S
  BY <1>1, <1>2
<1>6. \A i \in 1 .. Len(t) : t[i] = x \/ \E j \in 1 .. Len(s) : t[i] = s[j]
  BY <1>1, <1>2
<1>7. Grown(t, s, x, S)
  BY <1>1, <1>3, <1>4, <1>5, <1>6 DEF Grown
<1> QED BY <1>7 DEF t

\* A relay of a network already used goes to leftover.
LEMMA SetAsideStep ==
    ASSUME IInv, NEW r \in Relays, SetAside(r)
    PROVE  IInv'
<1>1. /\ Considers(r) /\ Subnet[r] # Unknown /\ Subnet[r] \in used
      /\ leftover' = Append(leftover, r)
      /\ topology' = topology /\ hopCount' = hopCount /\ pc' = pc
      /\ order' = order /\ path' = path /\ used' = used
  BY DEF SetAside, Repeats
<1>c. Considered(r)
  BY <1>1, ConsiderFacts
<1>2. Split /\ Networks /\ Working
  BY <1>c DEF IInv, Considered
<1>3. /\ leftover \in Seq(Relays) /\ path \in Seq(Relays)
      /\ leftover' \in Seq(Relays)
      /\ Len(leftover') = Len(leftover) + 1
      /\ Len(leftover) \in Nat /\ Len(path) \in Nat
  BY <1>1, Appended DEF IInv, TypeOK
<1>4. /\ \A i \in 1 .. Len(leftover) : leftover[i] # r
      /\ \A i \in 1 .. Len(path) : path[i] # r
      /\ Distinct(leftover)
      /\ \A i \in 1 .. Len(leftover) : leftover[i] \in topology
  BY <1>1, <1>c, <1>2 DEF Split, Apart, Considered
<1>e. Grown(leftover', leftover, r, topology)
  <2>1. r \in topology
    BY <1>c DEF Considered
  <2>2. Grown(Append(leftover, r), leftover, r, topology)
    BY <1>3, <1>4, <2>1, Extended
  <2> QED BY <1>1, <2>2
<1>5. /\ Distinct(leftover')
      /\ \A i \in 1 .. Len(leftover') : leftover'[i] \in topology
      /\ \A i \in 1 .. Len(leftover) :
             i \in 1 .. Len(leftover') /\ leftover'[i] = leftover[i]
      /\ \E i \in 1 .. Len(leftover') : leftover'[i] = r
      /\ \A i \in 1 .. Len(leftover') :
             leftover'[i] = r \/ \E j \in 1 .. Len(leftover) : leftover'[i] = leftover[j]
  BY <1>e DEF Grown
<1>6. TypeOK'
  BY <1>1, <1>c, <1>3 DEF IInv, TypeOK, Considered
<1>7. Split'
  <2>1. Len(path') + Len(candidates') + Len(leftover') = Cardinality(topology')
    BY <1>1, <1>c, <1>2, <1>3 DEF Split, Considered
  <2>2. Apart(path', candidates')
    BY <1>1, <1>c, <1>2 DEF Split, Apart, Considered
  <2>3. Apart(path', leftover')
    BY <1>1, <1>2, <1>4, <1>5 DEF Split, Apart
  <2>5. Apart(candidates', leftover')
    <3> SUFFICES ASSUME NEW i \in 1 .. Len(candidates'),
                        NEW j \in 1 .. Len(leftover')
                 PROVE  candidates'[i] # leftover'[j]
      BY DEF Apart
    <3>1. /\ candidates'[i] # r
          /\ i + 1 \in 1 .. Len(candidates) /\ candidates'[i] = candidates[i + 1]
      BY <1>c DEF Considered
    <3> QED BY <1>2, <1>5, <3>1 DEF Split, Apart
  <2>4. \A x \in topology :
            \/ \E i \in 1 .. Len(path') : path'[i] = x
            \/ \E i \in 1 .. Len(candidates') : candidates'[i] = x
            \/ \E i \in 1 .. Len(leftover') : leftover'[i] = x
    <3> SUFFICES ASSUME NEW x \in topology
                 PROVE  \/ \E i \in 1 .. Len(path') : path'[i] = x
                        \/ \E i \in 1 .. Len(candidates') : candidates'[i] = x
                        \/ \E i \in 1 .. Len(leftover') : leftover'[i] = x
      OBVIOUS
    <3>1. CASE \E i \in 1 .. Len(path) : path[i] = x
      BY <1>1, <1>5, <3>1
    <3>2. CASE \E i \in 1 .. Len(leftover) : leftover[i] = x
      BY <1>1, <1>5, <3>2
    <3>3. CASE \E i \in 1 .. Len(candidates) : candidates[i] = x
      <4>1. x = r \/ \E i \in 1 .. Len(candidates') : candidates'[i] = x
        BY <1>c, <3>3 DEF Considered
      <4> QED BY <1>5, <4>1
    <3> QED BY <1>2, <3>1, <3>2, <3>3 DEF Split
  <2> QED BY <1>1, <1>c, <1>2, <1>5, <2>1, <2>2, <2>3, <2>4, <2>5 DEF Split, Considered
<1>8. Networks'
  BY <1>1, <1>2, <1>5 DEF Networks, Working
<1>9. RepeatsLate'
  BY <1>1, <1>c DEF IInv, RepeatsLate, Repeat, Considered
<1> QED BY <1>1, <1>c, <1>6, <1>7, <1>8, <1>9
        DEF IInv, Blank, ExactPath, RepeatsOnlyIfForced, Considered

(***************************************************************************)
(* TakeNew and TakeUnknown: the relay at the head goes to the path.        *)
(***************************************************************************)
LEMMA TakeStep ==
    ASSUME IInv, NEW r \in Relays, TakeNew(r) \/ TakeUnknown(r)
    PROVE  IInv'
<1>1. /\ Considers(r)
      /\ Subnet[r] # Unknown => Subnet[r] \notin used
      /\ Subnet[r] # Unknown => used' = used \cup {Subnet[r]}
      /\ Subnet[r] = Unknown => used' = used
      /\ path' = Append(path, r)
      /\ topology' = topology /\ hopCount' = hopCount /\ pc' = pc
      /\ order' = order /\ leftover' = leftover
  BY DEF TakeNew, TakeUnknown, Repeats
<1>c. Considered(r)
  BY <1>1, ConsiderFacts
<1>2. Split /\ Networks /\ Working
  BY <1>c DEF IInv, Considered
<1>3. /\ leftover \in Seq(Relays) /\ path \in Seq(Relays)
      /\ path' \in Seq(Relays)
      /\ Len(path') = Len(path) + 1
      /\ \A i \in 1 .. Len(path) : path'[i] = path[i]
      /\ path'[Len(path) + 1] = r
      /\ Len(leftover) \in Nat /\ Len(path) \in Nat
  BY <1>1, Appended DEF IInv, TypeOK
<1>4. /\ \A i \in 1 .. Len(leftover) : leftover[i] # r
      /\ \A i \in 1 .. Len(path) : path[i] # r
      /\ Distinct(path)
      /\ \A i \in 1 .. Len(path) : path[i] \in topology
  BY <1>1, <1>c, <1>2 DEF Split, Apart, Considered
<1>e. Grown(path', path, r, topology)
  <2>1. r \in topology
    BY <1>c DEF Considered
  <2>2. Grown(Append(path, r), path, r, topology)
    BY <1>3, <1>4, <2>1, Extended
  <2> QED BY <1>1, <2>2
<1>5. /\ Distinct(path')
      /\ \A i \in 1 .. Len(path') : path'[i] \in topology
      /\ \A i \in 1 .. Len(path) : i \in 1 .. Len(path') /\ path'[i] = path[i]
      /\ \E i \in 1 .. Len(path') : path'[i] = r
      /\ \A i \in 1 .. Len(path') :
             path'[i] = r \/ \E j \in 1 .. Len(path) : path'[i] = path[j]
  BY <1>e DEF Grown
<1>6. TypeOK'
  BY <1>1, <1>c, <1>3 DEF IInv, TypeOK, Considered
<1>7. Split'
  <2>1. Len(path') + Len(candidates') + Len(leftover') = Cardinality(topology')
    BY <1>1, <1>c, <1>2, <1>3 DEF Split, Considered
  <2>2. Apart(candidates', leftover')
    BY <1>1, <1>c, <1>2 DEF Split, Apart, Considered
  <2>3. Apart(path', leftover')
    BY <1>1, <1>2, <1>4, <1>5 DEF Split, Apart
  <2>5. Apart(path', candidates')
    <3> SUFFICES ASSUME NEW i \in 1 .. Len(path'),
                        NEW j \in 1 .. Len(candidates')
                 PROVE  path'[i] # candidates'[j]
      BY DEF Apart
    <3>1. /\ candidates'[j] # r
          /\ j + 1 \in 1 .. Len(candidates) /\ candidates'[j] = candidates[j + 1]
      BY <1>c DEF Considered
    <3> QED BY <1>2, <1>5, <3>1 DEF Split, Apart
  <2>4. \A x \in topology :
            \/ \E i \in 1 .. Len(path') : path'[i] = x
            \/ \E i \in 1 .. Len(candidates') : candidates'[i] = x
            \/ \E i \in 1 .. Len(leftover') : leftover'[i] = x
    <3> SUFFICES ASSUME NEW x \in topology
                 PROVE  \/ \E i \in 1 .. Len(path') : path'[i] = x
                        \/ \E i \in 1 .. Len(candidates') : candidates'[i] = x
                        \/ \E i \in 1 .. Len(leftover') : leftover'[i] = x
      OBVIOUS
    <3>1. CASE \E i \in 1 .. Len(path) : path[i] = x
      BY <1>1, <1>5, <3>1
    <3>2. CASE \E i \in 1 .. Len(leftover) : leftover[i] = x
      BY <1>1, <1>5, <3>2
    <3>3. CASE \E i \in 1 .. Len(candidates) : candidates[i] = x
      <4>1. x = r \/ \E i \in 1 .. Len(candidates') : candidates'[i] = x
        BY <1>c, <3>3 DEF Considered
      <4> QED BY <1>5, <4>1
    <3> QED BY <1>2, <3>1, <3>2, <3>3 DEF Split
  <2> QED BY <1>1, <1>c, <1>2, <1>5, <2>1, <2>2, <2>3, <2>4, <2>5 DEF Split, Considered
<1>8. Networks'
  <2>1. \A i \in 1 .. Len(path') :
            Subnet[path'[i]] # Unknown => Subnet[path'[i]] \in used'
    BY <1>1, <1>2, <1>5 DEF Networks
  <2>2. \A i \in 1 .. Len(leftover') :
            Subnet[leftover'[i]] # Unknown /\ Subnet[leftover'[i]] \in used'
    BY <1>1, <1>2 DEF Networks
  <2>3. \A u \in used' : \E i \in 1 .. Len(path') : Subnet[path'[i]] = u
    BY <1>1, <1>2, <1>5 DEF Networks
  <2> QED BY <2>1, <2>2, <2>3 DEF Networks
<1>9. RepeatsLate'
  <2>1. \A i, j \in 1 .. Len(path) : ~Repeat(i, j)
    BY <1>c DEF IInv, RepeatsLate, Considered
  <2> SUFFICES ASSUME NEW i \in 1 .. Len(path'), NEW j \in 1 .. Len(path'),
                      Repeat(i, j)'
               PROVE  FALSE
    BY <1>1, <1>c DEF RepeatsLate, Considered
  <2>2. i \in 1 .. Len(path) /\ path'[i] = path[i]
    BY <1>3 DEF Repeat
  <2>3. CASE j \in 1 .. Len(path)
    BY <1>3, <2>1, <2>2, <2>3 DEF Repeat
  <2>4. CASE j = Len(path) + 1
    BY <1>1, <1>2, <1>3, <2>2, <2>4 DEF Repeat, Networks
  <2> QED BY <1>3, <2>3, <2>4
<1> QED BY <1>1, <1>c, <1>6, <1>7, <1>8, <1>9
        DEF IInv, Blank, ExactPath, RepeatsOnlyIfForced, Considered

\* The first pass ends without a repeated network in the path.
LEMMA PassEndsStep == IInv /\ PassEnds => IInv'
<1> SUFFICES ASSUME IInv, PassEnds PROVE IInv'
  OBVIOUS
<1>1. /\ pc = "pass" /\ candidates = <<>> /\ pc' = "fill"
      /\ topology' = topology /\ hopCount' = hopCount /\ order' = order
      /\ candidates' = candidates /\ path' = path /\ used' = used
      /\ leftover' = leftover
  BY DEF PassEnds
<1>2. Working /\ Working'
  BY <1>1 DEF Working
<1>3. TypeOK'
  BY <1>1 DEF IInv, TypeOK
<1>4. Split'
  BY <1>1, <1>2 DEF IInv, Split, Distinct, Apart
<1>5. Networks'
  BY <1>1, <1>2 DEF IInv, Networks
<1>6. RepeatsLate'
  BY <1>1 DEF IInv, RepeatsLate, Repeat
<1> QED BY <1>1, <1>3, <1>4, <1>5, <1>6
        DEF IInv, Blank, ExactPath, RepeatsOnlyIfForced

------------------------------------------------------------------------------
(***************************************************************************)
(* The second pass moves the head of leftover to the path.  By then every  *)
(* network and every relay of unknown network is in the path already.      *)
(***************************************************************************)
LEMMA FillStep == IInv /\ Fill => IInv'
<1> SUFFICES ASSUME IInv, Fill PROVE IInv'
  OBVIOUS
<1> DEFINE r == Head(leftover)
<1>1. /\ pc = "fill" /\ leftover # <<>>
      /\ path' = Append(path, r) /\ leftover' = Tail(leftover)
      /\ topology' = topology /\ hopCount' = hopCount /\ pc' = pc
      /\ order' = order /\ candidates' = candidates /\ used' = used
      /\ candidates = <<>>
  BY DEF Fill, IInv, RepeatsLate
<1>2. Split /\ Networks /\ Working /\ Working'
  BY <1>1 DEF IInv, Working
<1>3. leftover \in Seq(Relays) /\ path \in Seq(Relays)
  BY DEF IInv, TypeOK
<1>4. /\ Len(leftover) \in Nat /\ Len(leftover) >= 1
      /\ r = leftover[1] /\ r \in Relays
      /\ leftover' \in Seq(Relays)
      /\ Len(leftover') = Len(leftover) - 1
      /\ \A i \in 1 .. Len(leftover) - 1 : leftover'[i] = leftover[i + 1]
  BY <1>1, <1>3, HeadTail
<1> HIDE DEF r
<1>5. /\ path' \in Seq(Relays) /\ Len(path) \in Nat
      /\ Len(path') = Len(path) + 1
      /\ \A i \in 1 .. Len(path) : path'[i] = path[i]
      /\ path'[Len(path) + 1] = r
  BY <1>1, <1>3, <1>4, Appended
<1>6. /\ 1 \in 1 .. Len(leftover) /\ r \in topology
      /\ Subnet[r] # Unknown /\ Subnet[r] \in used
      /\ \A i \in 1 .. Len(path) : path[i] # r
      /\ Distinct(path) /\ Distinct(leftover)
      /\ \A i \in 1 .. Len(path) : path[i] \in topology
  BY <1>2, <1>4 DEF Split, Networks, Apart
<1>7. Grown(path', path, r, topology)
  BY <1>1, <1>3, <1>4, <1>6, Extended
<1>8. \A i \in 1 .. Len(leftover') :
          /\ i + 1 \in 1 .. Len(leftover) /\ leftover'[i] = leftover[i + 1]
          /\ leftover'[i] # r
  BY <1>4, <1>6 DEF Distinct
<1>9. TypeOK'
  BY <1>1, <1>4, <1>5 DEF IInv, TypeOK
<1>10. Split'
  <2>1. Len(path') + Len(candidates') + Len(leftover') = Cardinality(topology')
    <3>1. Len(candidates) \in Nat
      BY <1>1
    <3> QED BY <1>1, <1>2, <1>4, <1>5, <3>1 DEF Split
  <2>2. Distinct(leftover')
    BY <1>4, <1>6, <1>8 DEF Distinct
  <2>3. Apart(path', leftover')
    <3> SUFFICES ASSUME NEW i \in 1 .. Len(path'), NEW j \in 1 .. Len(leftover')
                 PROVE  path'[i] # leftover'[j]
      BY DEF Apart
    <3>1. /\ j + 1 \in 1 .. Len(leftover) /\ leftover'[j] = leftover[j + 1]
          /\ leftover'[j] # r
      BY <1>8
    <3>2. path'[i] = r \/ \E k \in 1 .. Len(path) : path'[i] = path[k]
      BY <1>7 DEF Grown
    <3>3. Apart(path, leftover)
      BY <1>2 DEF Split
    <3> QED BY <3>1, <3>2, <3>3 DEF Apart
  <2>4. Apart(path', candidates') /\ Apart(candidates', leftover')
    BY <1>1 DEF Apart
  <2>5. \A i \in 1 .. Len(leftover') : leftover'[i] \in topology
    BY <1>2, <1>8 DEF Split
  <2>6. ASSUME NEW x \in topology
        PROVE  \/ \E i \in 1 .. Len(path') : path'[i] = x
               \/ \E i \in 1 .. Len(leftover') : leftover'[i] = x
    <3>1. CASE \E i \in 1 .. Len(path) : path[i] = x
      BY <1>7, <3>1 DEF Grown
    <3>2. CASE \E i \in 1 .. Len(leftover) : leftover[i] = x
      <4>1. PICK i \in 1 .. Len(leftover) : leftover[i] = x
        BY <3>2
      <4>2. CASE i = 1
        BY <1>4, <1>7, <4>1, <4>2 DEF Grown
      <4>3. CASE i # 1
        <5>1. i - 1 \in 1 .. Len(leftover') /\ leftover'[i - 1] = x
          BY <1>4, <4>1, <4>3
        <5> QED BY <5>1
      <4> QED BY <4>2, <4>3
    <3> QED BY <1>1, <1>2, <3>1, <3>2 DEF Split
  <2>7. Distinct(path') /\ \A i \in 1 .. Len(path') : path'[i] \in topology
    BY <1>7 DEF Grown
  <2>8. /\ Distinct(candidates')
        /\ \A i \in 1 .. Len(candidates') : candidates'[i] \in topology'
        /\ hopCount' <= Cardinality(topology')
    BY <1>1, <1>2 DEF Split
  <2> QED BY <1>1, <2>1, <2>2, <2>3, <2>4, <2>5, <2>6, <2>7, <2>8 DEF Split
<1>11. Networks'
  <2>1. \A i \in 1 .. Len(path') :
            Subnet[path'[i]] # Unknown => Subnet[path'[i]] \in used'
    BY <1>1, <1>2, <1>6, <1>7 DEF Networks, Grown
  <2>2. \A i \in 1 .. Len(leftover') :
            Subnet[leftover'[i]] # Unknown /\ Subnet[leftover'[i]] \in used'
    BY <1>1, <1>2, <1>8 DEF Networks
  <2>3. \A u \in used' : \E i \in 1 .. Len(path') : Subnet[path'[i]] = u
    BY <1>1, <1>2, <1>7 DEF Networks, Grown
  <2> QED BY <2>1, <2>2, <2>3 DEF Networks
<1>12. RepeatsLate'
  <2> SUFFICES ASSUME NEW i \in 1 .. Len(path'), NEW j \in 1 .. Len(path'),
                      Repeat(i, j)'
               PROVE  /\ \A u \in used : \E k \in 1 .. Len(path') :
                             k < j /\ Subnet[path'[k]] = u
                      /\ \A x \in topology : Subnet[x] = Unknown =>
                             \E k \in 1 .. Len(path') : k < j /\ path'[k] = x
    BY <1>1 DEF RepeatsLate
  <2>1. \A k \in 1 .. Len(path) : k \in 1 .. Len(path') /\ path'[k] = path[k]
    BY <1>5
  <2>2. i \in 1 .. Len(path)
    BY <1>5 DEF Repeat
  <2>3. CASE j \in 1 .. Len(path)
    <3>1. Repeat(i, j)
      BY <2>1, <2>2, <2>3 DEF Repeat
    <3>2. /\ \A u \in used : \E k \in 1 .. Len(path) : k < j /\ Subnet[path[k]] = u
          /\ \A x \in topology : Subnet[x] = Unknown =>
                 \E k \in 1 .. Len(path) : k < j /\ path[k] = x
      BY <1>1, <2>2, <2>3, <3>1 DEF IInv, RepeatsLate
    <3> QED BY <2>1, <3>2
  <2>4. CASE j = Len(path) + 1
    <3>1. \A k \in 1 .. Len(path) : k < j
      BY <1>5, <2>4
    <3>2. \A u \in used : \E k \in 1 .. Len(path) : Subnet[path[k]] = u
      BY <1>2 DEF Networks
    <3>3. ASSUME NEW x \in topology, Subnet[x] = Unknown
          PROVE  \E k \in 1 .. Len(path) : path[k] = x
      BY <1>1, <1>2, <3>3 DEF Split, Networks
    <3> QED BY <2>1, <3>1, <3>2, <3>3
  <2> QED BY <1>5, <2>3, <2>4
<1> QED BY <1>1, <1>9, <1>10, <1>11, <1>12
        DEF IInv, Blank, ExactPath, RepeatsOnlyIfForced

------------------------------------------------------------------------------
(***************************************************************************)
(* The cut keeps the first hop_count relays of at least as many.           *)
(***************************************************************************)
LEMMA CutFacts ==
    ASSUME IInv, Finish
    PROVE  /\ path' \in Seq(Relays)
           /\ hopCount \in Nat /\ Len(path') = hopCount
           /\ Len(path) \in Nat /\ hopCount <= Len(path)
           /\ \A i \in 1 .. hopCount : path'[i] = path[i]
<1>1. /\ pc = "fill" /\ path' = Truncated
      /\ leftover = <<>> \/ Len(path) = hopCount
      /\ candidates = <<>> /\ Working /\ Split
  BY DEF Finish, IInv, RepeatsLate, Working
<1>2. path \in Seq(Relays) /\ hopCount \in Nat /\ Len(path) \in Nat
  BY MaxHopsAssumption DEF IInv, TypeOK
<1>3. hopCount <= Len(path)
  <2>1. CASE leftover = <<>>
    <3>1. Len(leftover) = 0 /\ Len(candidates) = 0
      BY <1>1, <2>1
    <3> QED BY <1>1, <1>2, <3>1 DEF Split
  <2>2. CASE Len(path) = hopCount
    BY <1>2, <2>2
  <2> QED BY <1>1, <2>1, <2>2
<1>4. CASE Len(path) > hopCount
  BY <1>1, <1>2, <1>4 DEF Truncated
<1>5. CASE Len(path) = hopCount
  BY <1>1, <1>2, <1>5 DEF Truncated
<1> QED BY <1>2, <1>3, <1>4, <1>5

\* The cut path has the properties promised of the result.
LEMMA FinishStep == IInv /\ Finish => IInv'
<1> SUFFICES ASSUME IInv, Finish PROVE IInv'
  OBVIOUS
<1>1. /\ pc = "fill" /\ pc' = "ok"
      /\ topology' = topology /\ hopCount' = hopCount /\ order' = order
      /\ candidates' = candidates /\ used' = used /\ leftover' = leftover
      /\ candidates = <<>>
  BY DEF Finish, IInv, RepeatsLate
<1>2. Split /\ Networks /\ Working /\ ~Working'
  BY <1>1 DEF IInv, Working
<1>3. /\ path' \in Seq(Relays)
      /\ hopCount \in Nat /\ Len(path') = hopCount
      /\ Len(path) \in Nat /\ hopCount <= Len(path)
      /\ \A i \in 1 .. Len(path') : i \in 1 .. Len(path) /\ path'[i] = path[i]
  BY CutFacts
<1>4. TypeOK'
  BY <1>1, <1>3 DEF IInv, TypeOK
<1>5. ExactPath'
  <2>1. Distinct(path) /\ \A i \in 1 .. Len(path) : path[i] \in topology
    BY <1>2 DEF Split
  <2>2. \A i, j \in 1 .. Len(path') : path'[i] = path'[j] => i = j
    BY <1>3, <2>1 DEF Distinct
  <2>3. Elements(path') \subseteq topology
    BY <1>3, <2>1 DEF Elements
  <2> QED BY <1>1, <1>3, <2>2, <2>3 DEF ExactPath
<1>6. RepeatsOnlyIfForced'
  <2> SUFFICES ASSUME SharesSubnet', NEW r \in topology,
                      r \notin Elements(path')
               PROVE  /\ Subnet[r] # Unknown
                      /\ \E i \in 1 .. Len(path') : Subnet[path'[i]] = Subnet[r]
    BY <1>1 DEF RepeatsOnlyIfForced
  <2>1. PICK i \in 1 .. Len(path'), j \in 1 .. Len(path') : Repeat(i, j)'
    <3>1. PICK i \in 1 .. Len(path'), j \in 1 .. Len(path') :
              /\ i # j /\ Subnet[path'[i]] # Unknown
              /\ Subnet[path'[i]] = Subnet[path'[j]]
      BY DEF SharesSubnet
    <3>2. CASE i < j
      BY <3>1, <3>2 DEF Repeat
    <3>3. CASE j < i
      BY <3>1, <3>3 DEF Repeat
    <3> QED BY <1>3, <3>1, <3>2, <3>3
  <2>2. Repeat(i, j) /\ i \in 1 .. Len(path) /\ j \in 1 .. Len(path)
    BY <1>3, <2>1 DEF Repeat
  <2>3. /\ \A u \in used : \E k \in 1 .. Len(path) : k < j /\ Subnet[path[k]] = u
        /\ \A x \in topology : Subnet[x] = Unknown =>
               \E k \in 1 .. Len(path) : k < j /\ path[k] = x
    BY <1>1, <2>2 DEF IInv, RepeatsLate
  <2>4. \A k \in 1 .. Len(path) :
            k < j => k \in 1 .. Len(path') /\ path'[k] = path[k]
    BY <1>3
  <2>5. Subnet[r] # Unknown
    <3> SUFFICES ASSUME Subnet[r] = Unknown PROVE FALSE
      OBVIOUS
    <3>1. PICK k \in 1 .. Len(path) : k < j /\ path[k] = r
      BY <2>3
    <3> QED BY <2>4, <3>1 DEF Elements
  <2>6. Subnet[r] \in used
    BY <1>1, <1>2, <2>5 DEF Split, Networks
  <2>7. PICK k \in 1 .. Len(path) : k < j /\ Subnet[path[k]] = Subnet[r]
    BY <2>3, <2>6
  <2> QED BY <2>4, <2>5, <2>7
<1> QED BY <1>1, <1>2, <1>4, <1>5, <1>6
        DEF IInv, Blank, Split, Networks, RepeatsLate

------------------------------------------------------------------------------
\* A step that changes nothing preserves the invariant.
LEMMA StutterStep == IInv /\ UNCHANGED vars => IInv'
<1> SUFFICES ASSUME IInv, UNCHANGED vars PROVE IInv'
  OBVIOUS
<1>1. /\ topology' = topology /\ hopCount' = hopCount /\ pc' = pc /\ order' = order
      /\ candidates' = candidates /\ path' = path /\ used' = used
      /\ leftover' = leftover
  BY DEF vars
<1>2. TypeOK' /\ Blank'
  BY <1>1 DEF IInv, TypeOK, Blank
<1>3. Split'
  BY <1>1 DEF IInv, Split, Working
<1>4. Networks' /\ RepeatsLate'
  BY <1>1 DEF IInv, Networks, RepeatsLate, Repeat, Working
<1>5. ExactPath' /\ RepeatsOnlyIfForced'
  BY <1>1 DEF IInv, ExactPath, RepeatsOnlyIfForced, SharesSubnet
<1> QED BY <1>2, <1>3, <1>4, <1>5 DEF IInv

(***************************************************************************)
(* The invariant is inductive.                                             *)
(***************************************************************************)
THEOREM Invariance == Spec => []IInv
<1>1. Init => IInv
  BY InitIInv
<1>2. IInv /\ [Next]_vars => IInv'
  <2> SUFFICES ASSUME IInv, [Next]_vars PROVE IInv'
    OBVIOUS
  <2>1. CASE Refuse
    BY <2>1, RefuseStep
  <2>2. CASE Shuffle
    BY <2>2, ShuffleStep
  <2>3. ASSUME NEW r \in Relays, SetAside(r) PROVE IInv'
    BY <2>3, SetAsideStep
  <2>4. ASSUME NEW r \in Relays, TakeNew(r) \/ TakeUnknown(r) PROVE IInv'
    BY <2>4, TakeStep
  <2>5. CASE PassEnds
    BY <2>5, PassEndsStep
  <2>6. CASE Fill
    BY <2>6, FillStep
  <2>7. CASE Finish
    BY <2>7, FinishStep
  <2>8. CASE UNCHANGED vars
    BY <2>8, StutterStep
  <2> QED BY <2>1, <2>2, <2>3, <2>4, <2>5, <2>6, <2>7, <2>8 DEF Next
<1> QED BY <1>1, <1>2, PTL DEF Spec

(***************************************************************************)
(* Every variable of select_diverse_path keeps its type.                   *)
(***************************************************************************)
THEOREM TypeCorrect == Spec => []TypeOK
<1>1. IInv => TypeOK
  BY DEF IInv
<1> QED BY <1>1, Invariance, PTL

(***************************************************************************)
(* A path returned by select_diverse_path has hop_count relays of the      *)
(* topology, no two the same.                                              *)
(***************************************************************************)
THEOREM PathIsExact == Spec => []ExactPath
<1>1. IInv => ExactPath
  BY DEF IInv
<1> QED BY <1>1, Invariance, PTL

(***************************************************************************)
(* It repeats a network only when no relay it left out could have been     *)
(* taken instead.                                                          *)
(***************************************************************************)
THEOREM RepeatsAreForced == Spec => []RepeatsOnlyIfForced
<1>1. IInv => RepeatsOnlyIfForced
  BY DEF IInv
<1> QED BY <1>1, Invariance, PTL

------------------------------------------------------------------------------
(***************************************************************************)
(* Paths!Chosen says at once what the first pass does relay by relay.      *)
(* Kept is the recursive function inside it; that there is one is shown by *)
(* induction on the relays.                                                *)
(***************************************************************************)
KeepsUpTo(g, o, S, n) ==
    g = [k \in 0 .. n |-> IF k = 0 THEN <<>>
                          ELSE IF o[k] \in S THEN Append(g[k - 1], o[k]) ELSE g[k - 1]]

Kept(o, S) == CHOOSE g : KeepsUpTo(g, o, S, Len(o))

Less == {ss \in Nat \X Nat : ss[1] < ss[2]}

\* The order of the naturals is well founded.
LEMMA LessWellFounded == IsWellFoundedOn(Less, Nat)
  BY NatLessThanWellFounded, Zenon DEF OpToRel, Less

\* A function for the first n relays can be extended to one more.
LEMMA KeepsOne ==
    ASSUME NEW o, NEW S, NEW n \in Nat, NEW f, KeepsUpTo(f, o, S, n)
    PROVE  \E g : KeepsUpTo(g, o, S, n + 1)
<1> DEFINE last == IF o[n + 1] \in S THEN Append(f[n], o[n + 1]) ELSE f[n]
           g == [k \in 0 .. n + 1 |-> IF k = n + 1 THEN last ELSE f[k]]
<1>1. g[n + 1] = last /\ \A k \in 0 .. n : g[k] = f[k]
  OBVIOUS
<1>2. g = [k \in 0 .. n + 1 |-> g[k]]
  OBVIOUS
<1> HIDE DEF g
<1>3. \A k \in 0 .. n :
          f[k] = IF k = 0 THEN <<>>
                 ELSE IF o[k] \in S THEN Append(f[k - 1], o[k]) ELSE f[k - 1]
  BY DEF KeepsUpTo
<1>4. ASSUME NEW k \in 0 .. n + 1
      PROVE  g[k] = IF k = 0 THEN <<>>
                    ELSE IF o[k] \in S THEN Append(g[k - 1], o[k]) ELSE g[k - 1]
  <2>1. CASE k = n + 1
    <3>1. k # 0 /\ k - 1 = n /\ n \in 0 .. n
      BY <2>1
    <3> QED BY <1>1, <2>1, <3>1
  <2>2. CASE k # n + 1
    <3>1. k \in 0 .. n /\ (k # 0 => k - 1 \in 0 .. n)
      BY <2>2
    <3> QED BY <1>1, <1>3, <3>1
  <2> QED BY <2>1, <2>2
<1>5. KeepsUpTo(g, o, S, n + 1)
  BY <1>2, <1>4 DEF KeepsUpTo
<1> QED BY <1>5

\* There is one for any number of relays.
LEMMA KeptExists ==
    ASSUME NEW o, NEW S, NEW n \in Nat
    PROVE  \E g : KeepsUpTo(g, o, S, n)
<1> DEFINE Bad == {k \in Nat : ~\E g : KeepsUpTo(g, o, S, k)}
<1> SUFFICES ASSUME Bad # {} PROVE FALSE
  OBVIOUS
<1>1. PICK x \in Bad : \A y \in Bad : <<y, x>> \notin Less
  BY LessWellFounded, WFMin
<1>2. x \in Nat /\ ~\E g : KeepsUpTo(g, o, S, x)
  OBVIOUS
<1>3. x # 0
  <2>1. KeepsUpTo([k \in 0 .. 0 |-> <<>>], o, S, 0)
    BY DEF KeepsUpTo
  <2> QED BY <1>2, <2>1
<1>4. x - 1 \in Nat /\ (x - 1) + 1 = x /\ <<x - 1, x>> \in Less
  BY <1>2, <1>3 DEF Less
<1>5. x - 1 \notin Bad
  BY <1>1, <1>4
<1>6. PICK f : KeepsUpTo(f, o, S, x - 1)
  BY <1>4, <1>5
<1> HIDE DEF Bad
<1>7. \E g : KeepsUpTo(g, o, S, (x - 1) + 1)
  BY <1>4, <1>6, KeepsOne
<1> QED BY <1>2, <1>4, <1>7

\* So Chosen can be computed relay by relay.
LEMMA KeptSteps ==
    ASSUME NEW o \in Seq(Relays), NEW S
    PROVE  /\ Kept(o, S)[0] = <<>>
           /\ \A k \in 1 .. Len(o) :
                  Kept(o, S)[k] = IF o[k] \in S THEN Append(Kept(o, S)[k - 1], o[k])
                                  ELSE Kept(o, S)[k - 1]
           /\ Chosen(o, S) = Kept(o, S)[Len(o)]
<1> DEFINE f == Kept(o, S)
<1>1. Len(o) \in Nat
  OBVIOUS
<1>2. KeepsUpTo(f, o, S, Len(o))
  BY <1>1, KeptExists DEF Kept
<1>3. Chosen(o, S) = f[Len(o)]
  BY DEF Chosen, Kept, KeepsUpTo
<1> HIDE DEF f
<1>4. f[0] = <<>>
  BY <1>1, <1>2 DEF KeepsUpTo
<1>5. \A k \in 1 .. Len(o) :
          f[k] = IF o[k] \in S THEN Append(f[k - 1], o[k]) ELSE f[k - 1]
  <2>1. \A k \in 1 .. Len(o) : k \in 0 .. Len(o) /\ k # 0
    BY <1>1
  <2> QED BY <1>2, <2>1 DEF KeepsUpTo
<1> QED BY <1>3, <1>4, <1>5 DEF f

\* In a shuffle, a relay is a repetition if an earlier one has its subnet.
LEMMA RepeatedIff ==
    ASSUME NEW o \in Seq(Relays), Distinct(o), NEW n \in 1 .. Len(o)
    PROVE  o[n] \in Repeated(o) <=>
               /\ Subnet[o[n]] # Unknown
               /\ \E j \in 1 .. n - 1 : Subnet[o[j]] = Subnet[o[n]]
<1> DEFINE P(k) == /\ Subnet[o[k]] # Unknown
                   /\ \E j \in 1 .. k - 1 : Subnet[o[j]] = Subnet[o[k]]
           K == {k \in 1 .. Len(o) : P(k)}
<1>1. Repeated(o) = {o[i] : i \in K}
  BY DEF Repeated
<1>2. n \in K <=> P(n)
  OBVIOUS
<1>3. K \subseteq 1 .. Len(o)
  OBVIOUS
<1> HIDE DEF P, K
<1>4. o[n] \in Repeated(o) <=> n \in K
  BY <1>1, <1>3 DEF Distinct
<1> QED BY <1>2, <1>4 DEF P

------------------------------------------------------------------------------
(***************************************************************************)
(* The loops and the reference.  After k relays of the shuffle the path    *)
(* and leftover are what Chosen has after k relays, and used the subnets   *)
(* of those k; during the second pass the two lists together are the       *)
(* reference before it is cut.                                             *)
(***************************************************************************)
Fresh(o) == Elements(o) \ Repeated(o)

Listed(o) == Chosen(o, Fresh(o)) \o Chosen(o, Repeated(o))

Done == Len(order) - Len(candidates)

PassMatches ==
    pc = "pass" =>
        /\ Distinct(order)
        /\ Done \in 0 .. Len(order)
        /\ \A i \in 1 .. Len(candidates) : candidates[i] = order[Done + i]
        /\ path = Kept(order, Fresh(order))[Done]
        /\ leftover = Kept(order, Repeated(order))[Done]
        /\ used = {Subnet[order[j]] : j \in 1 .. Done} \ {Unknown}

FillMatches ==
    pc = "fill" =>
        /\ Listed(order) \in Seq(Relays)
        /\ Len(Listed(order)) = Len(path) + Len(leftover)
        /\ \A i \in 1 .. Len(path) : path[i] = Listed(order)[i]
        /\ \A i \in 1 .. Len(leftover) : leftover[i] = Listed(order)[Len(path) + i]

Matches == PassMatches /\ FillMatches /\ MatchesReference

\* Before the first pass nothing is chosen.
LEMMA ShuffleMatches == ASSUME IInv, Shuffle PROVE Matches'
<1>1. /\ candidates' = order' /\ pc' = "pass" /\ path' = <<>> /\ used' = {} /\ leftover' = <<>>
      /\ topology \in SUBSET Relays /\ order' \in Shuffles(topology)
  BY DEF Shuffle, IInv, TypeOK, Blank
<1>2. order' \in Seq(Relays) /\ Distinct(order') /\ Len(order') \in Nat
  BY <1>1, ShuffleFacts
<1>3. /\ Kept(order', Fresh(order'))[0] = <<>>
      /\ Kept(order', Repeated(order'))[0] = <<>>
  BY <1>2, KeptSteps
<1>4. Done' = 0
  BY <1>1, <1>2 DEF Done
<1>5. \A i \in 1 .. Len(candidates') : candidates'[i] = order'[0 + i]
  BY <1>1, <1>2
<1>6. used' = {Subnet[order'[j]] : j \in 1 .. 0} \ {Unknown}
  BY <1>1
<1>7. PassMatches'
  BY <1>1, <1>2, <1>3, <1>4, <1>5, <1>6 DEF PassMatches
<1> QED BY <1>1, <1>7 DEF Matches, FillMatches, MatchesReference

\* Before a relay is considered: it is the next one of the shuffle, and the
\* arm of the match that takes it is the one Repeated decides.
LEMMA ConsiderMatches ==
    ASSUME IInv, Matches, NEW r \in Relays, Considers(r), order' = order
    PROVE  /\ order \in Seq(Relays) /\ Distinct(order)
           /\ Done + 1 \in 1 .. Len(order) /\ (Done + 1) - 1 = Done
           /\ Done' = Done + 1 /\ order[Done + 1] = r
           /\ \A i \in 1 .. Len(candidates') : candidates'[i] = order[(Done + 1) + i]
           /\ r \in Repeated(order) <=> Repeats(r)
           /\ r \in Fresh(order) <=> ~Repeats(r)
<1>1. /\ pc = "pass" /\ candidates # <<>> /\ r = Head(candidates)
      /\ candidates' = Tail(candidates)
  BY DEF Considers
<1>2. candidates \in Seq(Relays) /\ order \in Seq(Relays)
  BY DEF IInv, TypeOK
<1>3. /\ Len(candidates) \in Nat /\ Len(candidates) >= 1 /\ r = candidates[1]
      /\ Len(candidates') = Len(candidates) - 1
      /\ \A i \in 1 .. Len(candidates) - 1 : candidates'[i] = candidates[i + 1]
  BY <1>1, <1>2, HeadTail
<1>4. /\ Distinct(order) /\ Done \in 0 .. Len(order)
      /\ \A i \in 1 .. Len(candidates) : candidates[i] = order[Done + i]
      /\ used = {Subnet[order[j]] : j \in 1 .. Done} \ {Unknown}
  BY <1>1 DEF Matches, PassMatches
<1>5. Len(order) \in Nat
  BY <1>2
<1>6. Done = Len(order) - Len(candidates) /\ Done' = Len(order) - Len(candidates')
  BY DEF Done
<1>7. /\ Done + 1 \in 1 .. Len(order) /\ (Done + 1) - 1 = Done /\ Done' = Done + 1
  BY <1>3, <1>4, <1>5, <1>6
<1>8. order[Done + 1] = r
  BY <1>3, <1>4
<1>9. ASSUME NEW i \in 1 .. Len(candidates') PROVE candidates'[i] = order[(Done + 1) + i]
  <2>1. i + 1 \in 1 .. Len(candidates) /\ Done + (i + 1) = (Done + 1) + i
    BY <1>3, <1>4
  <2> QED BY <1>3, <1>4, <2>1
<1>10. r \in Repeated(order) <=> Repeats(r)
  <2>1. r \in Repeated(order) <=>
            /\ Subnet[r] # Unknown
            /\ \E j \in 1 .. Done : Subnet[order[j]] = Subnet[r]
    BY <1>2, <1>4, <1>7, <1>8, RepeatedIff
  <2>2. Repeats(r) <=> Subnet[r] # Unknown /\ \E j \in 1 .. Done : Subnet[order[j]] = Subnet[r]
    BY <1>4 DEF Repeats
  <2> QED BY <2>1, <2>2
<1>11. r \in Elements(order)
  BY <1>7, <1>8 DEF Elements
<1> QED BY <1>2, <1>4, <1>7, <1>8, <1>9, <1>10, <1>11 DEF Fresh

\* Each arm of the match does what Chosen does with that relay.
LEMMA PassStepMatches ==
    ASSUME IInv, Matches, NEW r \in Relays, SetAside(r) \/ TakeNew(r) \/ TakeUnknown(r)
    PROVE  Matches'
<1> DEFINE f == Kept(order, Fresh(order))
           g == Kept(order, Repeated(order))
           k == Done + 1
<1>1. Considers(r) /\ order' = order /\ pc = "pass" /\ pc' = "pass"
  BY DEF SetAside, TakeNew, TakeUnknown, Considers
<1>2. /\ order \in Seq(Relays) /\ Distinct(order)
      /\ k \in 1 .. Len(order) /\ k - 1 = Done /\ Done' = k /\ order[k] = r
      /\ \A i \in 1 .. Len(candidates') : candidates'[i] = order[k + i]
      /\ r \in Repeated(order) <=> Repeats(r)
      /\ r \in Fresh(order) <=> ~Repeats(r)
  BY <1>1, ConsiderMatches
<1>3. /\ path = f[Done] /\ leftover = g[Done]
      /\ used = {Subnet[order[j]] : j \in 1 .. Done} \ {Unknown}
  BY <1>1 DEF Matches, PassMatches
<1>4. /\ f[k] = IF order[k] \in Fresh(order) THEN Append(f[k - 1], order[k]) ELSE f[k - 1]
      /\ g[k] = IF order[k] \in Repeated(order) THEN Append(g[k - 1], order[k]) ELSE g[k - 1]
  BY <1>2, KeptSteps
<1>5. Done \in 0 .. Len(order) /\ Len(order) \in Nat
  BY <1>1, <1>2 DEF Matches, PassMatches
<1> HIDE DEF f, g
<1>6. /\ f[k] = IF Repeats(r) THEN path ELSE Append(path, r)
      /\ g[k] = IF Repeats(r) THEN Append(leftover, r) ELSE leftover
  BY <1>2, <1>3, <1>4
<1>7. path' = f[k] /\ leftover' = g[k]
  BY <1>6 DEF SetAside, TakeNew, TakeUnknown, Repeats
<1>8. used' = {Subnet[order[j]] : j \in 1 .. k} \ {Unknown}
  <2>1. 1 .. k = (1 .. Done) \cup {k}
    BY <1>5
  <2> HIDE DEF k
  <2>2. {Subnet[order[j]] : j \in 1 .. k} = {Subnet[order[j]] : j \in 1 .. Done} \cup {Subnet[r]}
    BY <1>2, <2>1
  <2>3. \/ used' = used /\ (Subnet[r] = Unknown \/ Subnet[r] \in used)
        \/ used' = used \cup {Subnet[r]} /\ Subnet[r] # Unknown
    BY DEF SetAside, TakeNew, TakeUnknown, Repeats
  <2> QED BY <1>3, <2>2, <2>3
<1>9. k \in 0 .. Len(order)
  BY <1>2, <1>5
<1>10. PassMatches'
  BY <1>1, <1>2, <1>7, <1>8, <1>9 DEF PassMatches, f, g
<1> QED BY <1>1, <1>10 DEF Matches, FillMatches, MatchesReference

\* At its end the first pass has made both parts of the reference.
LEMMA PassEndsMatches == ASSUME IInv, Matches, PassEnds PROVE Matches'
<1>1. /\ pc = "pass" /\ candidates = <<>> /\ pc' = "fill" /\ order' = order
      /\ path' = path /\ leftover' = leftover
  BY DEF PassEnds
<1>2. path \in Seq(Relays) /\ leftover \in Seq(Relays) /\ order \in Seq(Relays)
  BY DEF IInv, TypeOK
<1>3. Done = Len(order)
  BY <1>1, <1>2 DEF Done
<1>4. path = Chosen(order, Fresh(order)) /\ leftover = Chosen(order, Repeated(order))
  <2>1. path = Kept(order, Fresh(order))[Len(order)]
    BY <1>1, <1>3 DEF Matches, PassMatches
  <2>2. leftover = Kept(order, Repeated(order))[Len(order)]
    BY <1>1, <1>3 DEF Matches, PassMatches
  <2> QED BY <1>2, <2>1, <2>2, KeptSteps
<1>5. Listed(order) = path \o leftover
  BY <1>4 DEF Listed
<1>6. /\ Listed(order) \in Seq(Relays) /\ Len(Listed(order)) = Len(path) + Len(leftover)
      /\ \A i \in 1 .. Len(path) : path[i] = Listed(order)[i]
      /\ \A i \in 1 .. Len(leftover) : leftover[i] = Listed(order)[Len(path) + i]
  BY <1>2, <1>5
<1> QED BY <1>1, <1>6 DEF Matches, PassMatches, FillMatches, MatchesReference

\* The second pass moves the border between the two lists.
LEMMA FillMatchesNext == ASSUME IInv, Matches, Fill PROVE Matches'
<1>1. /\ pc = "fill" /\ pc' = "fill" /\ leftover # <<>> /\ order' = order
      /\ path' = Append(path, Head(leftover)) /\ leftover' = Tail(leftover)
  BY DEF Fill
<1>2. path \in Seq(Relays) /\ leftover \in Seq(Relays)
  BY DEF IInv, TypeOK
<1>3. /\ Len(leftover) \in Nat /\ Len(leftover) >= 1
      /\ Head(leftover) = leftover[1] /\ Head(leftover) \in Relays
      /\ Len(leftover') = Len(leftover) - 1
      /\ \A i \in 1 .. Len(leftover) - 1 : leftover'[i] = leftover[i + 1]
  BY <1>1, <1>2, HeadTail
<1>4. /\ Len(path) \in Nat /\ Len(path') = Len(path) + 1
      /\ \A i \in 1 .. Len(path) : path'[i] = path[i]
      /\ path'[Len(path) + 1] = leftover[1]
  BY <1>1, <1>2, <1>3, Appended
<1> DEFINE l == Listed(order)
<1>5. /\ l \in Seq(Relays) /\ Len(l) = Len(path) + Len(leftover)
      /\ \A i \in 1 .. Len(path) : path[i] = l[i]
      /\ \A i \in 1 .. Len(leftover) : leftover[i] = l[Len(path) + i]
  BY <1>1 DEF Matches, FillMatches
<1> HIDE DEF l
<1>6. Len(l) = Len(path') + Len(leftover')
  BY <1>3, <1>4, <1>5
<1>7. ASSUME NEW i \in 1 .. Len(path') PROVE path'[i] = l[i]
  <2>1. CASE i = Len(path) + 1
    BY <1>3, <1>4, <1>5, <2>1
  <2>2. CASE i # Len(path) + 1
    <3>1. i \in 1 .. Len(path)
      BY <1>4, <2>2
    <3> QED BY <1>4, <1>5, <3>1
  <2> QED BY <2>1, <2>2
<1>8. ASSUME NEW i \in 1 .. Len(leftover') PROVE leftover'[i] = l[Len(path') + i]
  <2>1. /\ i \in 1 .. Len(leftover) - 1 /\ i + 1 \in 1 .. Len(leftover)
        /\ Len(path) + (i + 1) = Len(path') + i
    BY <1>3, <1>4
  <2> QED BY <1>3, <1>5, <2>1
<1>9. FillMatches'
  BY <1>1, <1>5, <1>6, <1>7, <1>8 DEF FillMatches, l
<1> QED BY <1>1, <1>9 DEF Matches, PassMatches, MatchesReference

\* Path and leftover together are a shuffle of the topology as well.
LEMMA TogetherShuffle ==
    ASSUME IInv, pc = "fill"
    PROVE  path \o leftover \in Shuffles(topology)
<1> DEFINE n == Cardinality(topology)
           s == path \o leftover
<1>1. path \in Seq(Relays) /\ leftover \in Seq(Relays) /\ candidates = <<>>
  BY DEF IInv, TypeOK, RepeatsLate
<1>2. /\ Len(path) + Len(candidates) + Len(leftover) = n
      /\ Distinct(path) /\ Distinct(leftover) /\ Apart(path, leftover)
      /\ \A i \in 1 .. Len(path) : path[i] \in topology
      /\ \A i \in 1 .. Len(leftover) : leftover[i] \in topology
  BY DEF IInv, Split, Working
<1>3. Len(path) \in Nat /\ Len(leftover) \in Nat /\ Len(candidates) = 0
  BY <1>1
<1>4. /\ s \in Seq(Relays) /\ Len(s) = Len(path) + Len(leftover)
      /\ \A i \in 1 .. Len(path) : s[i] = path[i]
      /\ \A i \in Len(path) + 1 .. Len(path) + Len(leftover) : s[i] = leftover[i - Len(path)]
  BY <1>1
<1> HIDE DEF s
<1>5. Len(s) = n
  BY <1>2, <1>3, <1>4
<1>6. ASSUME NEW i \in 1 .. n
      PROVE  \/ i \in 1 .. Len(path) /\ s[i] = path[i]
             \/ /\ i \in Len(path) + 1 .. Len(path) + Len(leftover)
                /\ i - Len(path) \in 1 .. Len(leftover)
                /\ s[i] = leftover[i - Len(path)]
  BY <1>2, <1>3, <1>4
<1>7. ASSUME NEW i \in 1 .. n PROVE s[i] \in topology
  BY <1>2, <1>6
<1>8. s \in [1 .. n -> topology]
  <2>1. s = [i \in 1 .. Len(s) |-> s[i]]
    BY <1>4
  <2> QED BY <1>5, <1>7, <2>1
<1>9. ASSUME NEW i \in 1 .. n, NEW j \in 1 .. n, s[i] = s[j] PROVE i = j
  <2>1. CASE i \in 1 .. Len(path) /\ s[i] = path[i] /\ j \in 1 .. Len(path) /\ s[j] = path[j]
    BY <1>2, <1>9, <2>1 DEF Distinct
  <2>2. CASE /\ i - Len(path) \in 1 .. Len(leftover) /\ s[i] = leftover[i - Len(path)]
             /\ j - Len(path) \in 1 .. Len(leftover) /\ s[j] = leftover[j - Len(path)]
    <3>1. i - Len(path) = j - Len(path)
      BY <1>2, <1>9, <2>2 DEF Distinct
    <3> QED BY <1>3, <3>1
  <2>3. CASE /\ i \in 1 .. Len(path) /\ s[i] = path[i]
             /\ j - Len(path) \in 1 .. Len(leftover) /\ s[j] = leftover[j - Len(path)]
    BY <1>2, <1>9, <2>3 DEF Apart
  <2>4. CASE /\ j \in 1 .. Len(path) /\ s[j] = path[j]
             /\ i - Len(path) \in 1 .. Len(leftover) /\ s[i] = leftover[i - Len(path)]
    BY <1>2, <1>9, <2>4 DEF Apart
  <2> QED BY <1>6, <2>1, <2>2, <2>3, <2>4
<1> QED BY <1>8, <1>9 DEF Shuffles, s

\* The cut is the cut of the reference.
LEMMA FinishMatches == ASSUME IInv, Matches, Finish PROVE Matches'
<1> DEFINE l == Listed(order)
           s == path \o leftover
<1>1. /\ pc = "fill" /\ pc' = "ok" /\ order' = order /\ hopCount' = hopCount
      /\ topology' = topology
  BY DEF Finish
<1>2. /\ path' \in Seq(Relays) /\ hopCount \in Nat /\ Len(path') = hopCount
      /\ Len(path) \in Nat /\ hopCount <= Len(path)
      /\ \A i \in 1 .. hopCount : path'[i] = path[i]
  BY CutFacts
<1>3. path \in Seq(Relays) /\ leftover \in Seq(Relays)
  BY DEF IInv, TypeOK
<1>4. /\ l \in Seq(Relays) /\ Len(l) = Len(path) + Len(leftover)
      /\ \A i \in 1 .. Len(path) : path[i] = l[i]
  BY <1>1 DEF Matches, FillMatches
<1>5. s \in Seq(Relays) /\ s \in Shuffles(topology) /\ Len(s) = Len(path) + Len(leftover)
      /\ \A i \in 1 .. Len(path) : s[i] = path[i]
  BY <1>1, <1>3, TogetherShuffle
<1>6. DiversePath(order, hopCount) = SubSeq(l, 1, hopCount)
  BY DEF DiversePath, Listed, Fresh
<1> HIDE DEF l, s
<1>7. Len(leftover) \in Nat
  BY <1>3
<1>8. ASSUME NEW t \in Seq(Relays), Len(t) = Len(path) + Len(leftover),
             \A i \in 1 .. Len(path) : t[i] = path[i]
      PROVE  path' = SubSeq(t, 1, hopCount)
  <2>1. hopCount <= Len(t)
    BY <1>2, <1>7, <1>8
  <2>2. /\ SubSeq(t, 1, hopCount) \in Seq(Relays) /\ Len(SubSeq(t, 1, hopCount)) = hopCount
        /\ \A i \in 1 .. hopCount : SubSeq(t, 1, hopCount)[i] = t[i]
    BY <1>2, <2>1
  <2>3. \A i \in 1 .. hopCount : path'[i] = SubSeq(t, 1, hopCount)[i]
    BY <1>2, <1>8, <2>2
  <2> QED BY <1>2, <2>2, <2>3, SeqEqual
<1>9. path' = DiversePath(order, hopCount)
  BY <1>4, <1>6, <1>8
<1>10. path' \in SimplePaths(topology, hopCount)
  BY <1>5, <1>8 DEF SimplePaths
<1> QED BY <1>1, <1>9, <1>10 DEF Matches, PassMatches, FillMatches, MatchesReference

(***************************************************************************)
(* MatchesReference for every topology, assignment of subnets, shuffle and *)
(* hop count: the two loops of select_diverse_path return the relays whose *)
(* subnet no earlier one has, then the others, cut to hop_count, and every *)
(* such path is one that select_path could have returned.                  *)
(***************************************************************************)
THEOREM LoopsMatchReference == Spec => []MatchesReference
<1>1. Init => Matches
  BY DEF Init, Matches, PassMatches, FillMatches, MatchesReference
<1>2. IInv /\ Matches /\ [Next]_vars => Matches'
  <2> SUFFICES ASSUME IInv, Matches, [Next]_vars PROVE Matches'
    OBVIOUS
  <2>1. CASE Refuse
    BY <2>1 DEF Refuse, Matches, PassMatches, FillMatches, MatchesReference
  <2>2. CASE Shuffle
    BY <2>2, ShuffleMatches
  <2>3. ASSUME NEW r \in Relays, SetAside(r) \/ TakeNew(r) \/ TakeUnknown(r) PROVE Matches'
    BY <2>3, PassStepMatches
  <2>4. CASE PassEnds
    BY <2>4, PassEndsMatches
  <2>5. CASE Fill
    BY <2>5, FillMatchesNext
  <2>6. CASE Finish
    BY <2>6, FinishMatches
  <2>7. CASE UNCHANGED vars
    <3>1. UNCHANGED <<topology, hopCount, pc, order, candidates, path, used, leftover>>
      BY <2>7 DEF vars
    <3>2. Done' = Done
      BY <3>1 DEF Done
    <3> QED BY <3>1, <3>2 DEF Matches, PassMatches, FillMatches, MatchesReference
  <2> QED BY <2>1, <2>2, <2>3, <2>4, <2>5, <2>6, <2>7 DEF Next
<1>3. Matches => MatchesReference
  BY DEF Matches
<1> QED BY <1>1, <1>2, <1>3, Invariance, PTL DEF Spec
==============================================================================
