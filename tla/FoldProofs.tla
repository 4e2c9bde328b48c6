------------------------------ MODULE FoldProofs ------------------------------
(***************************************************************************)
(* Theorems about Lifetime, which adds up the sessions of an instance, and *)
(* about Conf, which reads configurations line by line: for every number   *)
(* of clients and sessions, and for configurations of every length.  What  *)
(* a fold returns follows by induction over the naturals and over the      *)
(* subsets of a finite set, which follow from the order of strict subsets  *)
(* being well-founded.  The folds of Bandwidth over tc commands are here   *)
(* with the others; what follows from them is in BandwidthProofs.          *)
(* ProfilesFit follows a server's columns through its profile and either   *)
(* parser into the row of the node that imports it.                        *)
(* AdoptionKeepsWhatIsSaid follows every line of a configuration through   *)
(* the import into the row and the file written for it.                    *)
(***************************************************************************)
EXTENDS Conf, Lifetime, Bandwidth, FiniteSetTheorems, WellFoundedInduction, TLAPS

(* Induction over the naturals, about a set of them.                         *)
LEMMA NaturalsIn ==
    ASSUME NEW I, 0 \in I, \A n \in Nat : n \in I => n + 1 \in I
    PROVE  Nat \subseteq I
<1>. SUFFICES ASSUME NEW n \in Nat, n \notin I PROVE FALSE
  OBVIOUS
<1>. DEFINE Bad == {m \in Nat : m \notin I}
            U == {1..m : m \in Bad}
<1>1. U \subseteq FiniteSubsetsOf(Nat) /\ U # {}
  <2>1. \A m \in Nat : 1..m \in SUBSET Nat /\ IsFiniteSet(1..m)
    BY FS_Interval
  <2>. QED
    BY <2>1 DEF FiniteSubsetsOf
<1>2. \E x \in U : \A y \in U : <<y, x>> \notin StrictSubsetOrdering(Nat)
  BY <1>1, FS_StrictSubsetOrderingWellFounded, WFMin
<1>3. PICK m \in Bad : \A k \in Bad : <<1..k, 1..m>> \notin StrictSubsetOrdering(Nat)
  BY <1>2
<1>4. m # 0 /\ m \in Nat
  BY <1>3
<1>5. m - 1 \in Nat /\ m - 1 \in Bad
  BY <1>4
<1>6. 1..(m - 1) \subseteq 1..m /\ 1..(m - 1) # 1..m
  <2>1. m \in 1..m /\ m \notin 1..(m - 1)
    BY <1>4
  <2>. QED
    BY <1>4, <2>1
<1>7. <<1..(m - 1), 1..m>> \in StrictSubsetOrdering(Nat)
  BY <1>4, <1>5, <1>6 DEF StrictSubsetOrdering
<1>. QED
  BY <1>3, <1>5, <1>7

(* Induction over the subsets of a finite set, about a set of them.          *)
LEMMA SubsetsIn ==
    ASSUME NEW S, IsFiniteSet(S), NEW I, {} \in I,
           \A s \in SUBSET S : s # {} => \E x \in s : s \ {x} \in I => s \in I
    PROVE  SUBSET S \subseteq I
<1>. DEFINE Bad == {s \in SUBSET S : s \notin I}
<1>. SUFFICES ASSUME Bad # {} PROVE FALSE
  OBVIOUS
<1>1. Bad \subseteq FiniteSubsetsOf(S)
  BY FS_FiniteSubsetsOfFinite
<1>2. PICK s \in Bad : \A t \in Bad : <<t, s>> \notin StrictSubsetOrdering(S)
  BY <1>1, FS_StrictSubsetOrderingWellFounded, WFMin
<1>3. PICK x \in s : s \ {x} \in I => s \in I
  BY <1>2
<1>4. s \ {x} \in Bad /\ s \ {x} # s
  BY <1>3
<1>5. <<s \ {x}, s>> \in StrictSubsetOrdering(S)
  BY <1>4 DEF StrictSubsetOrdering
<1>. QED
  BY <1>2, <1>4, <1>5

(* A finite set of numbers that is not empty has a greatest one.             *)
IsGreatest(m, S) == m \in S /\ \A x \in S : m >= x

LEMMA GreatestExists ==
    ASSUME NEW S \in SUBSET Nat, IsFiniteSet(S), S # {}
    PROVE  \E m : IsGreatest(m, S)
<1>. DEFINE Has(s) == \E m \in s : \A x \in s : m >= x
            I == {s \in SUBSET S : s = {} \/ Has(s)}
<1>1. {} \in I
  OBVIOUS
<1>2. ASSUME NEW s \in SUBSET S, s # {} PROVE \E x \in s : s \ {x} \in I => s \in I
  <2>. SUFFICES ASSUME NEW x \in s, s \ {x} \in I PROVE Has(s)
    BY <1>2
  <2>1. CASE s \ {x} = {}
    <3>1. s = {x} /\ x \in Nat
      BY <2>1
    <3>. QED
      BY <3>1
  <2>2. CASE Has(s \ {x})
    <3>1. PICK m \in s \ {x} : \A y \in s \ {x} : m >= y
      BY <2>2
    <3>2. m \in Nat /\ x \in Nat /\ s \subseteq Nat
      OBVIOUS
    <3>3. CASE m >= x
      BY <3>1, <3>3
    <3>4. CASE ~(m >= x)
      <4>1. \A y \in s : x >= y
        BY <3>1, <3>2, <3>4
      <4>. QED
        BY <4>1
    <3>. QED
      BY <3>3, <3>4
  <2>. QED
    BY <2>1, <2>2
<1>3. SUBSET S \subseteq I
  <2>. HIDE DEF I
  <2>. QED
    BY <1>1, <1>2, SubsetsIn
<1>4. Has(S)
  BY <1>3
<1>. QED
  BY <1>4 DEF IsGreatest

LEMMA MaxIsMember ==
    ASSUME NEW S \in SUBSET Nat, IsFiniteSet(S), S # {}
    PROVE  Max(S) \in S
BY GreatestExists DEF IsGreatest, Max

LEMMA MaxOfInterval ==
    ASSUME NEW n \in Nat, n # 0
    PROVE  Max(1..n) = n /\ (1..n) \ {n} = 1..(n - 1) /\ n - 1 \in Nat
<1>1. n \in 1..n /\ \A x \in 1..n : n >= x
  OBVIOUS
<1>2. \A m \in 1..n : (\A x \in 1..n : m >= x) => m = n
  OBVIOUS
<1>3. Max(1..n) = n
  BY <1>1, <1>2 DEF Max
<1>. QED
  BY <1>3

------------------------------------------------------------------------------
(* Lifetime                                                                  *)

(* A sample reads a connected session of the client.                         *)
LEMMA SampledIsConnected ==
    ASSUME ClientTypeOK, NEW c \in Clients, Connected(c) # {}
    PROVE  /\ SampledBytes(c) \in Nat
           /\ \E s \in Connected(c) : SampledBytes(c) = session[c][s]
<1>1. Connected(c) \subseteq Sessions
  BY DEF Connected
<1>2. Connected(c) \in SUBSET Nat /\ IsFiniteSet(Connected(c))
  BY <1>1, ConstantsAssumption, FS_Subset
<1>3. Max(Connected(c)) \in Connected(c)
  BY <1>2, MaxIsMember
<1>4. \A s \in Connected(c) : session[c][s] \in Nat
  BY DEF Connected, ClientTypeOK
<1>. QED
  BY <1>3, <1>4 DEF SampledBytes

(***************************************************************************)
(* The inductive invariant.  NeverOvercharged alone is not inductive: a    *)
(* sample adds bytes that must not have been counted yet.  Uncounted says  *)
(* how many of the bytes of the live session are not in the total: those   *)
(* above the last sample, or all of them once the counter is below it.     *)
(***************************************************************************)
Uncounted(c, s) ==
    IF prev[c] \in Nat /\ session[c][s] >= prev[c]
    THEN session[c][s] - prev[c]
    ELSE session[c][s]

SessionWithinTraffic ==
    \A c \in Clients \ shared, s \in Sessions :
        session[c][s] # NotConnected => session[c][s] <= traffic[c]

UncountedWithinTraffic ==
    \A c \in Clients \ shared, s \in Sessions :
        (session[c][s] # NotConnected /\ prev[c] # NoSample)
            => last[c] + Uncounted(c, s) <= traffic[c]

(* Which session a sample reads matters only for a shared name.              *)
OneAtATime ==
    \A c \in Clients \ shared : \A s, t \in Connected(c) : s = t

LifetimeInv ==
    /\ ClientTypeOK
    /\ OneAtATime
    /\ NeverOvercharged
    /\ SessionWithinTraffic
    /\ UncountedWithinTraffic

LEMMA InitLifetimeInv == LifetimeInit => LifetimeInv
  BY ConstantsAssumption
  DEF LifetimeInit, LifetimeInv, ClientTypeOK, OneAtATime, Connected, NeverOvercharged,
      SessionWithinTraffic, UncountedWithinTraffic

(* A sample of every connected client preserves the invariant.               *)
LEMMA SampleStatusLifetimeInv ==
    ASSUME LifetimeInv, SampleStatus
    PROVE  LifetimeInv'
<1>. USE ConstantsAssumption DEF LifetimeInv
<1>1. ASSUME NEW c \in Clients, Connected(c) # {}
      PROVE  /\ last'[c] = AccumulateLifetime(last[c], SampledBytes(c), prev[c])
             /\ prev'[c] = SampledBytes(c) /\ SampledBytes(c) \in Nat
             /\ last'[c] \in Nat
  <2>1. /\ last'[c] = AccumulateLifetime(last[c], SampledBytes(c), prev[c])
        /\ prev'[c] = SampledBytes(c)
    BY <1>1 DEF SampleStatus
  <2>2. SampledBytes(c) \in Nat
    BY <1>1, SampledIsConnected
  <2>3. last[c] \in Nat /\ prev[c] \in Nat \cup {NoSample}
    BY DEF ClientTypeOK
  <2>. QED
    BY <2>1, <2>2, <2>3 DEF AccumulateLifetime
<1>2. ASSUME NEW c \in Clients, Connected(c) = {}
      PROVE  last'[c] = last[c] /\ prev'[c] = prev[c]
  BY <1>2 DEF SampleStatus
<1>3. UNCHANGED <<session, iface, offset, traffic, shared, restarts>>
  BY DEF SampleStatus
<1>4. ClientTypeOK'
  <2>1. last' = [c \in Clients |-> last'[c]] /\ prev' = [c \in Clients |-> prev'[c]]
    BY DEF SampleStatus
  <2>2. \A c \in Clients : last'[c] \in Nat /\ prev'[c] \in Nat \cup {NoSample}
    BY <1>1, <1>2 DEF ClientTypeOK
  <2>. QED
    BY <1>3, <2>1, <2>2 DEF ClientTypeOK
<1>5. ASSUME NEW c \in Clients \ shared, Connected(c) # {}
      PROVE  /\ last'[c] <= traffic[c]
             /\ \A s \in Connected(c) : session[c][s] = prev'[c]
  <2>1. PICK s \in Connected(c) : SampledBytes(c) = session[c][s]
    BY <1>5, SampledIsConnected
  <2>2. \A t \in Connected(c) : t = s
    BY DEF OneAtATime
  <2>3. s \in Sessions /\ session[c][s] # NotConnected
    BY DEF Connected
  <2>. DEFINE raw == session[c][s]
  <2>4. /\ raw \in Nat /\ raw <= traffic[c]
        /\ prev[c] # NoSample => last[c] + Uncounted(c, s) <= traffic[c]
        /\ last[c] <= traffic[c]
    BY <1>1, <1>5, <2>1, <2>3
    DEF SessionWithinTraffic, UncountedWithinTraffic, NeverOvercharged
  <2>5. last[c] \in Nat /\ traffic[c] \in Nat /\ prev[c] \in Nat \cup {NoSample}
    BY DEF ClientTypeOK
  <2>6. last'[c] = AccumulateLifetime(last[c], raw, prev[c])
    BY <1>1, <1>5, <2>1
  <2>7. CASE prev[c] = NoSample
    BY <2>1, <2>2, <2>4, <2>5, <2>6, <2>7, <1>1, <1>5 DEF AccumulateLifetime
  <2>8. CASE prev[c] \in Nat /\ raw >= prev[c]
    <3>1. last'[c] = last[c] + (raw - prev[c])
      BY <2>6, <2>8 DEF AccumulateLifetime
    <3>2. last[c] + (raw - prev[c]) <= traffic[c]
      BY <2>4, <2>8 DEF Uncounted
    <3>. QED
      BY <1>1, <1>5, <2>1, <2>2, <3>1, <3>2
  <2>9. CASE prev[c] \in Nat /\ ~(raw >= prev[c])
    <3>1. last'[c] = last[c] + raw
      BY <2>6, <2>9 DEF AccumulateLifetime
    <3>2. last[c] + raw <= traffic[c]
      BY <2>4, <2>9 DEF Uncounted
    <3>. QED
      BY <1>1, <1>5, <2>1, <2>2, <3>1, <3>2
  <2>. QED
    BY <2>5, <2>7, <2>8, <2>9
<1>6. NeverOvercharged'
  BY <1>2, <1>3, <1>5 DEF NeverOvercharged
<1>7. SessionWithinTraffic' /\ OneAtATime'
  BY <1>3 DEF SessionWithinTraffic, OneAtATime, Connected
<1>8. UncountedWithinTraffic'
  <2>. SUFFICES ASSUME NEW c \in Clients \ shared, NEW s \in Sessions,
                       session[c][s] # NotConnected
                PROVE  last'[c] + Uncounted(c, s)' <= traffic[c]
    BY <1>3 DEF UncountedWithinTraffic
  <2>1. s \in Connected(c)
    BY DEF Connected
  <2>2. Uncounted(c, s)' = 0
    BY <1>1, <1>3, <1>5, <2>1 DEF Uncounted
  <2>. QED
    BY <1>1, <1>5, <2>1, <2>2
<1>. QED
  BY <1>4, <1>6, <1>7, <1>8

(* Every step preserves the invariant.                                       *)
LEMMA NextLifetimeInv ==
    ASSUME LifetimeInv, [LifetimeNext]_lifetimeVars
    PROVE  LifetimeInv'
<1>. USE ConstantsAssumption
     DEF LifetimeInv, ClientTypeOK, OneAtATime, Connected, NeverOvercharged,
         SessionWithinTraffic, UncountedWithinTraffic, Uncounted
<1>1. ASSUME NEW c \in Clients, NEW s \in Sessions, Connect(c, s)
      PROVE  LifetimeInv'
  BY <1>1 DEF Connect, durable, memory
<1>2. ASSUME NEW c \in Clients, NEW s \in Sessions, Disconnect(c, s)
      PROVE  LifetimeInv'
  BY <1>2 DEF Disconnect, durable, memory
<1>3. ASSUME NEW c \in Clients, NEW s \in Sessions, Transfer(c, s)
      PROVE  LifetimeInv'
  <2>1. session[c][s] \in Nat
    BY <1>3 DEF Transfer
  <2>2. \A k \in Clients, t \in Sessions :
            session'[k][t] = IF k = c /\ t = s THEN session[k][t] + 1 ELSE session[k][t]
    BY <1>3 DEF Transfer
  <2>3. \A k \in Clients : traffic'[k] = IF k = c THEN traffic[k] + 1 ELSE traffic[k]
    BY <1>3 DEF Transfer
  <2>4. UNCHANGED <<last, offset, prev, shared, restarts>>
    BY <1>3 DEF Transfer, durable, memory
  <2>5. ClientTypeOK'
    BY <1>3, <2>1 DEF Transfer, durable, memory
  <2>6. NeverOvercharged'
    BY <2>3, <2>4
  <2>7. SessionWithinTraffic'
    <3>. SUFFICES ASSUME NEW k \in Clients \ shared, NEW t \in Sessions,
                         session'[k][t] # NotConnected
                  PROVE  session'[k][t] <= traffic'[k]
      BY <2>4 DEF SessionWithinTraffic
    <3>1. session[k][t] \in Nat /\ session[k][t] <= traffic[k] /\ traffic[k] \in Nat
      BY <2>1, <2>2
    <3>. QED
      BY <2>2, <2>3, <3>1
  <2>8. UncountedWithinTraffic'
    BY <2>1, <2>2, <2>3, <2>4
  <2>9. OneAtATime'
    BY <2>1, <2>2, <2>4
  <2>. QED
    BY <2>4, <2>5, <2>6, <2>7, <2>8, <2>9
<1>4. CASE ServerRestart
  BY <1>4 DEF ServerRestart, durable, memory
<1>5. CASE SampleStatus
  BY <1>5, SampleStatusLifetimeInv
<1>6. CASE SampleWithoutManagement
  BY <1>6 DEF SampleWithoutManagement
<1>7. ASSUME NEW c \in Clients, ResetClientTraffic(c)
      PROVE  LifetimeInv'
  BY <1>7 DEF ResetClientTraffic, memory
<1>8. CASE DaemonRestart
  BY <1>8 DEF DaemonRestart, durable
<1>9. CASE UNCHANGED lifetimeVars
  BY <1>9 DEF lifetimeVars, durable, memory
<1>. QED
  BY <1>1, <1>2, <1>3, <1>4, <1>5, <1>6, <1>7, <1>8, <1>9 DEF LifetimeNext

(***************************************************************************)
(* No client is ever charged for more bytes than it moved, as long as it   *)
(* never had two sessions at once, whatever the others do.                 *)
(***************************************************************************)
THEOREM ClientsNeverOvercharged == LifetimeSpec => []NeverOvercharged
<1>1. LifetimeInv /\ [LifetimeNext]_lifetimeVars => LifetimeInv'
  BY NextLifetimeInv
<1>2. LifetimeInv => NeverOvercharged
  BY DEF LifetimeInv
<1>. QED
  BY InitLifetimeInv, <1>1, <1>2, PTL DEF LifetimeSpec

------------------------------------------------------------------------------
(***************************************************************************)
(* The instance's total.  Its raw counter is a sum over the sessions, which *)
(* is a recursion over a finite set.                                       *)
(***************************************************************************)

(* h is the recursive function on the subsets of S that takes choice[s] out  *)
(* of s, and applies its step to what is left.                               *)
IsRecursion(h, S, base, step, choice) ==
    \A s \in SUBSET S :
        h[s] = IF s = {} THEN base ELSE step[choice[s]][h[s \ {choice[s]}]]

(* A function on the subsets of a finite set may be defined by recursion.    *)
LEMMA RecursionOnSubsets ==
    ASSUME NEW S, IsFiniteSet(S), NEW V, NEW base \in V, NEW step \in [S -> [V -> V]],
           NEW choice, \A s \in SUBSET S : s # {} => choice[s] \in s
    PROVE  \E h \in [SUBSET S -> V] : IsRecursion(h, S, base, step, choice)
<1>. DEFINE Small(n) == {s \in SUBSET S : Cardinality(s) <= n}
            Works(h, n) == /\ h \in [Small(n) -> V]
                           /\ \A s \in Small(n) :
                                 h[s] = IF s = {} THEN base
                                        ELSE step[choice[s]][h[s \ {choice[s]}]]
            I == {n \in Nat : \E h : Works(h, n)}
<1>1. \A s \in SUBSET S : IsFiniteSet(s) /\ Cardinality(s) \in Nat
  BY FS_Subset, FS_CardinalityType
<1>2. 0 \in I
  <2>1. Small(0) = {{}}
    BY <1>1, FS_EmptySet
  <2>2. Works([s \in Small(0) |-> base], 0)
    BY <2>1
  <2>. QED
    BY <2>2
<1>3. ASSUME NEW n \in Nat, n \in I PROVE n + 1 \in I
  <2>1. PICK h : Works(h, n)
    BY <1>3
  <2>2. ASSUME NEW s \in Small(n + 1), s # {}
        PROVE  s \ {choice[s]} \in Small(n) /\ choice[s] \in S
    <3>1. choice[s] \in s /\ s \in SUBSET S /\ Cardinality(s) <= n + 1
      BY <2>2
    <3>2. Cardinality(s \ {choice[s]}) = Cardinality(s) - 1
      BY <1>1, <3>1, FS_RemoveElement
    <3>. QED
      BY <1>1, <3>1, <3>2
  <2>3. Small(n) \subseteq Small(n + 1)
    BY <1>1
  <2>. DEFINE g == [s \in Small(n + 1) |-> IF s = {} THEN base
                                           ELSE step[choice[s]][h[s \ {choice[s]}]]]
  <2>4. g \in [Small(n + 1) -> V]
    <3>. SUFFICES ASSUME NEW s \in Small(n + 1), s # {}
                  PROVE  step[choice[s]][h[s \ {choice[s]}]] \in V
      OBVIOUS
    <3>1. h[s \ {choice[s]}] \in V /\ choice[s] \in S
      BY <2>1, <2>2
    <3>. QED
      BY <3>1
  <2>5. \A s \in Small(n) : g[s] = h[s]
    BY <2>1, <2>3
  <2>6. \A s \in Small(n + 1) :
           g[s] = IF s = {} THEN base ELSE step[choice[s]][g[s \ {choice[s]}]]
    BY <2>2, <2>5
  <2>. HIDE DEF g
  <2>7. Works(g, n + 1)
    BY <2>4, <2>6
  <2>8. n + 1 \in Nat
    OBVIOUS
  <2>. HIDE DEF Works
  <2>. QED
    BY <2>7, <2>8
<1>4. Nat \subseteq I
  <2>. HIDE DEF I
  <2>. QED
    BY <1>2, <1>3, NaturalsIn
<1>5. PICK h : Works(h, Cardinality(S))
  BY <1>1, <1>4
<1>6. Small(Cardinality(S)) = SUBSET S
  BY <1>1, FS_Subset
<1>. QED
  BY <1>5, <1>6 DEF IsRecursion

(* The sum over the sessions is a recursive function of the set of them: it  *)
(* exists, and so it is the one that is chosen, and every value is a number. *)
LEMMA SumIsNatural ==
    ASSUME session \in [Clients -> [Sessions -> Nat \cup {NotConnected}]]
    PROVE  SumBytes \in Nat
<1>. DEFINE picked(s) == CHOOSE cs \in s : TRUE
            bytes(cs) == session[cs[1]][cs[2]]
            body(it) == [s \in SUBSET Live |->
                            IF s = {} THEN 0 ELSE bytes(picked(s)) + it[s \ {picked(s)}]]
            iter == CHOOSE it : it = body(it)
<1>1. SumBytes = iter[Live]
  BY DEF SumBytes, MapThenSumSet, MapThenFoldSet
<1>2. IsFiniteSet(Live)
  <2>1. IsFiniteSet(Clients \X Sessions)
    BY ConstantsAssumption, FS_Product
  <2>. QED
    BY <2>1, FS_Subset DEF Live
<1>3. \A cs \in Live : bytes(cs) \in Nat
  BY DEF Live
<1>4. \A s \in SUBSET Live : s # {} => picked(s) \in s
  OBVIOUS
<1>. HIDE DEF picked, bytes
<1>5. \E h : h = body(h)
  <2>. DEFINE step == [cs \in Live |-> [v \in Nat |-> bytes(cs) + v]]
              choice == [s \in SUBSET Live |-> picked(s)]
  <2>1. step \in [Live -> [Nat -> Nat]]
    BY <1>3
  <2>2. \A s \in SUBSET Live : s # {} => choice[s] \in s
    BY <1>4
  <2>3. PICK h \in [SUBSET Live -> Nat] : IsRecursion(h, Live, 0, step, choice)
    <3>. HIDE DEF step, choice, body, iter
    <3>1. 0 \in Nat
      OBVIOUS
    <3>. QED
      BY <1>2, <2>1, <2>2, <3>1, RecursionOnSubsets
  <2>4. \A s \in SUBSET Live :
            h[s] = IF s = {} THEN 0 ELSE bytes(picked(s)) + h[s \ {picked(s)}]
    BY <1>4, <2>3 DEF IsRecursion
  <2>5. DOMAIN h = SUBSET Live /\ h = [s \in SUBSET Live |-> h[s]]
    BY <2>3
  <2>6. h = [s \in SUBSET Live |->
                IF s = {} THEN 0 ELSE bytes(picked(s)) + h[s \ {picked(s)}]]
    BY <2>4, <2>5
  <2>. QED
    BY <2>6
<1>6. iter = body(iter)
  <2>. HIDE DEF body
  <2>. QED
    BY <1>5
<1>. HIDE DEF iter
<1>7. \A s \in SUBSET Live :
          iter[s] = IF s = {} THEN 0 ELSE bytes(picked(s)) + iter[s \ {picked(s)}]
  BY <1>6
<1>. DEFINE I == {s \in SUBSET Live : iter[s] \in Nat}
<1>8. {} \in I
  <2>1. {} \in SUBSET Live
    OBVIOUS
  <2>2. iter[{}] = 0
    BY <1>7, <2>1
  <2>. QED
    BY <2>1, <2>2
<1>9. ASSUME NEW s \in SUBSET Live, s # {} PROVE \E cs \in s : s \ {cs} \in I => s \in I
  <2>1. picked(s) \in s /\ bytes(picked(s)) \in Nat
    BY <1>3, <1>4, <1>9
  <2>. QED
    BY <1>7, <1>9, <2>1
<1>10. SUBSET Live \subseteq I
  <2>. HIDE DEF I
  <2>. QED
    BY <1>2, <1>8, <1>9, SubsetsIn
<1>. QED
  BY <1>1, <1>10

(* What is accumulated is a number, and never less than it was.              *)
LEMMA AccumulateNeverLowers ==
    ASSUME NEW l \in Nat, NEW raw \in Nat, NEW p \in Nat \cup {NoSample}
    PROVE  AccumulateLifetime(l, raw, p) \in Nat /\ AccumulateLifetime(l, raw, p) >= l
  BY ConstantsAssumption DEF AccumulateLifetime

(* The types are kept, and no total goes down: of whatever sessions a name   *)
(* has, and whatever the raw value of the instance is made of.               *)
NothingDrops ==
    /\ LifetimeTypeOK'
    /\ \A c \in Clients : last'[c] >= last[c]
    /\ instLast' >= instLast

LEMMA SampleStatusDrops ==
    ASSUME LifetimeTypeOK, SampleStatus
    PROVE  NothingDrops
<1>. USE ConstantsAssumption DEF LifetimeTypeOK, ClientTypeOK
<1>1. InstanceRaw \in Nat
  BY SumIsNatural DEF InstanceRaw
<1>2. instLast' \in Nat /\ instLast' >= instLast /\ instPrev' \in Nat
  BY <1>1, AccumulateNeverLowers DEF SampleStatus
<1>3. ASSUME NEW c \in Clients, Connected(c) # {}
      PROVE  SampledBytes(c) \in Nat
  BY <1>3, SampledIsConnected
<1>4. ASSUME NEW c \in Clients
      PROVE  /\ last'[c] \in Nat /\ last'[c] >= last[c]
             /\ prev'[c] \in Nat \cup {NoSample}
  <2>1. CASE Connected(c) = {}
    BY <2>1 DEF SampleStatus
  <2>2. CASE Connected(c) # {}
    <3>1. /\ last'[c] = AccumulateLifetime(last[c], SampledBytes(c), prev[c])
          /\ prev'[c] = SampledBytes(c)
      BY <2>2 DEF SampleStatus
    <3>2. last[c] \in Nat /\ prev[c] \in Nat \cup {NoSample}
      OBVIOUS
    <3>3. /\ AccumulateLifetime(last[c], SampledBytes(c), prev[c]) \in Nat
          /\ AccumulateLifetime(last[c], SampledBytes(c), prev[c]) >= last[c]
      BY <1>3, <2>2, <3>2, AccumulateNeverLowers
    <3>. QED
      BY <1>3, <2>2, <3>1, <3>3
  <2>. QED
    BY <2>1, <2>2
<1>5. last' = [c \in Clients |-> last'[c]] /\ prev' = [c \in Clients |-> prev'[c]]
  BY DEF SampleStatus
<1>6. last' \in [Clients -> Nat] /\ prev' \in [Clients -> Nat \cup {NoSample}]
  BY <1>4, <1>5
<1>7. UNCHANGED <<session, iface, offset, traffic, shared, restarts>>
  BY DEF SampleStatus
<1>. QED
  BY <1>2, <1>4, <1>6, <1>7 DEF NothingDrops

LEMMA NextDrops ==
    ASSUME LifetimeTypeOK, [LifetimeNext]_lifetimeVars
    PROVE  NothingDrops
<1>. USE ConstantsAssumption DEF NothingDrops, LifetimeTypeOK, ClientTypeOK
<1>1. ASSUME NEW c \in Clients, NEW s \in Sessions, Connect(c, s)
      PROVE  NothingDrops
  BY <1>1 DEF Connect, durable, memory
<1>2. ASSUME NEW c \in Clients, NEW s \in Sessions, Disconnect(c, s)
      PROVE  NothingDrops
  BY <1>2 DEF Disconnect, durable, memory
<1>3. ASSUME NEW c \in Clients, NEW s \in Sessions, Transfer(c, s)
      PROVE  NothingDrops
  <2>1. session[c][s] \in Nat
    BY <1>3 DEF Transfer
  <2>2. session' \in [Clients -> [Sessions -> Nat \cup {NotConnected}]]
    BY <1>3, <2>1 DEF Transfer
  <2>3. iface' \in Nat /\ traffic' \in [Clients -> Nat]
    BY <1>3 DEF Transfer
  <2>4. UNCHANGED <<durable, memory, shared, restarts>>
    BY <1>3 DEF Transfer
  <2>. QED
    BY <2>2, <2>3, <2>4 DEF durable, memory
<1>4. CASE ServerRestart
  BY <1>4 DEF ServerRestart, durable, memory
<1>5. CASE SampleStatus
  BY <1>5, SampleStatusDrops
<1>6. CASE SampleWithoutManagement
  <2>. DEFINE raw == IF HasDevice THEN iface ELSE 0
  <2>1. raw \in Nat
    OBVIOUS
  <2>2. /\ instLast' = AccumulateLifetime(instLast, raw, instPrev)
        /\ instPrev' = raw
        /\ UNCHANGED <<session, iface, last, offset, prev, traffic, shared, restarts>>
    BY <1>6 DEF SampleWithoutManagement
  <2>. HIDE DEF raw
  <2>3. /\ AccumulateLifetime(instLast, raw, instPrev) \in Nat
        /\ AccumulateLifetime(instLast, raw, instPrev) >= instLast
    BY <2>1, AccumulateNeverLowers
  <2>. QED
    BY <2>1, <2>2, <2>3
<1>7. ASSUME NEW c \in Clients, ResetClientTraffic(c)
      PROVE  NothingDrops
  BY <1>7 DEF ResetClientTraffic, memory
<1>8. CASE DaemonRestart
  BY <1>8 DEF DaemonRestart, durable
<1>9. CASE UNCHANGED lifetimeVars
  BY <1>9 DEF lifetimeVars, durable, memory
<1>. QED
  BY <1>1, <1>2, <1>3, <1>4, <1>5, <1>6, <1>7, <1>8, <1>9 DEF LifetimeNext

(* The variables have their types, for any number of clients and sessions.   *)
THEOREM CountersAreNumbers == LifetimeSpec => []LifetimeTypeOK
<1>1. LifetimeInit => LifetimeTypeOK
  BY ConstantsAssumption DEF LifetimeInit, LifetimeTypeOK, ClientTypeOK
<1>2. LifetimeTypeOK /\ [LifetimeNext]_lifetimeVars => LifetimeTypeOK'
  BY NextDrops DEF NothingDrops
<1>. QED
  BY <1>1, <1>2, PTL DEF LifetimeSpec

(* No step lowers the durable total of a client, also when its name has      *)
(* several sessions, of which each sample sees another one.                  *)
THEOREM ClientTotalsNeverDrop == LifetimeSpec => LifetimeNeverDrops
<1>1. LifetimeTypeOK /\ [LifetimeNext]_lifetimeVars => [\A c \in Clients : last'[c] >= last[c]]_lifetimeVars
  BY NextDrops DEF NothingDrops
<1>. QED
  BY <1>1, CountersAreNumbers, PTL DEF LifetimeSpec, LifetimeNeverDrops

(* No step lowers the durable total of the instance: not a sum that shrinks  *)
(* when a client leaves, nor the change between the sum, the device counter  *)
(* and zero.                                                                 *)
THEOREM InstanceTotalNeverDrops == LifetimeSpec => InstanceLifetimeNeverDrops
<1>1. LifetimeTypeOK /\ [LifetimeNext]_lifetimeVars => [instLast' >= instLast]_lifetimeVars
  BY NextDrops DEF NothingDrops
<1>. QED
  BY <1>1, CountersAreNumbers, PTL DEF LifetimeSpec, InstanceLifetimeNeverDrops

------------------------------------------------------------------------------
(* Conf and Bandwidth: folds over lines and commands                         *)

ASeq(s) == \E S : s \in Seq(S)

(* The steps of the folds in Conf and Bandwidth.                             *)
Step(f, r, d) ==
    CASE f = "line" -> ParseLine(r, d)
      [] f = "block" -> Materialize1(r, d)
      [] f = "consoleLine" -> ConsoleLine(r, d)
      [] f = "consoleBlock" -> ConsoleBlock(r, d)
      [] f = "tc" -> Exec(r, d)

IsFold(it, f, base, c, n) ==
    it = [s \in SUBSET (1..n) |->
             IF s = {} THEN base ELSE Step(f, it[s \ {Max(s)}], c[Max(s)])]

(* A fold is a recursion over the subsets of a finite set, and exists.       *)
LEMMA FoldExists ==
    ASSUME NEW f, NEW base, NEW c, NEW n \in Nat
    PROVE  \E h : IsFold(h, f, base, c, n)
<1>. DEFINE Small(m) == {s \in SUBSET (1..n) : Cardinality(s) <= m}
            Next1(h, s) == IF s = {} THEN base ELSE Step(f, h[s \ {Max(s)}], c[Max(s)])
            Works(h, m) == h = [s \in Small(m) |-> Next1(h, s)]
            I == {m \in Nat : \E h : Works(h, m)}
<1>0. IsFiniteSet(1..n)
  BY FS_Interval
<1>1. \A s \in SUBSET (1..n) : IsFiniteSet(s) /\ Cardinality(s) \in Nat
  BY <1>0, FS_Subset, FS_CardinalityType
<1>2. 0 \in I
  <2>1. Small(0) = {{}}
    BY <1>1, FS_EmptySet
  <2>2. Works([s \in Small(0) |-> base], 0)
    BY <2>1
  <2>. QED
    BY <2>2
<1>3. ASSUME NEW m \in Nat, m \in I PROVE m + 1 \in I
  <2>1. PICK h : Works(h, m)
    BY <1>3
  <2>2. ASSUME NEW s \in Small(m + 1), s # {}
        PROVE  s \ {Max(s)} \in Small(m)
    <3>1. s \in SUBSET (1..n) /\ s \in SUBSET Nat /\ Cardinality(s) <= m + 1
      BY <2>2
    <3>2. IsFiniteSet(s)
      BY <1>1, <3>1
    <3>3. Max(s) \in s
      BY <2>2, <3>1, <3>2, MaxIsMember
    <3>4. Cardinality(s \ {Max(s)}) = Cardinality(s) - 1
      BY <3>2, <3>3, FS_RemoveElement
    <3>5. s \ {Max(s)} \in SUBSET (1..n) /\ Cardinality(s) \in Nat
      BY <1>1, <3>1
    <3>6. Cardinality(s \ {Max(s)}) <= m
      BY <3>1, <3>4, <3>5
    <3>. QED
      BY <3>5, <3>6
  <2>3. Small(m) \subseteq Small(m + 1)
    BY <1>1
  <2>. DEFINE g == [s \in Small(m + 1) |-> Next1(h, s)]
  <2>4. \A s \in Small(m) : g[s] = h[s]
    <3>. HIDE DEF Next1
    <3>. QED
      BY <2>1, <2>3
  <2>5. \A s \in Small(m + 1) : Next1(g, s) = Next1(h, s)
    <3>. HIDE DEF g, Small
    <3>. QED
      BY <2>2, <2>4
  <2>6. Works(g, m + 1)
    <3>. HIDE DEF Next1
    <3>. QED
      BY <2>5
  <2>7. m + 1 \in Nat
    OBVIOUS
  <2>. HIDE DEF Works
  <2>. QED
    BY <2>6, <2>7
<1>4. Nat \subseteq I
  <2>. HIDE DEF I
  <2>. QED
    BY <1>2, <1>3, NaturalsIn
<1>5. Cardinality(1..n) \in Nat
  BY <1>1
<1>6. PICK h : Works(h, Cardinality(1..n))
  BY <1>4, <1>5
<1>7. Small(Cardinality(1..n)) = SUBSET (1..n)
  BY <1>0, <1>1, FS_Subset
<1>8. h = [s \in SUBSET (1..n) |-> Next1(h, s)]
  <2>. HIDE DEF Small, Next1
  <2>. QED
    BY <1>6, <1>7
<1>. QED
  BY <1>8 DEF IsFold

(* What a fold has made of the first lines, line by line.                    *)
IsChain(g, f, base, c, n) ==
    g[0] = base /\ \A i \in 1..n : g[i] = Step(f, g[i - 1], c[i])

LEMMA FoldIsChain ==
    ASSUME NEW f, NEW base, NEW c, NEW n \in Nat, NEW it, IsFold(it, f, base, c, n)
    PROVE  \E g : IsChain(g, f, base, c, n) /\ g[n] = it[1..n]
<1>. DEFINE g == [i \in 0..n |-> it[1..i]]
<1>1. g[0] = base
  <2>1. 1..0 = {} /\ {} \in SUBSET (1..n)
    OBVIOUS
  <2>2. it[{}] = base
    BY <2>1 DEF IsFold
  <2>3. 0 \in 0..n
    OBVIOUS
  <2>. QED
    BY <2>1, <2>2, <2>3
<1>2. ASSUME NEW i \in 1..n PROVE g[i] = Step(f, g[i - 1], c[i])
  <2>1. i \in Nat /\ i # 0 /\ i \in 0..n /\ i - 1 \in 0..n
    OBVIOUS
  <2>2. 1..i \in SUBSET (1..n) /\ 1..i # {}
    OBVIOUS
  <2>3. Max(1..i) = i /\ (1..i) \ {i} = 1..(i - 1)
    BY <2>1, MaxOfInterval
  <2>4. it[1..i] = Step(f, it[(1..i) \ {Max(1..i)}], c[Max(1..i)])
    <3>. DEFINE s == 1..i
    <3>1. s \in SUBSET (1..n) /\ s # {}
      BY <2>2
    <3>. HIDE DEF s
    <3>2. it[s] = Step(f, it[s \ {Max(s)}], c[Max(s)])
      BY <3>1 DEF IsFold
    <3>. QED
      BY <3>2 DEF s
  <2>5. it[1..i] = Step(f, it[1..(i - 1)], c[i])
    BY <2>3, <2>4
  <2>. QED
    BY <2>1, <2>5
<1>3. g[n] = it[1..n]
  OBVIOUS
<1>. HIDE DEF g
<1>. QED
  BY <1>1, <1>2, <1>3 DEF IsChain

(* A fold of Conf is the end of its chain.                                   *)
LEMMA LineChain ==
    ASSUME NEW base, NEW c, ASeq(c)
    PROVE  \E g : /\ IsChain(g, "line", base, c, Len(c))
                  /\ FoldLeft(ParseLine, base, c) = g[Len(c)]
<1>. DEFINE n == Len(c)
            body(it) == [s \in SUBSET (1..n) |->
                IF s = {} THEN base ELSE ParseLine(it[s \ {Max(s)}], c[Max(s)])]
            iter == CHOOSE it : it = body(it)
<1>1. n \in Nat /\ DOMAIN c = 1..n
  BY DEF ASeq
<1>2. FoldLeft(ParseLine, base, c) = iter[1..n]
  BY <1>1 DEF FoldLeft, MapThenFoldSet
<1>. HIDE DEF n
<1>3. \A it : IsFold(it, "line", base, c, n) <=> it = body(it)
  BY DEF IsFold, Step
<1>4. \E it : it = body(it)
  BY <1>1, <1>3, FoldExists
<1>5. IsFold(iter, "line", base, c, n)
  <2>. HIDE DEF body
  <2>. QED
    BY <1>3, <1>4
<1>. HIDE DEF iter
<1>6. \E g : IsChain(g, "line", base, c, n) /\ g[n] = iter[1..n]
  BY <1>1, <1>5, FoldIsChain
<1>. QED
  BY <1>2, <1>6 DEF n

LEMMA BlockChain ==
    ASSUME NEW base, NEW c, ASeq(c)
    PROVE  \E g : /\ IsChain(g, "block", base, c, Len(c))
                  /\ FoldLeft(Materialize1, base, c) = g[Len(c)]
<1>. DEFINE n == Len(c)
            body(it) == [s \in SUBSET (1..n) |->
                IF s = {} THEN base ELSE Materialize1(it[s \ {Max(s)}], c[Max(s)])]
            iter == CHOOSE it : it = body(it)
<1>1. n \in Nat /\ DOMAIN c = 1..n
  BY DEF ASeq
<1>2. FoldLeft(Materialize1, base, c) = iter[1..n]
  BY <1>1 DEF FoldLeft, MapThenFoldSet
<1>. HIDE DEF n
<1>3. \A it : IsFold(it, "block", base, c, n) <=> it = body(it)
  BY DEF IsFold, Step
<1>4. \E it : it = body(it)
  BY <1>1, <1>3, FoldExists
<1>5. IsFold(iter, "block", base, c, n)
  <2>. HIDE DEF body
  <2>. QED
    BY <1>3, <1>4
<1>. HIDE DEF iter
<1>6. \E g : IsChain(g, "block", base, c, n) /\ g[n] = iter[1..n]
  BY <1>1, <1>5, FoldIsChain
<1>. QED
  BY <1>2, <1>6 DEF n

LEMMA ConsoleLineChain ==
    ASSUME NEW base, NEW c, ASeq(c)
    PROVE  \E g : /\ IsChain(g, "consoleLine", base, c, Len(c))
                  /\ FoldLeft(ConsoleLine, base, c) = g[Len(c)]
<1>. DEFINE n == Len(c)
            body(it) == [s \in SUBSET (1..n) |->
                IF s = {} THEN base ELSE ConsoleLine(it[s \ {Max(s)}], c[Max(s)])]
            iter == CHOOSE it : it = body(it)
<1>1. n \in Nat /\ DOMAIN c = 1..n
  BY DEF ASeq
<1>2. FoldLeft(ConsoleLine, base, c) = iter[1..n]
  BY <1>1 DEF FoldLeft, MapThenFoldSet
<1>. HIDE DEF n
<1>3. \A it : IsFold(it, "consoleLine", base, c, n) <=> it = body(it)
  BY DEF IsFold, Step
<1>4. \E it : it = body(it)
  BY <1>1, <1>3, FoldExists
<1>5. IsFold(iter, "consoleLine", base, c, n)
  <2>. HIDE DEF body
  <2>. QED
    BY <1>3, <1>4
<1>. HIDE DEF iter
<1>6. \E g : IsChain(g, "consoleLine", base, c, n) /\ g[n] = iter[1..n]
  BY <1>1, <1>5, FoldIsChain
<1>. QED
  BY <1>2, <1>6 DEF n

LEMMA ConsoleBlockChain ==
    ASSUME NEW base, NEW c, ASeq(c)
    PROVE  \E g : /\ IsChain(g, "consoleBlock", base, c, Len(c))
                  /\ FoldLeft(ConsoleBlock, base, c) = g[Len(c)]
<1>. DEFINE n == Len(c)
            body(it) == [s \in SUBSET (1..n) |->
                IF s = {} THEN base ELSE ConsoleBlock(it[s \ {Max(s)}], c[Max(s)])]
            iter == CHOOSE it : it = body(it)
<1>1. n \in Nat /\ DOMAIN c = 1..n
  BY DEF ASeq
<1>2. FoldLeft(ConsoleBlock, base, c) = iter[1..n]
  BY <1>1 DEF FoldLeft, MapThenFoldSet
<1>. HIDE DEF n
<1>3. \A it : IsFold(it, "consoleBlock", base, c, n) <=> it = body(it)
  BY DEF IsFold, Step
<1>4. \E it : it = body(it)
  BY <1>1, <1>3, FoldExists
<1>5. IsFold(iter, "consoleBlock", base, c, n)
  <2>. HIDE DEF body
  <2>. QED
    BY <1>3, <1>4
<1>. HIDE DEF iter
<1>6. \E g : IsChain(g, "consoleBlock", base, c, n) /\ g[n] = iter[1..n]
  BY <1>1, <1>5, FoldIsChain
<1>. QED
  BY <1>2, <1>6 DEF n

LEMMA CommandChain ==
    ASSUME NEW base, NEW c, ASeq(c)
    PROVE  \E g : /\ IsChain(g, "tc", base, c, Len(c))
                  /\ FoldLeft(Exec, base, c) = g[Len(c)]
<1>. DEFINE n == Len(c)
            body(it) == [s \in SUBSET (1..n) |->
                IF s = {} THEN base ELSE Exec(it[s \ {Max(s)}], c[Max(s)])]
            iter == CHOOSE it : it = body(it)
<1>1. n \in Nat /\ DOMAIN c = 1..n
  BY DEF ASeq
<1>2. FoldLeft(Exec, base, c) = iter[1..n]
  BY <1>1 DEF FoldLeft, MapThenFoldSet
<1>. HIDE DEF n
<1>3. \A it : IsFold(it, "tc", base, c, n) <=> it = body(it)
  BY DEF IsFold, Step
<1>4. \E it : it = body(it)
  BY <1>1, <1>3, FoldExists
<1>5. IsFold(iter, "tc", base, c, n)
  <2>. HIDE DEF body
  <2>. QED
    BY <1>3, <1>4
<1>. HIDE DEF iter
<1>6. \E g : IsChain(g, "tc", base, c, n) /\ g[n] = iter[1..n]
  BY <1>1, <1>5, FoldIsChain
<1>. QED
  BY <1>2, <1>6 DEF n

------------------------------------------------------------------------------
(* Sequences of directives                                                   *)

LEMMA MaxIs ==
    ASSUME NEW S \in SUBSET Nat, NEW m \in S, \A x \in S : m >= x
    PROVE  Max(S) = m
<1>1. \A x \in S : (\A y \in S : x >= y) => x = m
  BY SMT
<1>. QED
  BY <1>1 DEF Max

LEMMA FunctionIsSeq ==
    ASSUME NEW s, ASeq(s), NEW f, f = [i \in DOMAIN s |-> f[i]]
    PROVE  ASeq(f) /\ DOMAIN f = DOMAIN s
<1>1. PICK S : s \in Seq(S)
  BY DEF ASeq
<1>. DEFINE T == {f[i] : i \in DOMAIN s}
<1>2. DOMAIN s = 1..Len(s) /\ Len(s) \in Nat
  BY <1>1
<1>3. f \in [1..Len(s) -> T]
  BY <1>2
<1>4. f \in Seq(T)
  <2>. HIDE DEF T
  <2>. QED
    BY <1>2, <1>3
<1>. QED
  BY <1>2, <1>3, <1>4 DEF ASeq

LEMMA Joined ==
    ASSUME NEW s, NEW t, ASeq(s), ASeq(t)
    PROVE  /\ ASeq(s \o t)
           /\ Len(s) \in Nat /\ Len(t) \in Nat
           /\ DOMAIN s = 1..Len(s) /\ DOMAIN t = 1..Len(t)
           /\ DOMAIN (s \o t) = 1..(Len(s) + Len(t))
           /\ \A i \in 1..Len(s) : (s \o t)[i] = s[i]
           /\ \A i \in 1..Len(t) : (s \o t)[Len(s) + i] = t[i]
           /\ \A i \in DOMAIN (s \o t) :
                 i \in 1..Len(s) \/ \E j \in 1..Len(t) : i = Len(s) + j
<1>1. PICK S, T : s \in Seq(S) /\ t \in Seq(T)
  BY DEF ASeq
<1>2. s \in Seq(S \cup T) /\ t \in Seq(S \cup T)
  BY <1>1
<1>3. s \o t \in Seq(S \cup T)
  BY <1>2
<1>4. /\ Len(s) \in Nat /\ Len(t) \in Nat
      /\ DOMAIN s = 1..Len(s) /\ DOMAIN t = 1..Len(t)
      /\ DOMAIN (s \o t) = 1..(Len(s) + Len(t))
  BY <1>2, <1>3
<1>5. \A i \in 1..Len(s) : (s \o t)[i] = s[i]
  BY <1>2
<1>6. \A i \in 1..Len(t) : (s \o t)[Len(s) + i] = t[i]
  BY <1>2
<1>7. ASSUME NEW i \in 1..(Len(s) + Len(t)), i \notin 1..Len(s)
      PROVE  \E j \in 1..Len(t) : i = Len(s) + j
  <2>1. i - Len(s) \in 1..Len(t) /\ i = Len(s) + (i - Len(s))
    BY <1>4, <1>7
  <2>. QED
    BY <2>1
<1>. QED
  BY <1>3, <1>4, <1>5, <1>6, <1>7 DEF ASeq

LEMMA KeywordsJoined ==
    ASSUME NEW s, NEW t, ASeq(s), ASeq(t)
    PROVE  ASeq(s \o t) /\ Keywords(s \o t) = Keywords(s) \cup Keywords(t)
<1>1. Keywords(s \o t) \subseteq Keywords(s) \cup Keywords(t)
  <2>. SUFFICES ASSUME NEW i \in DOMAIN (s \o t)
                PROVE  (s \o t)[i].k \in Keywords(s) \cup Keywords(t)
    BY DEF Keywords
  <2>1. CASE i \in 1..Len(s)
    BY <2>1, Joined DEF Keywords
  <2>2. CASE \E j \in 1..Len(t) : i = Len(s) + j
    BY <2>2, Joined DEF Keywords
  <2>. QED
    BY <2>1, <2>2, Joined
<1>2. Keywords(s) \subseteq Keywords(s \o t)
  <2>. SUFFICES ASSUME NEW i \in DOMAIN s PROVE s[i].k \in Keywords(s \o t)
    BY DEF Keywords
  <2>1. i \in DOMAIN (s \o t) /\ (s \o t)[i] = s[i]
    BY Joined
  <2>. QED
    BY <2>1 DEF Keywords
<1>3. Keywords(t) \subseteq Keywords(s \o t)
  <2>. SUFFICES ASSUME NEW i \in DOMAIN t PROVE t[i].k \in Keywords(s \o t)
    BY DEF Keywords
  <2>1. Len(s) + i \in DOMAIN (s \o t) /\ (s \o t)[Len(s) + i] = t[i]
    BY Joined
  <2>. QED
    BY <2>1 DEF Keywords
<1>. QED
  BY <1>1, <1>2, <1>3, Joined

LEMMA KeywordsAppended ==
    ASSUME NEW s, NEW d, ASeq(s)
    PROVE  ASeq(Append(s, d)) /\ Keywords(Append(s, d)) = Keywords(s) \cup {d.k}
<1>1. PICK S : s \in Seq(S)
  BY DEF ASeq
<1>2. s \in Seq(S \cup {d})
  BY <1>1
<1>3. Append(s, d) \in Seq(S \cup {d})
  BY <1>2
<1>4. /\ Len(s) \in Nat /\ DOMAIN s = 1..Len(s)
      /\ DOMAIN Append(s, d) = 1..(Len(s) + 1)
      /\ \A i \in 1..Len(s) : Append(s, d)[i] = s[i]
      /\ Append(s, d)[Len(s) + 1] = d
  BY <1>2
<1>5. 1..(Len(s) + 1) = 1..Len(s) \cup {Len(s) + 1}
  BY <1>4
<1>6. Keywords(Append(s, d)) = Keywords(s) \cup {d.k}
  <2>. DEFINE a == Append(s, d)
  <2>1. DOMAIN a = DOMAIN s \cup {Len(s) + 1} /\ a[Len(s) + 1] = d /\ \A i \in DOMAIN s : a[i] = s[i]
    BY <1>4, <1>5
  <2>. HIDE DEF a
  <2>2. Keywords(a) = Keywords(s) \cup {d.k}
    BY <2>1 DEF Keywords
  <2>. QED
    BY <2>2 DEF a
<1>. QED
  BY <1>3, <1>6 DEF ASeq

(* The last line that sets a value counts.                                   *)
LEMMA ValueOfLater ==
    ASSUME NEW s, NEW t, ASeq(s), ASeq(t), NEW k \in Keywords(t)
    PROVE  Value(s \o t, k) = Value(t, k)
<1>. DEFINE L == Lines(t, k)
            A == Lines(s \o t, k)
            m == Max(L)
<1>1. L \in SUBSET Nat /\ IsFiniteSet(L) /\ L # {} /\ L \subseteq 1..Len(t)
  <2>1. L \subseteq 1..Len(t) /\ L # {} /\ Len(t) \in Nat
    BY Joined DEF Lines, Keywords
  <2>2. IsFiniteSet(1..Len(t))
    BY <2>1, FS_Interval
  <2>3. IsFiniteSet(L)
    BY <2>1, <2>2, FS_Subset
  <2>. QED
    BY <2>1, <2>3
<1>2. m \in L /\ \A x \in L : m >= x
  <2>1. m \in L
    BY <1>1, MaxIsMember
  <2>2. \E x \in L : \A y \in L : x >= y
    BY <1>1, GreatestExists DEF IsGreatest
  <2>. QED
    BY <2>2 DEF Max
<1>3. Len(s) + m \in A /\ A \in SUBSET Nat
  BY <1>1, <1>2, Joined DEF Lines
<1>4. \A x \in A : Len(s) + m >= x
  <2>. SUFFICES ASSUME NEW x \in A PROVE Len(s) + m >= x
    OBVIOUS
  <2>1. CASE x \in 1..Len(s)
    <3>1. m \in Nat /\ Len(s) \in Nat /\ x <= Len(s)
      BY <1>1, <1>2, <2>1, Joined
    <3>. HIDE DEF m
    <3>. QED
      BY <3>1, <2>1
  <2>2. CASE \E j \in 1..Len(t) : x = Len(s) + j
    <3>1. PICK j \in 1..Len(t) : x = Len(s) + j
      BY <2>2
    <3>2. (s \o t)[x] = t[j] /\ (s \o t)[x].k = k
      BY <3>1, Joined DEF Lines
    <3>3. j \in L
      BY <3>2, Joined DEF Lines
    <3>4. m >= j /\ m \in Nat /\ j \in Nat /\ Len(s) \in Nat
      BY <1>1, <1>2, <3>3, Joined
    <3>. QED
      BY <3>1, <3>4
  <2>3. x \in DOMAIN (s \o t)
    BY DEF Lines
  <2>. QED
    BY <2>1, <2>2, <2>3, Joined
<1>5. (s \o t)[Len(s) + m] = t[m]
  BY <1>1, <1>2, Joined
<1>. HIDE DEF A, L, m
<1>6. Max(A) = Len(s) + m
  BY <1>3, <1>4, MaxIs
<1>. QED
  BY <1>1, <1>3, <1>5, <1>6 DEF Value, A, L, m

LEMMA ValueOfEarlier ==
    ASSUME NEW s, NEW t, ASeq(s), ASeq(t), NEW k, k \notin Keywords(t)
    PROVE  Value(s \o t, k) = Value(s, k)
<1>1. Lines(s \o t, k) = Lines(s, k)
  <2>1. ASSUME NEW x \in Lines(s \o t, k) PROVE x \in Lines(s, k)
    <3>1. x \in DOMAIN (s \o t) /\ (s \o t)[x].k = k
      BY DEF Lines
    <3>2. \A j \in 1..Len(t) : x # Len(s) + j
      BY <3>1, Joined DEF Keywords
    <3>3. x \in 1..Len(s)
      BY <3>1, <3>2, Joined
    <3>. QED
      BY <3>1, <3>3, Joined DEF Lines
  <2>2. ASSUME NEW x \in Lines(s, k) PROVE x \in Lines(s \o t, k)
    <3>1. x \in DOMAIN s /\ s[x].k = k
      BY DEF Lines
    <3>2. x \in DOMAIN (s \o t) /\ (s \o t)[x] = s[x]
      BY <3>1, Joined
    <3>. QED
      BY <3>1, <3>2 DEF Lines
  <2>. QED
    BY <2>1, <2>2
<1>2. CASE Lines(s, k) = {}
  BY <1>1, <1>2 DEF Value
<1>3. CASE Lines(s, k) # {}
  <2>. DEFINE L == Lines(s, k)
  <2>1. L \subseteq 1..Len(s) /\ L # {} /\ Len(s) \in Nat
    BY <1>3, Joined DEF Lines, Keywords
  <2>2. IsFiniteSet(1..Len(s))
    BY <2>1, FS_Interval
  <2>3. IsFiniteSet(L) /\ L \in SUBSET Nat
    BY <2>1, <2>2, FS_Subset
  <2>4. Max(L) \in L
    <3>. HIDE DEF L
    <3>. QED
      BY <2>1, <2>3, MaxIsMember
  <2>5. (s \o t)[Max(L)] = s[Max(L)]
    BY <2>1, <2>4, Joined
  <2>. QED
    BY <1>1, <1>3, <2>5 DEF Value
<1>. QED
  BY <1>2, <1>3

LEMMA EmptyIsSeq == ASeq(<<>>)
BY <<>> \in Seq({}) DEF ASeq

LEMMA EmptyHasNone == Keywords(<<>>) = {}
<1>1. DOMAIN <<>> = {}
  <2>1. \A q \in Seq({}) : DOMAIN q = 1..Len(q)
    OBVIOUS
  <2>2. 1..0 = {}
    OBVIOUS
  <2>. QED
    BY <<>> \in Seq({}), Len(<<>>) = 0, <2>1, <2>2
<1>2. \A s : DOMAIN s = {} => Keywords(s) = {}
  BY DEF Keywords
<1>. QED
  BY <1>1, <1>2

LEMMA OneLine ==
    ASSUME NEW d
    PROVE  ASeq(<<d>>) /\ Keywords(<<d>>) = {d.k} /\ Value(<<d>>, d.k) = d.v
<1>1. <<d>> \in Seq({d}) /\ DOMAIN <<d>> = {1} /\ <<d>>[1] = d
  <2>1. DOMAIN <<d>> = 1..1
    OBVIOUS
  <2>2. 1..1 = {1}
    OBVIOUS
  <2>. QED
    BY <2>1, <2>2
<1>. DEFINE s == <<d>>
<1>2. DOMAIN s = {1} /\ s[1] = d /\ ASeq(s)
  BY <1>1 DEF ASeq
<1>. HIDE DEF s
<1>3. Keywords(s) = {d.k}
  BY <1>2 DEF Keywords
<1>4. Lines(s, d.k) = {1}
  BY <1>2 DEF Lines
<1>5. Max({1}) = 1
  BY MaxIs
<1>6. Value(s, d.k) = d.v
  BY <1>2, <1>4, <1>5 DEF Value
<1>. QED
  BY <1>2, <1>3, <1>6 DEF s

LEMMA ArgFacts ==
    ASSUME NEW k, NEW v
    PROVE  /\ ASeq(Arg(k, v)) /\ Keywords(Arg(k, v)) \subseteq {k}
           /\ v # Unset => Keywords(Arg(k, v)) = {k} /\ Value(Arg(k, v), k) = <<v>>
<1>1. CASE v = Unset
  BY <1>1, EmptyIsSeq, EmptyHasNone DEF Arg
<1>2. CASE v # Unset
  <2>. DEFINE d == D(k, <<v>>)
  <2>1. d.k = k /\ d.v = <<v>> /\ Arg(k, v) = <<d>>
    BY <1>2 DEF D, Arg
  <2>. HIDE DEF d
  <2>2. ASeq(<<d>>) /\ Keywords(<<d>>) = {d.k} /\ Value(<<d>>, d.k) = d.v
    BY OneLine
  <2>. QED
    BY <2>1, <2>2
<1>. QED
  BY <1>1, <1>2

LEMMA FlagFacts ==
    ASSUME NEW k
    PROVE  ASeq(Flag(k)) /\ Keywords(Flag(k)) = {k}
<1>. DEFINE d == D(k, <<>>)
<1>1. d.k = k /\ Flag(k) = <<d>>
  BY DEF D, Flag
<1>. HIDE DEF d
<1>. QED
  BY <1>1, OneLine

LEMMA FoldedArgsFacts ==
    ASSUME NEW f
    PROVE  ASeq(FoldedArgs(f)) /\ Keywords(FoldedArgs(f)) \subseteq Folded
<1>. DEFINE a1 == Number("max-clients", f["max-clients"])
            a2 == Arg("tls-version-min", f["tls-version-min"])
            a3 == Number("tun-mtu", f["tun-mtu"])
            a4 == Number("sndbuf", f["sndbuf"])
            a5 == Number("rcvbuf", f["rcvbuf"])
            a6 == Arg("server-ipv6", f["server-ipv6"])
            All == {a1, a2, a3, a4, a5, a6}
<1>1. \A a \in All : ASeq(a) /\ Keywords(a) \subseteq Folded
  BY ArgFacts DEF Folded, Number
<1>2. FoldedArgs(f) = ((((a1 \o a2) \o a3) \o a4) \o a5) \o a6
  BY DEF FoldedArgs
<1>3. /\ ASeq(a1) /\ ASeq(a2) /\ ASeq(a3) /\ ASeq(a4) /\ ASeq(a5) /\ ASeq(a6)
      /\ Keywords(a1) \subseteq Folded /\ Keywords(a2) \subseteq Folded
      /\ Keywords(a3) \subseteq Folded /\ Keywords(a4) \subseteq Folded
      /\ Keywords(a5) \subseteq Folded /\ Keywords(a6) \subseteq Folded
  BY <1>1
<1>. HIDE DEF a1, a2, a3, a4, a5, a6
<1>. DEFINE b2 == a1 \o a2
            b3 == b2 \o a3
            b4 == b3 \o a4
            b5 == b4 \o a5
            b6 == b5 \o a6
<1>4. ASeq(b2) /\ Keywords(b2) \subseteq Folded
  BY <1>3, KeywordsJoined
<1>. HIDE DEF b2
<1>5. ASeq(b3) /\ Keywords(b3) \subseteq Folded
  BY <1>3, <1>4, KeywordsJoined
<1>. HIDE DEF b3
<1>6. ASeq(b4) /\ Keywords(b4) \subseteq Folded
  BY <1>3, <1>5, KeywordsJoined
<1>. HIDE DEF b4
<1>7. ASeq(b5) /\ Keywords(b5) \subseteq Folded
  BY <1>3, <1>6, KeywordsJoined
<1>. HIDE DEF b5
<1>8. ASeq(b6) /\ Keywords(b6) \subseteq Folded
  BY <1>3, <1>7, KeywordsJoined
<1>. QED
  BY <1>2, <1>8 DEF b2, b3, b4, b5, b6

------------------------------------------------------------------------------
(* What an import makes of lines, whatever they are                          *)

ResultFields ==
    {"role", "col", "static", "fold", "network", "remotes", "routes", "dns", "domain",
     "redirect", "plugins", "pushed", "extra", "inline"}

Roles == {Unset, "client", "server"}

(* Keywords the import has another place for than the extra directives.      *)
Taken == Ignored \cup Transport

ResultShape(r) ==
    /\ DOMAIN r = ResultFields
    /\ r.role \in Roles
    /\ ASeq(r.extra) /\ ASeq(r.pushed) /\ ASeq(r.plugins) /\ ASeq(r.inline)
    /\ ASeq(r.remotes) /\ ASeq(r.routes) /\ ASeq(r.dns)
    /\ Keywords(r.extra) \cap Taken = {}
    /\ DOMAIN r.col = Columns
    /\ Keywords(r.pushed) \subseteq {"push"}
    /\ Keywords(r.plugins) \subseteq {"plugin"}

LEMMA NoResultShape == ResultShape(NoResult)
<1>1. DOMAIN NoResult = ResultFields
  BY DEF NoResult, ResultFields
<1>4. DOMAIN NoResult.col = Columns
  BY DEF NoResult
<1>2. /\ NoResult.role = Unset /\ NoResult.extra = <<>> /\ NoResult.pushed = <<>>
      /\ NoResult.plugins = <<>> /\ NoResult.inline = <<>> /\ NoResult.remotes = <<>>
      /\ NoResult.routes = <<>> /\ NoResult.dns = <<>>
  BY DEF NoResult
<1>. HIDE DEF NoResult
<1>3. /\ ASeq(NoResult.extra) /\ Keywords(NoResult.extra) = {}
      /\ ASeq(NoResult.pushed) /\ Keywords(NoResult.pushed) = {}
      /\ ASeq(NoResult.plugins) /\ Keywords(NoResult.plugins) = {}
      /\ ASeq(NoResult.inline) /\ ASeq(NoResult.remotes)
      /\ ASeq(NoResult.routes) /\ ASeq(NoResult.dns)
  BY EmptyIsSeq, EmptyHasNone, <1>2
<1>. QED
  BY <1>1, <1>2, <1>3, <1>4 DEF ResultShape, Roles

LEMMA ParsePushShape ==
    ASSUME NEW r, ResultShape(r), NEW v
    PROVE  ResultShape(ParsePush(r, v))
<1>1. CASE v[1] = "redirect-gateway"
  BY <1>1 DEF ParsePush, ResultShape, ResultFields
<1>2. CASE v[1] = "DNS"
  <2>1. ASeq(Append(r.dns, v[2]))
    BY KeywordsAppended DEF ResultShape
  <2>. QED
    BY <1>2, <2>1 DEF ParsePush, ResultShape, ResultFields
<1>3. CASE v[1] \in {"DOMAIN", "DOMAIN-SEARCH"}
  BY <1>3 DEF ParsePush, ResultShape, ResultFields
<1>4. CASE v[1] = "route"
  <2>1. ASeq(Append(r.routes, v[2]))
    BY KeywordsAppended DEF ResultShape
  <2>. QED
    BY <1>4, <2>1 DEF ParsePush, ResultShape, ResultFields
<1>5. CASE v[1] \notin {"redirect-gateway", "DNS", "DOMAIN", "DOMAIN-SEARCH", "route"}
  <2>1. ASeq(Append(r.pushed, D("push", v)))
        /\ Keywords(Append(r.pushed, D("push", v))) = Keywords(r.pushed) \cup {"push"}
    BY KeywordsAppended DEF ResultShape, D
  <2>. QED
    BY <1>5, <2>1 DEF ParsePush, ResultShape, ResultFields
<1>. QED
  BY <1>1, <1>2, <1>3, <1>4, <1>5

LEMMA ParseRoleShape ==
    ASSUME NEW r, ResultShape(r), NEW d,
           d.k \in {"client", "server", "mode", "tls-server", "tls-client"}
    PROVE  ResultShape(ParseRole(r, d))
BY DEF ParseRole, ResultShape, ResultFields, Roles

LEMMA ParseLineShape ==
    ASSUME NEW r, ResultShape(r), NEW d
    PROVE  ResultShape(ParseLine(r, d))
<1>. DEFINE RoleKeys == {"client", "server", "mode", "tls-server", "tls-client"}
<1>2. ASSUME NEW e PROVE ResultShape(ParseValue(r, e))
  BY DEF ParseValue, ResultShape, ResultFields
<1>3. ASSUME NEW v PROVE ResultShape(ParseDev(r, v))
  BY DEF ParseDev, ResultShape, ResultFields
<1>4. ASSUME NEW v PROVE ResultShape(ParseRemote(r, v))
  <2>1. \A x : ASeq(Append(r.remotes, x))
    BY KeywordsAppended DEF ResultShape
  <2>. QED
    BY <2>1 DEF ParseRemote, ResultShape, ResultFields
<1>5. ResultShape(ParseBlock(r, d))
  <2>1. ASeq(Append(r.inline, d))
    BY KeywordsAppended DEF ResultShape
  <2>. QED
    BY <2>1 DEF ParseBlock, ResultShape, ResultFields
<1>6. d.k \in RoleKeys => ResultShape(ParseRole(r, d))
  BY ParseRoleShape
<1>7. \A v : ResultShape(ParsePush(r, v))
  BY ParsePushShape
<1>8. ResultShape([r EXCEPT !.col["tls-auth"] = d.v[1], !.static = TRUE])
  BY DEF ResultShape, ResultFields
<1>9. d.k = "plugin" => ResultShape([r EXCEPT !.plugins = Append(@, d)])
  <2>1. ASeq(Append(r.plugins, d)) /\ Keywords(Append(r.plugins, d)) = Keywords(r.plugins) \cup {d.k}
    BY KeywordsAppended DEF ResultShape
  <2>. QED
    BY <2>1 DEF ResultShape, ResultFields
<1>10. d.k \notin Taken => ResultShape([r EXCEPT !.extra = Append(@, d)])
  <2>1. ASeq(Append(r.extra, d)) /\ Keywords(Append(r.extra, d)) = Keywords(r.extra) \cup {d.k}
    BY KeywordsAppended DEF ResultShape
  <2>. HIDE DEF Taken
  <2>. QED
    BY <2>1 DEF ResultShape, ResultFields
<1>11. d.k \notin Taken =>
         ResultShape([r EXCEPT !.redirect = TRUE, !.extra = IF d.v = <<>> THEN @ ELSE Append(@, d)])
  <2>1. ASeq(Append(r.extra, d)) /\ Keywords(Append(r.extra, d)) = Keywords(r.extra) \cup {d.k}
    BY KeywordsAppended DEF ResultShape
  <2>. HIDE DEF Taken
  <2>. QED
    BY <2>1 DEF ResultShape, ResultFields
<1>. HIDE DEF RoleKeys
<1>. DEFINE Line == ParseLine(r, d)
            Known == Ignored \cup RoleKeys \cup Columns \cup Folded
                     \cup {"<>", "lport", "dev", "secret", "remote", "push", "plugin",
                           "redirect-gateway"}
<1>13. CASE d.k \in Ignored
  <2>1. Line = r
    BY <1>13 DEF ParseLine, Ignored, RoleKeys, Columns, Folded
  <2>. QED
    BY <2>1
<1>14. CASE d.k = "<>"
  <2>1. Line = ParseBlock(r, d)
    BY <1>14 DEF ParseLine, Ignored, RoleKeys, Columns, Folded
  <2>. QED
    BY <1>5, <2>1
<1>15. CASE d.k \in RoleKeys
  <2>1. Line = ParseRole(r, d)
    BY <1>15 DEF ParseLine, Ignored, RoleKeys, Columns, Folded
  <2>. QED
    BY <1>6, <1>15, <2>1
<1>16. CASE d.k = "lport"
  <2>1. Line = ParseValue(r, D("port", d.v))
    BY <1>16 DEF ParseLine, Ignored, RoleKeys, Columns, Folded
  <2>. QED
    BY <1>2, <2>1
<1>17. CASE d.k \in (Columns \ {"device"}) \cup Folded
  <2>1. Line = IF d.k = "dh" /\ d.v[1] = "none" THEN r ELSE ParseValue(r, d)
    BY <1>17 DEF ParseLine, Ignored, RoleKeys, Columns, Folded
  <2>. HIDE DEF Line
  <2>. QED
    BY <1>2, <2>1 DEF Line
<1>18. CASE d.k = "dev"
  <2>1. Line = ParseDev(r, d.v)
    BY <1>18 DEF ParseLine, Ignored, RoleKeys, Columns, Folded
  <2>. QED
    BY <1>3, <2>1
<1>19. CASE d.k = "secret"
  <2>1. Line = [r EXCEPT !.col["tls-auth"] = d.v[1], !.static = TRUE]
    BY <1>19 DEF ParseLine, Ignored, RoleKeys, Columns, Folded
  <2>. QED
    BY <1>8, <2>1
<1>20. CASE d.k = "remote"
  <2>1. Line = ParseRemote(r, d.v)
    BY <1>20 DEF ParseLine, Ignored, RoleKeys, Columns, Folded
  <2>. QED
    BY <1>4, <2>1
<1>21. CASE d.k = "push"
  <2>1. Line = ParsePush(r, d.v)
    BY <1>21 DEF ParseLine, Ignored, RoleKeys, Columns, Folded
  <2>. QED
    BY <1>7, <2>1
<1>22. CASE d.k = "plugin"
  <2>1. Line = [r EXCEPT !.plugins = Append(@, d)]
    BY <1>22 DEF ParseLine, Ignored, RoleKeys, Columns, Folded
  <2>. QED
    BY <1>9, <1>22, <2>1
<1>23. CASE d.k = "redirect-gateway"
  <2>1. d.k \notin Taken
    BY <1>23 DEF Taken, Ignored, Transport
  <2>2. Line = [r EXCEPT !.redirect = TRUE,
                         !.extra = IF d.v = <<>> THEN @ ELSE Append(@, d)]
    BY <1>23 DEF ParseLine, Ignored, RoleKeys, Columns, Folded
  <2>. QED
    BY <1>11, <2>1, <2>2
<1>24. CASE d.k \notin Known \ {"device"}
  <2>1. Line = [r EXCEPT !.extra = Append(@, d)]
    BY <1>24 DEF ParseLine, Ignored, RoleKeys, Columns, Folded
  <2>2. d.k \notin Taken
    BY <1>24 DEF Taken, Transport, Columns, Ignored
  <2>. QED
    BY <1>10, <2>1, <2>2
<1>. HIDE DEF Line, RoleKeys
<1>. QED
  BY <1>13, <1>14, <1>15, <1>16, <1>17, <1>18, <1>19, <1>20, <1>21, <1>22, <1>23, <1>24
     DEF Line

LEMMA ParseShape ==
    ASSUME NEW c, ASeq(c)
    PROVE  ResultShape(Parse(c))
<1>. DEFINE n == Len(c)
            r == FoldLeft(ParseLine, NoResult, c)
<1>1. n \in Nat
  BY Joined
<1>2. PICK g : IsChain(g, "line", NoResult, c, n) /\ r = g[n]
  BY LineChain
<1>. DEFINE I == {i \in Nat : i <= n => ResultShape(g[i])}
<1>3. 0 \in I
  BY <1>2, NoResultShape DEF IsChain
<1>4. ASSUME NEW i \in Nat, i \in I PROVE i + 1 \in I
  <2>. SUFFICES ASSUME i + 1 <= n PROVE ResultShape(g[i + 1])
    OBVIOUS
  <2>. HIDE DEF n
  <2>1. i + 1 \in 1..n /\ (i + 1) - 1 = i /\ i <= n
    BY <1>1
  <2>2. g[i + 1] = ParseLine(g[i], c[i + 1])
    BY <1>2, <2>1 DEF IsChain, Step
  <2>3. ResultShape(g[i])
    BY <1>4, <2>1
  <2>. QED
    BY <2>2, <2>3, ParseLineShape
<1>5. Nat \subseteq I
  <2>. HIDE DEF I
  <2>. QED
    BY <1>3, <1>4, NaturalsIn
<1>6. ResultShape(r)
  BY <1>1, <1>2, <1>5
<1>7. Parse(c) = [r EXCEPT !.role = InferredRole(r), !.extra = r.pushed \o r.extra]
  BY DEF Parse
<1>. HIDE DEF r
<1>8. InferredRole(r) \in Roles
  BY <1>6 DEF InferredRole, ResultShape, Roles
<1>9. ASeq(r.pushed \o r.extra) /\ Keywords(r.pushed \o r.extra) \cap Taken = {}
  <2>1. ASeq(r.pushed \o r.extra)
        /\ Keywords(r.pushed \o r.extra) = Keywords(r.pushed) \cup Keywords(r.extra)
    BY <1>6, KeywordsJoined DEF ResultShape
  <2>2. "push" \notin Taken
    BY DEF Taken, Ignored, Transport
  <2>. HIDE DEF Taken
  <2>. QED
    BY <1>6, <2>1, <2>2 DEF ResultShape
<1>. QED
  BY <1>6, <1>7, <1>8, <1>9 DEF ResultShape, ResultFields

LEMMA Materialize1Shape ==
    ASSUME NEW r, ResultShape(r), NEW b
    PROVE  ResultShape(Materialize1(r, b))
<1>. DEFINE tag == b.v[1]
            body == b.v[2]
<1>1. CASE tag = "secret"
  <2>1. Materialize1(r, b) = [r EXCEPT !.col["tls-auth"] = body, !.static = TRUE]
    BY <1>1 DEF Materialize1
  <2>. QED
    BY <2>1 DEF ResultShape, ResultFields
<1>2. CASE tag \in {"extra-certs", "tls-crypt-v2"}
  <2>1. Materialize1(r, b) = [r EXCEPT !.extra = Append(@, D(tag, <<body>>))]
    BY <1>2 DEF Materialize1
  <2>2. ASeq(Append(r.extra, D(tag, <<body>>)))
        /\ Keywords(Append(r.extra, D(tag, <<body>>))) = Keywords(r.extra) \cup {tag}
    BY KeywordsAppended DEF ResultShape, D
  <2>3. tag \notin Taken
    BY <1>2 DEF Taken, Ignored, Transport
  <2>. HIDE DEF Taken
  <2>. QED
    BY <2>1, <2>2, <2>3 DEF ResultShape, ResultFields
<1>3. CASE tag \notin {"secret", "extra-certs", "tls-crypt-v2"}
  <2>1. Materialize1(r, b) = [r EXCEPT !.col[tag] = body]
    BY <1>3 DEF Materialize1
  <2>. QED
    BY <2>1 DEF ResultShape, ResultFields
<1>. QED
  BY <1>1, <1>2, <1>3

LEMMA MaterializeShape ==
    ASSUME NEW r, ResultShape(r)
    PROVE  ResultShape(Materialize(r))
<1>. DEFINE c == r.inline
            n == Len(c)
            m == FoldLeft(Materialize1, r, c)
<1>1. ASeq(c) /\ n \in Nat
  BY Joined DEF ResultShape
<1>2. PICK g : IsChain(g, "block", r, c, n) /\ m = g[n]
  BY <1>1, BlockChain
<1>. DEFINE I == {i \in Nat : i <= n => ResultShape(g[i])}
<1>3. 0 \in I
  BY <1>2 DEF IsChain
<1>4. ASSUME NEW i \in Nat, i \in I PROVE i + 1 \in I
  <2>. SUFFICES ASSUME i + 1 <= n PROVE ResultShape(g[i + 1])
    OBVIOUS
  <2>. HIDE DEF n
  <2>1. i + 1 \in 1..n /\ (i + 1) - 1 = i /\ i <= n
    BY <1>1
  <2>2. g[i + 1] = Materialize1(g[i], c[i + 1])
    BY <1>2, <2>1 DEF IsChain, Step
  <2>3. ResultShape(g[i])
    BY <1>4, <2>1
  <2>. QED
    BY <2>2, <2>3, Materialize1Shape
<1>5. Nat \subseteq I
  <2>. HIDE DEF I
  <2>. QED
    BY <1>3, <1>4, NaturalsIn
<1>6. ResultShape(m)
  BY <1>1, <1>2, <1>5
<1>7. Materialize(r) = [m EXCEPT !.inline = <<>>]
  BY DEF Materialize
<1>. HIDE DEF m
<1>. QED
  BY <1>6, <1>7, EmptyIsSeq DEF ResultShape, ResultFields

LEMMA ImportedShape ==
    ASSUME NEW c, ASeq(c)
    PROVE  ResultShape(Imported(c))
<1>. DEFINE r == Materialize(Parse(c))
            x == r.extra \o FoldedArgs(r.fold)
<1>1. ResultShape(r)
  BY ParseShape, MaterializeShape
<1>2. Imported(c) = [r EXCEPT !.extra = x, !.fold = NoResult.fold]
  BY DEF Imported, ToCreateRequest
<1>. HIDE DEF r
<1>3. ASeq(x) /\ Keywords(x) = Keywords(r.extra) \cup Keywords(FoldedArgs(r.fold))
  BY <1>1, FoldedArgsFacts, KeywordsJoined DEF ResultShape
<1>4. Keywords(x) \cap Taken = {}
  <2>1. Folded \cap Taken = {}
    BY DEF Folded, Taken, Ignored, Transport
  <2>. HIDE DEF Folded, Taken
  <2>. QED
    BY <1>1, <1>3, <2>1, FoldedArgsFacts DEF ResultShape
<1>. HIDE DEF x
<1>. QED
  BY <1>1, <1>2, <1>3, <1>4 DEF ResultShape, ResultFields

------------------------------------------------------------------------------
(* Rows and what is rendered of them                                         *)

RowFields ==
    {"role", "static", "remotes", "network", "routes", "dns", "domain", "redirect",
     "plugins", "typed", "features", "extra", "col"}

RowShape(i) ==
    /\ DOMAIN i = RowFields
    /\ i.role \in {"server", "client"}
    /\ i.role = "client" => i.remotes # <<>> /\ i.network = Unset
    /\ i.role = "server" => i.remotes = <<>> /\ i.network # Unset
    /\ ASeq(i.remotes) /\ ASeq(i.routes) /\ ASeq(i.dns)
    /\ ASeq(i.plugins) /\ Keywords(i.plugins) \subseteq {"plugin"}
    /\ ASeq(i.extra) /\ Keywords(i.extra) \cap Taken = {}
    /\ DOMAIN i.col = Columns
    /\ ASeq(i.features)

(* The parts of which a file is rendered, those of a row among them.         *)
RowParts(i) ==
    /\ ASeq(i.remotes) /\ ASeq(i.routes) /\ ASeq(i.dns) /\ ASeq(i.extra) /\ ASeq(i.features)
    /\ ASeq(i.plugins) /\ Keywords(i.plugins) \subseteq {"plugin"}

LEMMA PartsOfRows ==
    ASSUME NEW i, RowShape(i)
    PROVE  RowParts(i)
BY DEF RowShape, RowParts

LEMMA PreparedShape ==
    ASSUME NEW r, ResultShape(r), ~Rejected(r)
    PROVE  /\ RowShape(Prepared(r)) /\ Prepared(r).typed = NoResult.fold
           /\ Prepared(r).features = <<>>
<1>. DEFINE p == Prepared(r)
<1>1. r.role \in {"server", "client"}
  BY DEF ResultShape, Roles, Rejected
<1>2. /\ r.role = "server" => r.remotes = <<>>
      /\ r.role = "client" => r.remotes # <<>> /\ r.network = Unset
  BY <1>1 DEF Rejected
<1>3. /\ p.role = r.role /\ p.remotes = r.remotes /\ p.routes = r.routes /\ p.dns = r.dns
      /\ p.plugins = r.plugins /\ p.extra = r.extra /\ p.features = <<>>
      /\ p.typed = NoResult.fold
      /\ p.network = IF r.role = "server" THEN Or(r.network, "net-auto") ELSE Unset
  BY DEF Prepared
<1>4. DOMAIN p = RowFields
  BY DEF Prepared, RowFields
<1>5. Or(r.network, "net-auto") # Unset
  BY ConfAssumption DEF Or
<1>9. DOMAIN p.col = Columns
  <2>1. DOMAIN r.col = Columns
    BY DEF ResultShape
  <2>. HIDE DEF Columns
  <2>. QED
    BY <2>1 DEF Prepared
<1>. HIDE DEF p
<1>. HIDE DEF Taken, Control
<1>6. ASeq(p.features) /\ Keywords(p.features) = {}
  BY <1>3, EmptyIsSeq, EmptyHasNone
<1>7. RowShape(p)
  BY <1>1, <1>2, <1>3, <1>4, <1>5, <1>6, <1>9 DEF RowShape, ResultShape
<1>. QED
  BY <1>3, <1>7 DEF p

(* A sequence with keywords of a set only; one that sets a value.            *)
Within(s, K) == ASeq(s) /\ Keywords(s) \subseteq K
Tells(s, k, v) == ASeq(s) /\ k \in Keywords(s) /\ Value(s, k) = v

LEMMA WithinJoined ==
    ASSUME NEW s, NEW t, NEW K, Within(s, K), Within(t, K)
    PROVE  Within(s \o t, K)
BY KeywordsJoined DEF Within

LEMMA WithinArg ==
    ASSUME NEW K, NEW k \in K, NEW v
    PROVE  Within(Arg(k, v), K) /\ Within(Flag(k), K)
BY ArgFacts, FlagFacts DEF Within

LEMMA WithinEmpty ==
    ASSUME NEW K
    PROVE  Within(<<>>, K)
BY EmptyIsSeq, EmptyHasNone DEF Within

LEMMA WithinOne ==
    ASSUME NEW K, NEW d, d.k \in K
    PROVE  Within(<<d>>, K)
BY OneLine DEF Within

LEMMA WithinEach ==
    ASSUME NEW K, NEW s, ASeq(s), NEW f, f = [i \in DOMAIN s |-> f[i]],
           \A i \in DOMAIN s : f[i].k \in K
    PROVE  Within(f, K)
<1>1. ASeq(f) /\ DOMAIN f = DOMAIN s
  BY FunctionIsSeq
<1>. QED
  BY <1>1 DEF Within, Keywords

LEMMA TellsLast ==
    ASSUME NEW s, ASeq(s), NEW t, NEW k, NEW v, Tells(t, k, v)
    PROVE  Tells(s \o t, k, v)
BY KeywordsJoined, ValueOfLater DEF Tells

LEMMA TellsStill ==
    ASSUME NEW s, NEW k, NEW v, Tells(s, k, v), NEW K, NEW t, Within(t, K), k \notin K
    PROVE  Tells(s \o t, k, v)
<1>1. k \notin Keywords(t)
  BY DEF Within
<1>. QED
  BY <1>1, KeywordsJoined, ValueOfEarlier DEF Tells, Within

LEMMA TellsArg ==
    ASSUME NEW k, NEW v, v # Unset
    PROVE  Tells(Arg(k, v), k, <<v>>)
BY ArgFacts DEF Tells

(* What a rendered file may set, but for the lines that make the process the *)
(* daemon's.                                                                 *)
HeadKeys == {"plugin", "dev", "dev-type", "proto", "local", "multihome"}
ServerKeys ==
    {"port", "mode", "tls-server", "server", "topology", "ccd-exclusive", "push",
     "duplicate-cn"}
ClientKeys ==
    {"client", "tls-client", "nobind", "remote-cert-tls", "resolv-retry", "remote"}
CryptoKeys == {"secret", "ca", "cert", "key", "dh", "tls-crypt", "tls-auth"}
CipherKeys == {"cipher", "data-ciphers", "auth"}
PlainKeys == HeadKeys \cup ServerKeys \cup ClientKeys \cup CryptoKeys \cup CipherKeys \cup Folded

LEMMA HeadWithin ==
    ASSUME NEW i, RowParts(i)
    PROVE  Within(RenderHead(i), HeadKeys)
<1>. DEFINE dev == IF i.col["device"] # Unset
                   THEN Arg("dev", i.col["device"]) \o Arg("dev-type", Or(i.col["dev-type"], "tun"))
                   ELSE Arg("dev", Or(i.col["dev-type"], "tun"))
            proto == Arg("proto", Or(i.col["proto"], "udp"))
            local == IF i.col["local"] # Unset THEN Arg("local", i.col["local"])
                     ELSE IF i.role = "server" /\ Or(i.col["proto"], "udp") \in {"udp", "udp4", "udp6"}
                     THEN Flag("multihome") ELSE <<>>
<1>1. Within(i.plugins, HeadKeys)
  BY DEF RowParts, Within, HeadKeys
<1>2. "dev" \in HeadKeys /\ "dev-type" \in HeadKeys /\ "proto" \in HeadKeys
      /\ "local" \in HeadKeys /\ "multihome" \in HeadKeys
  BY DEF HeadKeys
<1>. HIDE DEF HeadKeys
<1>3. Within(dev, HeadKeys)
  <2>1. \A v : Within(Arg("dev", v), HeadKeys) /\ Within(Arg("dev-type", v), HeadKeys)
    BY <1>2, WithinArg
  <2>2. \A v, w : Within(Arg("dev", v) \o Arg("dev-type", w), HeadKeys)
    BY <2>1, WithinJoined
  <2>. QED
    BY <2>1, <2>2
<1>4. Within(proto, HeadKeys)
  BY <1>2, WithinArg
<1>5. Within(local, HeadKeys)
  <2>1. \A v : Within(Arg("local", v), HeadKeys) /\ Within(Flag("multihome"), HeadKeys)
    BY <1>2, WithinArg
  <2>. QED
    BY <2>1, WithinEmpty
<1>6. RenderHead(i) = ((i.plugins \o dev) \o proto) \o local
  BY DEF RenderHead
<1>. HIDE DEF dev, proto, local
<1>7. Within((i.plugins \o dev) \o proto, HeadKeys)
  BY <1>1, <1>3, <1>4, WithinJoined
<1>. QED
  BY <1>5, <1>6, <1>7, WithinJoined

LEMMA ServerTells ==
    ASSUME NEW i, RowParts(i)
    PROVE  /\ Tells(RenderServer(i), "client-config-dir", <<"ours">>)
           /\ Within(RenderServer(i), ServerKeys \cup {"client-config-dir"})
<1>. DEFINE port == Arg("port", Or(i.col["port"], "1194"))
            mode == Arg("mode", "server")
            tls == Flag("tls-server")
            server == Arg("server", i.network)
            topology == Arg("topology", Or(i.col["topology"], "subnet"))
            ccd == Arg("client-config-dir", "ours")
            exclusive == Flag("ccd-exclusive")
            routes == Each(i.routes, LAMBDA n : D("push", <<"route", n>>))
            dns == Each(i.dns, LAMBDA a : D("push", <<"DNS", a>>))
            domain == IF i.domain = Unset THEN <<>> ELSE <<D("push", <<"DOMAIN", i.domain>>)>>
            redirect == IF i.redirect THEN <<D("push", <<"redirect-gateway", "def1">>)>> ELSE <<>>
            duplicate == Flag("duplicate-cn")
            K == ServerKeys \cup {"client-config-dir"}
<1>1. /\ "port" \in ServerKeys /\ "mode" \in ServerKeys /\ "tls-server" \in ServerKeys
      /\ "server" \in ServerKeys /\ "topology" \in ServerKeys /\ "ccd-exclusive" \in ServerKeys
      /\ "push" \in ServerKeys /\ "duplicate-cn" \in ServerKeys
      /\ "client-config-dir" \notin ServerKeys
  BY DEF ServerKeys
<1>. HIDE DEF ServerKeys
<1>2. /\ Within(port, K) /\ Within(mode, K) /\ Within(tls, K) /\ Within(server, K)
      /\ Within(topology, K) /\ Within(ccd, K)
  BY <1>1, WithinArg
<1>3. Within(exclusive, ServerKeys) /\ Within(duplicate, ServerKeys)
  BY <1>1, WithinArg
<1>4. Within(routes, ServerKeys)
  <2>1. routes = [j \in DOMAIN i.routes |-> D("push", <<"route", i.routes[j]>>)]
    BY DEF Each
  <2>. HIDE DEF routes
  <2>2. ASeq(i.routes)
    BY DEF RowParts
  <2>3. \A j \in DOMAIN i.routes : routes[j].k \in ServerKeys
    BY <1>1, <2>1 DEF D
  <2>4. routes = [j \in DOMAIN i.routes |-> routes[j]]
    BY <2>1
  <2>. QED
    BY <2>2, <2>3, <2>4, WithinEach
<1>5. Within(dns, ServerKeys)
  <2>1. dns = [j \in DOMAIN i.dns |-> D("push", <<"DNS", i.dns[j]>>)]
    BY DEF Each
  <2>. HIDE DEF dns
  <2>2. ASeq(i.dns)
    BY DEF RowParts
  <2>3. \A j \in DOMAIN i.dns : dns[j].k \in ServerKeys
    BY <1>1, <2>1 DEF D
  <2>4. dns = [j \in DOMAIN i.dns |-> dns[j]]
    BY <2>1
  <2>. QED
    BY <2>2, <2>3, <2>4, WithinEach
<1>6. Within(domain, ServerKeys) /\ Within(redirect, ServerKeys)
  <2>1. \A v : Within(<<D("push", v)>>, ServerKeys)
    BY <1>1, WithinOne DEF D
  <2>. QED
    BY <2>1, WithinEmpty
<1>7. Tells(ccd, "client-config-dir", <<"ours">>)
  BY ConfAssumption, TellsArg
<1>8. RenderServer(i) =
        ((((((((((port \o mode) \o tls) \o server) \o topology) \o ccd) \o exclusive)
            \o routes) \o dns) \o domain) \o redirect) \o duplicate
  BY DEF RenderServer
<1>. HIDE DEF port, mode, tls, server, topology, ccd, exclusive, routes, dns, domain,
              redirect, duplicate
<1>. DEFINE s5 == (((port \o mode) \o tls) \o server) \o topology
            s6 == s5 \o ccd
            s7 == s6 \o exclusive
            s8 == s7 \o routes
            s9 == s8 \o dns
            s10 == s9 \o domain
            s11 == s10 \o redirect
            s12 == s11 \o duplicate
<1>9. Within(s5, K)
  BY <1>2, WithinJoined
<1>10. \A s, t : Within(s, K) /\ Within(t, ServerKeys) => Within(s \o t, K)
  <2>1. \A t : Within(t, ServerKeys) => Within(t, K)
    BY DEF Within
  <2>. QED
    BY <2>1, WithinJoined
<1>. DEFINE Good(s) == Tells(s, "client-config-dir", <<"ours">>) /\ Within(s, K)
<1>11. \A s, t : Good(s) /\ Within(t, ServerKeys) => Good(s \o t)
  BY <1>1, <1>10, TellsStill
<1>. HIDE DEF s5
<1>12. Good(s6)
  <2>1. Tells(s6, "client-config-dir", <<"ours">>)
    BY <1>7, <1>9, TellsLast DEF Within
  <2>2. Within(s6, K)
    BY <1>2, <1>9, WithinJoined
  <2>. QED
    BY <2>1, <2>2
<1>. HIDE DEF s6, Good
<1>13. Good(s7)
  BY <1>3, <1>11, <1>12
<1>. HIDE DEF s7
<1>14. Good(s8)
  BY <1>4, <1>11, <1>13
<1>. HIDE DEF s8
<1>15. Good(s9)
  BY <1>5, <1>11, <1>14
<1>. HIDE DEF s9
<1>16. Good(s10)
  BY <1>6, <1>11, <1>15
<1>. HIDE DEF s10
<1>17. Good(s11)
  BY <1>6, <1>11, <1>16
<1>. HIDE DEF s11
<1>18. Good(s12)
  BY <1>3, <1>11, <1>17
<1>19. RenderServer(i) = s12
  BY <1>8 DEF s5, s6, s7, s8, s9, s10, s11
<1>. QED
  BY <1>18, <1>19 DEF Good

LEMMA ClientWithin ==
    ASSUME NEW i, RowParts(i)
    PROVE  Within(RenderClient(i), ClientKeys)
<1>. DEFINE remotes == Each(i.remotes, LAMBDA r :
                D("remote", IF r.proto = Unset THEN <<r.host, r.port>>
                            ELSE <<r.host, r.port, r.proto>>))
<1>1. /\ "client" \in ClientKeys /\ "tls-client" \in ClientKeys /\ "nobind" \in ClientKeys
      /\ "remote-cert-tls" \in ClientKeys /\ "resolv-retry" \in ClientKeys
      /\ "remote" \in ClientKeys
  BY DEF ClientKeys
<1>. HIDE DEF ClientKeys
<1>2. Within(remotes, ClientKeys)
  <2>1. remotes = [j \in DOMAIN i.remotes |->
            D("remote", IF i.remotes[j].proto = Unset THEN <<i.remotes[j].host, i.remotes[j].port>>
                        ELSE <<i.remotes[j].host, i.remotes[j].port, i.remotes[j].proto>>)]
    BY DEF Each
  <2>. HIDE DEF remotes
  <2>2. ASeq(i.remotes)
    BY DEF RowParts
  <2>3. \A j \in DOMAIN i.remotes : remotes[j].k \in ClientKeys
    BY <1>1, <2>1 DEF D
  <2>4. remotes = [j \in DOMAIN i.remotes |-> remotes[j]]
    BY <2>1
  <2>. QED
    BY <2>2, <2>3, <2>4, WithinEach
<1>. DEFINE a == Flag("client") b == Flag("tls-client") c == Flag("nobind")
            d == Arg("remote-cert-tls", "server") e == Arg("resolv-retry", "infinite")
<1>3. /\ Within(a, ClientKeys) /\ Within(b, ClientKeys) /\ Within(c, ClientKeys)
      /\ Within(d, ClientKeys) /\ Within(e, ClientKeys)
  BY <1>1, WithinArg
<1>4. RenderClient(i) = ((((a \o b) \o c) \o d) \o e) \o remotes
  BY DEF RenderClient
<1>. HIDE DEF a, b, c, d, e, remotes
<1>5. Within((((a \o b) \o c) \o d) \o e, ClientKeys)
  BY <1>3, WithinJoined
<1>. QED
  BY <1>2, <1>4, <1>5, WithinJoined

LEMMA CryptoWithin ==
    ASSUME NEW i
    PROVE  Within(RenderCrypto(i), CryptoKeys) /\ Within(RenderCiphers(i), CipherKeys)
           /\ Within(RenderTyped(i), Folded)
<1>1. /\ "secret" \in CryptoKeys /\ "ca" \in CryptoKeys /\ "cert" \in CryptoKeys
      /\ "key" \in CryptoKeys /\ "dh" \in CryptoKeys /\ "tls-crypt" \in CryptoKeys
      /\ "tls-auth" \in CryptoKeys /\ "cipher" \in CipherKeys
      /\ "data-ciphers" \in CipherKeys /\ "auth" \in CipherKeys
  BY DEF CryptoKeys, CipherKeys
<1>. HIDE DEF CryptoKeys, CipherKeys, Folded
<1>2. ASSUME i.static PROVE Within(RenderCrypto(i), CryptoKeys)
  <2>1. RenderCrypto(i) = Arg("secret", i.col["tls-auth"])
    BY <1>2 DEF RenderCrypto
  <2>. QED
    BY <1>1, <2>1, WithinArg
<1>3. ASSUME ~i.static PROVE Within(RenderCrypto(i), CryptoKeys)
  <2>. DEFINE a == Arg("ca", i.col["ca"]) b == Arg("cert", i.col["cert"])
              c == Arg("key", i.col["key"])
              d == IF i.role = "server" THEN Arg("dh", Or(i.col["dh"], "none")) ELSE <<>>
              e == Arg("tls-crypt", i.col["tls-crypt"]) f == Arg("tls-auth", i.col["tls-auth"])
  <2>1. /\ Within(a, CryptoKeys) /\ Within(b, CryptoKeys) /\ Within(c, CryptoKeys)
        /\ Within(e, CryptoKeys) /\ Within(f, CryptoKeys)
    BY <1>1, WithinArg
  <2>2. Within(d, CryptoKeys)
    BY <1>1, WithinArg, WithinEmpty
  <2>3. RenderCrypto(i) = ((((a \o b) \o c) \o d) \o e) \o f
    BY <1>3 DEF RenderCrypto
  <2>. HIDE DEF a, b, c, d, e, f
  <2>. QED
    BY <2>1, <2>2, <2>3, WithinJoined
<1>4. Within(RenderCiphers(i), CipherKeys)
  <2>. DEFINE a == Arg("cipher", i.col["cipher"]) b == Arg("data-ciphers", i.col["data-ciphers"])
              c == Arg("auth", i.col["auth"])
  <2>1. Within(a, CipherKeys) /\ Within(b, CipherKeys) /\ Within(c, CipherKeys)
    BY <1>1, WithinArg
  <2>2. RenderCiphers(i) = (a \o b) \o c
    BY DEF RenderCiphers
  <2>. HIDE DEF a, b, c
  <2>. QED
    BY <2>1, <2>2, WithinJoined
<1>5. Within(RenderTyped(i), Folded)
  BY FoldedArgsFacts DEF Within, RenderTyped
<1>. QED
  BY <1>2, <1>3, <1>4, <1>5

LEMMA OwnedTells ==
    \A k \in {"management", "writepid", "status", "tmp-dir"} : Tells(RenderOwned, k, <<"ours">>)
<1>. DEFINE a == Arg("keepalive", "10 60") b == Flag("persist-key") c == Flag("persist-tun")
            t == Arg("tmp-dir", "ours") w == Arg("writepid", "ours") s == Arg("status", "ours")
            m == Arg("management", "ours") u == Arg("management-client-user", "root")
            v == Arg("verb", "2")
            One(x) == {x}
<1>1. /\ ASeq(a) /\ ASeq(b) /\ ASeq(c)
      /\ Tells(t, "tmp-dir", <<"ours">>) /\ Tells(w, "writepid", <<"ours">>)
      /\ Tells(s, "status", <<"ours">>) /\ Tells(m, "management", <<"ours">>)
  BY ConfAssumption, TellsArg, ArgFacts, FlagFacts
<1>2. /\ Within(t, One("tmp-dir")) /\ Within(w, One("writepid")) /\ Within(s, One("status"))
      /\ Within(m, One("management")) /\ Within(u, One("management-client-user"))
      /\ Within(v, One("verb"))
  BY ArgFacts DEF Within
<1>3. RenderOwned = (((((((a \o b) \o c) \o t) \o w) \o s) \o m) \o u) \o v
  BY DEF RenderOwned
<1>. HIDE DEF a, b, c, t, w, s, m, u, v
<1>. DEFINE p3 == (a \o b) \o c
            p4 == p3 \o t
            p5 == p4 \o w
            p6 == p5 \o s
            p7 == p6 \o m
            p8 == p7 \o u
            p9 == p8 \o v
<1>5. ASeq(p3)
  BY <1>1, KeywordsJoined
<1>. HIDE DEF p3
<1>6. Tells(p4, "tmp-dir", <<"ours">>)
  BY <1>1, <1>5, TellsLast
<1>. HIDE DEF p4
<1>7. Tells(p5, "tmp-dir", <<"ours">>) /\ Tells(p5, "writepid", <<"ours">>)
  <2>1. Tells(p5, "writepid", <<"ours">>)
    BY <1>1, <1>6, TellsLast DEF Tells
  <2>2. "tmp-dir" \notin One("writepid")
    OBVIOUS
  <2>. HIDE DEF One
  <2>3. Tells(p5, "tmp-dir", <<"ours">>)
    BY <1>2, <1>6, <2>2, TellsStill
  <2>. QED
    BY <2>1, <2>3
<1>. HIDE DEF p5
<1>8. \A k \in {"tmp-dir", "writepid"} : Tells(p6, k, <<"ours">>)
  <2>1. \A k \in {"tmp-dir", "writepid"} : k \notin One("status")
    OBVIOUS
  <2>. HIDE DEF One
  <2>. QED
    BY <1>2, <1>7, <2>1, TellsStill
<1>9. Tells(p6, "status", <<"ours">>)
  BY <1>1, <1>7, TellsLast DEF Tells
<1>. HIDE DEF p6
<1>10. \A k \in {"tmp-dir", "writepid", "status"} : Tells(p7, k, <<"ours">>)
  <2>1. \A k \in {"tmp-dir", "writepid", "status"} : k \notin One("management")
    OBVIOUS
  <2>. HIDE DEF One
  <2>. QED
    BY <1>2, <1>8, <1>9, <2>1, TellsStill
<1>11. Tells(p7, "management", <<"ours">>)
  BY <1>1, <1>9, TellsLast DEF Tells
<1>. HIDE DEF p7
<1>. DEFINE Ks == {"management", "writepid", "status", "tmp-dir"}
<1>12. \A k \in Ks : k \notin One("management-client-user") /\ k \notin One("verb")
  OBVIOUS
<1>13. \A k \in Ks : Tells(p7, k, <<"ours">>)
  BY <1>10, <1>11
<1>. HIDE DEF One, Ks
<1>14. \A k \in Ks : Tells(p8, k, <<"ours">>)
  BY <1>2, <1>12, <1>13, TellsStill
<1>. HIDE DEF p8
<1>15. \A k \in Ks : Tells(p9, k, <<"ours">>)
  BY <1>2, <1>12, <1>14, TellsStill
<1>. QED
  BY <1>3, <1>15 DEF Ks, p3, p4, p5, p6, p7, p8

OwnedKeys ==
    {"keepalive", "persist-key", "persist-tun", "tmp-dir", "writepid", "status",
     "management", "management-client-user", "verb"}

LEMMA OwnedWithin == Within(RenderOwned, OwnedKeys)
<1>. DEFINE a == Arg("keepalive", "10 60") b == Flag("persist-key") c == Flag("persist-tun")
            t == Arg("tmp-dir", "ours") w == Arg("writepid", "ours") s == Arg("status", "ours")
            m == Arg("management", "ours") u == Arg("management-client-user", "root")
            v == Arg("verb", "2")
<1>1. /\ Within(a, OwnedKeys) /\ Within(b, OwnedKeys) /\ Within(c, OwnedKeys)
      /\ Within(t, OwnedKeys) /\ Within(w, OwnedKeys) /\ Within(s, OwnedKeys)
      /\ Within(m, OwnedKeys) /\ Within(u, OwnedKeys) /\ Within(v, OwnedKeys)
  BY WithinArg DEF OwnedKeys
<1>2. RenderOwned = (((((((a \o b) \o c) \o t) \o w) \o s) \o m) \o u) \o v
  BY DEF RenderOwned
<1>. HIDE DEF a, b, c, t, w, s, m, u, v
<1>. QED
  BY <1>1, <1>2, WithinJoined

(* The last of what is rendered are the row's own directives and those of    *)
(* its features; neither sets what OursControl is about, unless an adopted   *)
(* configuration brought a tmp-dir or a client-config-dir.                   *)
LEMMA ExpandFacts ==
    ASSUME NEW i, RowShape(i)
    PROVE  /\ ASeq(Expand(i))
           /\ Keywords(i.features) \cap Control = {} =>
                /\ \A k \in {"management", "writepid", "status"} : k \notin Keywords(Expand(i))
                /\ \A k \in {"tmp-dir", "client-config-dir"} :
                      k \in Keywords(Expand(i)) => k \in Keywords(i.extra)
<1>1. ASeq(Expand(i)) /\ Keywords(Expand(i)) = Keywords(i.extra) \cup Keywords(i.features)
  BY KeywordsJoined DEF Expand, RowShape
<1>2. {"management", "writepid", "status"} \subseteq Taken \cap Control
      /\ {"tmp-dir", "client-config-dir"} \subseteq Control
  BY DEF Taken, Ignored, Control
<1>. HIDE DEF Taken, Control
<1>. QED
  BY <1>1, <1>2 DEF RowShape

LEMMA NothingTold ==
    ASSUME NEW s, NEW k, k \notin Keywords(s)
    PROVE  Value(s, k) = Unset
BY DEF Value, Lines, Keywords

LEMMA RenderedControl ==
    ASSUME NEW i, RowShape(i)
    PROVE  LET f == RenderInstance(i) IN
           /\ ASeq(f)
           /\ Keywords(i.features) \cap Control = {} =>
                /\ \A k \in {"management", "writepid", "status"} : Value(f, k) = <<"ours">>
                /\ \A k \in {"tmp-dir", "client-config-dir"} :
                      Value(f, k) \in {<<"ours">>, Unset} \/ k \in Keywords(i.extra)
<1>. DEFINE head == RenderHead(i)
            body == IF i.role = "server" THEN RenderServer(i) ELSE RenderClient(i)
            crypto == RenderCrypto(i)
            ciphers == RenderCiphers(i)
            typed == RenderTyped(i)
            owned == RenderOwned
            rest == Expand(i)
            CCD == "client-config-dir"
            K == PlainKeys \cup {CCD}
            v == <<"ours">>
            bare == Keywords(i.features) \cap Control = {}
<1>1. /\ Within(head, PlainKeys) /\ Within(crypto, PlainKeys) /\ Within(ciphers, PlainKeys)
      /\ Within(typed, PlainKeys)
  BY HeadWithin, CryptoWithin, PartsOfRows DEF Within, PlainKeys
<1>2. /\ i.role = "server" => Tells(body, CCD, v) /\ Within(body, K)
      /\ i.role # "server" => Within(body, PlainKeys)
  <2>1. /\ Tells(RenderServer(i), CCD, v) /\ Within(RenderServer(i), ServerKeys \cup {CCD})
        /\ Within(RenderClient(i), ClientKeys)
    BY ServerTells, ClientWithin, PartsOfRows
  <2>. QED
    BY <2>1 DEF Within, PlainKeys
<1>3. CCD \notin PlainKeys /\ CCD \notin OwnedKeys
  BY DEF PlainKeys, OwnedKeys, Folded, HeadKeys, ServerKeys, ClientKeys, CryptoKeys, CipherKeys
<1>4. ASeq(owned) /\ Within(owned, OwnedKeys)
      /\ \A k \in {"management", "writepid", "status", "tmp-dir"} : Tells(owned, k, v)
  BY OwnedWithin, OwnedTells DEF Within
<1>5. /\ ASeq(rest)
      /\ bare => /\ \A k \in {"management", "writepid", "status"} : k \notin Keywords(rest)
                 /\ \A k \in {"tmp-dir", CCD} : k \in Keywords(rest) => k \in Keywords(i.extra)
  BY ExpandFacts
<1>6. RenderInstance(i) = (((((head \o body) \o crypto) \o ciphers) \o typed) \o owned) \o rest
  BY DEF RenderInstance
<1>. HIDE DEF head, body, crypto, ciphers, typed, owned, rest, v, bare
<1>. DEFINE plain == (((head \o body) \o crypto) \o ciphers) \o typed
            mine == plain \o owned
            f == mine \o rest
<1>7. /\ ASeq(plain)
      /\ i.role = "server" => Tells(plain, CCD, v)
      /\ i.role # "server" => Within(plain, PlainKeys)
  <2>1. CASE i.role # "server"
    <3>1. Within(plain, PlainKeys)
      BY <1>1, <1>2, <2>1, WithinJoined
    <3>. QED
      BY <2>1, <3>1 DEF Within
  <2>2. CASE i.role = "server"
    <3>. HIDE DEF CCD
    <3>1. ASeq(head)
      BY <1>1 DEF Within
    <3>2. Tells(head \o body, CCD, v)
      BY <1>2, <2>2, <3>1, TellsLast
    <3>3. Tells((head \o body) \o crypto, CCD, v)
      BY <1>1, <1>3, <3>2, TellsStill
    <3>4. Tells(((head \o body) \o crypto) \o ciphers, CCD, v)
      BY <1>1, <1>3, <3>3, TellsStill
    <3>5. Tells(plain, CCD, v)
      BY <1>1, <1>3, <3>4, TellsStill
    <3>6. ASeq(plain)
      BY <3>5 DEF Tells
    <3>. QED
      BY <2>2, <3>5, <3>6
  <2>. QED
    BY <2>1, <2>2
<1>. HIDE DEF plain
<1>8. /\ ASeq(mine)
      /\ \A k \in {"management", "writepid", "status", "tmp-dir"} : Tells(mine, k, v)
      /\ i.role = "server" => Tells(mine, CCD, v)
      /\ i.role # "server" => CCD \notin Keywords(mine)
  <2>1. \A k \in {"management", "writepid", "status", "tmp-dir"} : Tells(mine, k, v)
    BY <1>4, <1>7, TellsLast
  <2>2. i.role = "server" => Tells(mine, CCD, v)
    BY <1>3, <1>4, <1>7, TellsStill
  <2>3. Keywords(mine) = Keywords(plain) \cup Keywords(owned) /\ ASeq(mine)
    BY <1>4, <1>7, KeywordsJoined
  <2>4. i.role # "server" => CCD \notin Keywords(mine)
    BY <1>3, <1>4, <1>7, <2>3 DEF Within
  <2>. QED
    BY <2>1, <2>2, <2>3, <2>4
<1>. HIDE DEF mine
<1>9. ASeq(f) /\ Keywords(f) = Keywords(mine) \cup Keywords(rest)
  BY <1>5, <1>8, KeywordsJoined
<1>10. bare => \A k \in {"management", "writepid", "status"} : Value(f, k) = v
  BY <1>5, <1>8, ValueOfEarlier DEF Tells
<1>11. bare => Value(f, "tmp-dir") = v \/ "tmp-dir" \in Keywords(i.extra)
  BY <1>5, <1>8, ValueOfEarlier DEF Tells
<1>12. bare => Value(f, CCD) \in {v, Unset} \/ CCD \in Keywords(i.extra)
  <2>. SUFFICES ASSUME bare PROVE Value(f, CCD) \in {v, Unset} \/ CCD \in Keywords(i.extra)
    OBVIOUS
  <2>1. CASE CCD \in Keywords(rest)
    BY <1>5, <2>1
  <2>2. CASE CCD \notin Keywords(rest) /\ i.role = "server"
    BY <1>5, <1>8, <2>2, ValueOfEarlier DEF Tells
  <2>3. CASE CCD \notin Keywords(rest) /\ i.role # "server"
    BY <1>8, <1>9, <2>3, NothingTold
  <2>. QED
    BY <2>1, <2>2, <2>3
<1>13. f = RenderInstance(i)
  BY <1>6 DEF plain, mine
<1>. HIDE DEF f
<1>. QED
  BY <1>9, <1>10, <1>11, <1>12, <1>13 DEF v, bare

------------------------------------------------------------------------------
(* What a node makes of a profile                                            *)

(* The keywords of profiles, and of the blocks in them: none makes a server  *)
(* or a static key of what imports it.                                       *)
ProfileKeys ==
    {"client", "dev", "proto", "remote", "resolv-retry", "nobind", "persist-key",
     "persist-tun", "remote-cert-tls", "auth-nocache", "verb", "ignore-unknown-option",
     "explicit-exit-notify", "cipher", "data-ciphers", "data-ciphers-fallback", "auth",
     "float", "reneg-sec", "<>"}

Tame(d) == d.k \in ProfileKeys /\ (d.k = "<>" => d.v[1] \in {"ca", "cert", "key", "tls-crypt"})
AllTame(s) == ASeq(s) /\ \A j \in DOMAIN s : Tame(s[j])

LEMMA TameJoined ==
    ASSUME NEW s, NEW t, AllTame(s), AllTame(t)
    PROVE  AllTame(s \o t)
<1>1. ASSUME NEW j \in DOMAIN (s \o t) PROVE Tame((s \o t)[j])
  <2>1. CASE j \in 1..Len(s)
    BY <2>1, Joined DEF AllTame
  <2>2. CASE \E i \in 1..Len(t) : j = Len(s) + i
    BY <2>2, Joined DEF AllTame
  <2>. QED
    BY <2>1, <2>2, Joined DEF AllTame
<1>. QED
  BY <1>1, Joined DEF AllTame

LEMMA TameOne ==
    ASSUME NEW d, Tame(d)
    PROVE  AllTame(<<d>>)
<1>1. ASeq(<<d>>) /\ DOMAIN <<d>> = 1..1 /\ <<d>>[1] = d
  BY OneLine
<1>2. 1..1 = {1}
  OBVIOUS
<1>. DEFINE s == <<d>>
<1>3. ASeq(s) /\ DOMAIN s = {1} /\ s[1] = d
  BY <1>1, <1>2
<1>. HIDE DEF s
<1>4. AllTame(s)
  BY <1>3 DEF AllTame
<1>. QED
  BY <1>4 DEF s

LEMMA TameEmpty == AllTame(<<>>)
<1>1. \A s : ASeq(s) /\ Keywords(s) = {} => AllTame(s)
  BY DEF AllTame, Keywords
<1>. QED
  BY <1>1, EmptyIsSeq, EmptyHasNone

LEMMA TameArg ==
    ASSUME NEW k \in ProfileKeys, k # "<>", NEW v
    PROVE  AllTame(Arg(k, v)) /\ AllTame(Flag(k))
<1>1. Tame(D(k, <<v>>)) /\ Tame(D(k, <<>>))
  BY DEF Tame, D
<1>. QED
  BY <1>1, TameOne, TameEmpty DEF Arg, Flag

LEMMA TameBlock ==
    ASSUME NEW tag \in {"ca", "cert", "key", "tls-crypt"}, NEW v
    PROVE  AllTame(Block(tag, v))
<1>1. Tame(D("<>", <<tag, v>>))
  BY DEF Tame, D, ProfileKeys
<1>. QED
  BY <1>1, TameOne, TameEmpty DEF Block

LEMMA ProfileIsTame ==
    ASSUME NEW i
    PROVE  LET p == RenderClientProfile(i) IN
           AllTame(p) /\ Len(p) \in Nat /\ Len(p) # 0 /\ p[1].k = "client"
<1>. DEFINE a0 == Flag("client")
            a1 == Arg("dev", Or(i.col["dev-type"], "tun"))
            a2 == Arg("proto", Or(i.col["proto"], "udp"))
            a3 == <<D("remote", <<"endpoint", Or(i.col["port"], "1194")>>)>>
            a4 == Arg("resolv-retry", "infinite")
            a5 == Flag("nobind")
            a6 == Flag("persist-key")
            a7 == Flag("persist-tun")
            a8 == Arg("remote-cert-tls", "server")
            a9 == Flag("auth-nocache")
            a10 == Arg("verb", "3")
            a11 == Arg("ignore-unknown-option", "data-ciphers")
            a12 == IF Or(i.col["proto"], "udp") \in {"udp", "udp4", "udp6"}
                   THEN Arg("explicit-exit-notify", "1") ELSE <<>>
            a13 == ProfileCiphers(i)
            a14 == Flag("float")
            a15 == Arg("reneg-sec", "0")
            a16 == Block("ca", i.col["ca"])
            a17 == Block("cert", "clientCert")
            a18 == Block("key", "clientKey")
            a19 == Block("tls-crypt", i.col["tls-crypt"])
            Keys == {"dev", "proto", "resolv-retry", "nobind", "persist-key", "persist-tun",
                     "remote-cert-tls", "auth-nocache", "verb", "ignore-unknown-option",
                     "float", "reneg-sec"}
<1>1. \A k \in Keys \cup {"explicit-exit-notify", "cipher", "data-ciphers",
                          "data-ciphers-fallback", "auth"} :
        \A v : AllTame(Arg(k, v)) /\ AllTame(Flag(k))
  <2>1. \A k \in Keys \cup {"explicit-exit-notify", "cipher", "data-ciphers",
                            "data-ciphers-fallback", "auth"} : k \in ProfileKeys /\ k # "<>"
    BY DEF ProfileKeys
  <2>. HIDE DEF Keys
  <2>. QED
    BY <2>1, TameArg
<1>2. /\ AllTame(a1) /\ AllTame(a2) /\ AllTame(a4) /\ AllTame(a5) /\ AllTame(a6) /\ AllTame(a7)
      /\ AllTame(a8) /\ AllTame(a9) /\ AllTame(a10) /\ AllTame(a11) /\ AllTame(a14)
      /\ AllTame(a15)
  BY <1>1
<1>3. AllTame(a3)
  <2>1. \A v : Tame(D("remote", v))
    BY DEF Tame, D, ProfileKeys
  <2>. QED
    BY <2>1, TameOne
<1>4. AllTame(a12)
  BY <1>1, TameEmpty
<1>5. AllTame(a13)
  <2>. DEFINE data == Or(i.col["data-ciphers"], "GCM")
              b1 == Arg("cipher", Or(i.col["cipher"], data))
              b2 == Arg("data-ciphers", data)
              b3 == Arg("data-ciphers-fallback", "CBC")
              b4 == Arg("auth", Or(i.col["auth"], "SHA256"))
  <2>1. AllTame(b1) /\ AllTame(b2) /\ AllTame(b3) /\ AllTame(b4)
    BY <1>1
  <2>2. a13 = ((b1 \o b2) \o b3) \o b4
    BY DEF ProfileCiphers
  <2>. HIDE DEF b1, b2, b3, b4, a13
  <2>. QED
    BY <2>1, <2>2, TameJoined
<1>6. AllTame(a16) /\ AllTame(a17) /\ AllTame(a18) /\ AllTame(a19)
  BY TameBlock
<1>7. RenderClientProfile(i) =
        (((((((((((((((((((a0 \o a1) \o a2) \o a3) \o a4) \o a5) \o a6) \o a7) \o a8) \o
        a9) \o a10) \o a11) \o a12) \o a13) \o a14) \o a15) \o a16) \o a17) \o a18) \o
        a19)
  BY DEF RenderClientProfile
<1>8. AllTame(a0) /\ Len(a0) = 1 /\ a0[1].k = "client"
  <2>1. Tame(D("client", <<>>)) /\ D("client", <<>>).k = "client"
    BY DEF Tame, D, ProfileKeys
  <2>. QED
    BY <2>1, TameOne DEF Flag
<1>. DEFINE Begun(s) == AllTame(s) /\ Len(s) \in Nat /\ Len(s) # 0 /\ s[1].k = "client"
<1>9. ASSUME NEW s, NEW t, Begun(s), AllTame(t) PROVE Begun(s \o t)
  <2>1. ASeq(s) /\ ASeq(t) /\ AllTame(s \o t)
    BY <1>9, TameJoined DEF AllTame
  <2>2. DOMAIN (s \o t) = 1..(Len(s) + Len(t)) /\ (s \o t)[1] = s[1] /\ Len(t) \in Nat
    <3>1. 1 \in 1..Len(s)
      BY <1>9
    <3>. QED
      BY <2>1, <3>1, Joined
  <2>3. DOMAIN (s \o t) = 1..Len(s \o t) /\ Len(s \o t) \in Nat
    <3>1. ASeq(s \o t)
      BY <2>1 DEF AllTame
    <3>. QED
      BY <3>1, Joined
  <2>4. Len(s \o t) # 0
    <3>1. 1 \in DOMAIN (s \o t)
      BY <1>9, <2>2
    <3>. QED
      BY <2>3, <3>1
  <2>. QED
    BY <1>9, <2>1, <2>2, <2>3, <2>4
<1>10. Begun(a0)
  BY <1>8
<1>. HIDE DEF a0, a1, a2, a3, a4, a5, a6, a7, a8, a9, a10, a11, a12,
              a13, a14, a15, a16, a17, a18, a19, Begun, Keys
<1>. DEFINE p6 == (((((a0 \o a1) \o a2) \o a3) \o a4) \o a5) \o a6
            p12 == (((((p6 \o a7) \o a8) \o a9) \o a10) \o a11) \o a12
            p19 == ((((((p12 \o a13) \o a14) \o a15) \o a16) \o a17) \o a18) \o a19
<1>11. Begun(p6)
  BY <1>2, <1>3, <1>9, <1>10
<1>. HIDE DEF p6
<1>12. Begun(p12)
  BY <1>2, <1>4, <1>9, <1>11
<1>. HIDE DEF p12
<1>13. Begun(p19)
  BY <1>2, <1>5, <1>6, <1>9, <1>12
<1>. QED
  BY <1>7, <1>13 DEF Begun, p6, p12, p19

Tags == {"ca", "cert", "key", "tls-crypt"}

PeerShape(r) ==
    /\ DOMAIN r = ResultFields
    /\ r.static = FALSE
    /\ r.role \in {Unset, "client"}
    /\ ASeq(r.inline) /\ \A j \in DOMAIN r.inline : r.inline[j].v[1] \in Tags

LEMMA TameLine ==
    ASSUME NEW r, PeerShape(r), NEW d, Tame(d)
    PROVE  /\ PeerShape(ParseLine(r, d))
           /\ d.k = "client" \/ r.role = "client" => ParseLine(r, d).role = "client"
<1>. DEFINE q == ParseLine(r, d)
            Alike(x) == /\ DOMAIN x = DOMAIN r /\ x.static = r.static /\ x.role = r.role
                       /\ x.inline = r.inline
<1>1. CASE d.k \in {"verb", "persist-key", "persist-tun"}
  <2>1. q = r
    BY <1>1 DEF ParseLine, Ignored, Columns, Folded
  <2>2. d.k # "client"
    BY <1>1
  <2>. HIDE DEF q
  <2>. QED
    BY <2>1, <2>2 DEF q
<1>2. CASE d.k = "client"
  <2>1. q = [r EXCEPT !.role = "client"]
    BY <1>2 DEF ParseLine, ParseRole, Ignored, Columns, Folded
  <2>. HIDE DEF q
  <2>2. DOMAIN q = DOMAIN r /\ q.role = "client" /\ q.static = r.static /\ q.inline = r.inline
    BY <2>1 DEF PeerShape, ResultFields
  <2>3. PeerShape(q)
    BY <2>2 DEF PeerShape
  <2>. QED
    BY <2>2, <2>3 DEF q
<1>3. CASE d.k = "<>"
  <2>1. q = [r EXCEPT !.inline = Append(@, d)]
    BY <1>3 DEF ParseLine, ParseBlock, Ignored, Columns, Folded
  <2>2. ASeq(Append(r.inline, d))
        /\ \A j \in DOMAIN Append(r.inline, d) : Append(r.inline, d)[j].v[1] \in Tags
    <3>1. PICK S : r.inline \in Seq(S)
      BY DEF PeerShape, ASeq
    <3>2. r.inline \in Seq(S \cup {d})
      BY <3>1
    <3>. DEFINE a == Append(r.inline, d)
                n == Len(r.inline)
    <3>3. /\ a \in Seq(S \cup {d}) /\ DOMAIN a = 1..(n + 1) /\ n \in Nat
          /\ DOMAIN r.inline = 1..n
          /\ \A j \in 1..n : a[j] = r.inline[j]
          /\ a[n + 1] = d
      BY <3>2
    <3>4. d.v[1] \in Tags
      BY <1>3 DEF Tame, Tags
    <3>. HIDE DEF a, n
    <3>5. 1..(n + 1) = 1..n \cup {n + 1}
      BY <3>3
    <3>6. \A j \in DOMAIN a : a[j].v[1] \in Tags
      BY <3>3, <3>4, <3>5 DEF PeerShape
    <3>7. ASeq(a)
      BY <3>3 DEF ASeq
    <3>. QED
      BY <3>6, <3>7 DEF a
  <2>. HIDE DEF q
  <2>3. DOMAIN q = DOMAIN r /\ q.role = r.role /\ q.static = r.static
        /\ q.inline = Append(r.inline, d)
    BY <2>1 DEF PeerShape, ResultFields
  <2>4. PeerShape(q)
    BY <2>2, <2>3 DEF PeerShape
  <2>. QED
    BY <1>3, <2>3, <2>4 DEF q
<1>4. CASE d.k \notin {"verb", "persist-key", "persist-tun", "client", "<>"}
  <2>1. Alike(q)
    <3>1. CASE d.k \in {"proto", "cipher", "data-ciphers", "auth"}
      <4>1. q = [r EXCEPT !.col[d.k] = d.v[1]]
        BY <3>1 DEF ParseLine, ParseValue, Ignored, Columns, Folded
      <4>. QED
        BY <4>1 DEF PeerShape, ResultFields
    <3>2. CASE d.k = "dev"
      <4>1. q = ParseDev(r, d.v)
        BY <3>2 DEF ParseLine, Ignored, Columns, Folded
      <4>. HIDE DEF q
      <4>. QED
        BY <4>1 DEF ParseDev, PeerShape, ResultFields
    <3>3. CASE d.k = "remote"
      <4>1. q = ParseRemote(r, d.v)
        BY <3>3 DEF ParseLine, Ignored, Columns, Folded
      <4>. HIDE DEF q
      <4>. QED
        BY <4>1 DEF ParseRemote, PeerShape, ResultFields
    <3>4. CASE d.k \notin {"proto", "cipher", "data-ciphers", "auth", "dev", "remote"}
      <4>1. d.k \in {"resolv-retry", "nobind", "remote-cert-tls", "auth-nocache",
                     "ignore-unknown-option", "explicit-exit-notify",
                     "data-ciphers-fallback", "float", "reneg-sec"}
        BY <1>4, <3>4 DEF Tame, ProfileKeys
      <4>2. q = [r EXCEPT !.extra = Append(@, d)]
        BY <4>1 DEF ParseLine, Ignored, Columns, Folded
      <4>. HIDE DEF q
      <4>. QED
        BY <4>2 DEF PeerShape, ResultFields
    <3>. QED
      BY <3>1, <3>2, <3>3, <3>4
  <2>. HIDE DEF q
  <2>. QED
    BY <1>4, <2>1 DEF q, PeerShape
<1>. QED
  BY <1>1, <1>2, <1>3, <1>4

LEMMA PeerByAPI ==
    ASSUME NEW p, AllTame(p), Len(p) \in Nat, Len(p) # 0, p[1].k = "client"
    PROVE  Imported(p).role = "client" /\ Imported(p).static = FALSE
<1>. DEFINE n == Len(p)
            r == FoldLeft(ParseLine, NoResult, p)
<1>1. ASeq(p) /\ n \in Nat /\ DOMAIN p = 1..n
  BY Joined DEF AllTame
<1>2. PICK g : IsChain(g, "line", NoResult, p, n) /\ r = g[n]
  BY <1>1, LineChain
<1>. DEFINE Holds(i) == PeerShape(g[i]) /\ (i # 0 => g[i].role = "client")
            I == {i \in Nat : i <= n => Holds(i)}
<1>3. 0 \in I
  <2>1. NoResult.inline = <<>> /\ NoResult.role = Unset /\ NoResult.static = FALSE
        /\ DOMAIN NoResult = ResultFields
    BY DEF NoResult, ResultFields
  <2>2. AllTame(<<>>) /\ Keywords(<<>>) = {}
    BY TameEmpty, EmptyHasNone
  <2>3. DOMAIN <<>> = {}
    BY <2>2 DEF Keywords
  <2>. HIDE DEF NoResult
  <2>4. PeerShape(NoResult)
    BY <2>1, <2>3, EmptyIsSeq DEF PeerShape
  <2>. QED
    BY <1>2, <2>4 DEF IsChain
<1>4. ASSUME NEW i \in Nat, i \in I PROVE i + 1 \in I
  <2>. SUFFICES ASSUME i + 1 <= n PROVE Holds(i + 1)
    OBVIOUS
  <2>. HIDE DEF n
  <2>1. i + 1 \in 1..n /\ (i + 1) - 1 = i /\ i <= n
    BY <1>1
  <2>2. g[i + 1] = ParseLine(g[i], p[i + 1])
    BY <1>2, <2>1 DEF IsChain, Step
  <2>3. PeerShape(g[i]) /\ (i # 0 => g[i].role = "client")
    BY <1>4, <2>1
  <2>4. Tame(p[i + 1])
    BY <1>1, <2>1 DEF AllTame
  <2>5. i = 0 => p[i + 1].k = "client"
    OBVIOUS
  <2>. QED
    BY <2>2, <2>3, <2>4, <2>5, TameLine
<1>5. Nat \subseteq I
  <2>. HIDE DEF I
  <2>. QED
    BY <1>3, <1>4, NaturalsIn
<1>6. PeerShape(r) /\ r.role = "client"
  BY <1>1, <1>2, <1>5
<1>7. Parse(p) = [r EXCEPT !.role = InferredRole(r), !.extra = r.pushed \o r.extra]
  BY DEF Parse
<1>. HIDE DEF r
<1>. DEFINE q == Parse(p)
<1>8. PeerShape(q) /\ q.role = "client"
  <2>1. "client" # Unset
    BY ConfAssumption
  <2>2. InferredRole(r) = "client"
    BY <1>6, <2>1 DEF InferredRole
  <2>3. DOMAIN q = DOMAIN r /\ q.role = "client" /\ q.static = r.static /\ q.inline = r.inline
    BY <1>6, <1>7, <2>2 DEF PeerShape, ResultFields
  <2>. QED
    BY <1>6, <2>3 DEF PeerShape
<1>. HIDE DEF q, I, Holds
<1>. DEFINE b == q.inline
            l == Len(b)
            m == FoldLeft(Materialize1, q, b)
            Fine(x) == DOMAIN x = ResultFields /\ x.role = "client" /\ x.static = FALSE
<1>9. ASeq(b) /\ l \in Nat /\ DOMAIN b = 1..l
  BY <1>8, Joined DEF PeerShape
<1>10. PICK h : IsChain(h, "block", q, b, l) /\ m = h[l]
  BY <1>9, BlockChain
<1>. DEFINE J == {i \in Nat : i <= l => Fine(h[i])}
<1>11. 0 \in J
  BY <1>8, <1>10 DEF IsChain, PeerShape
<1>12. ASSUME NEW i \in Nat, i \in J PROVE i + 1 \in J
  <2>. SUFFICES ASSUME i + 1 <= l PROVE Fine(h[i + 1])
    <3>. HIDE DEF Fine, l
    <3>. QED
      OBVIOUS
  <2>. HIDE DEF l, b
  <2>1. i + 1 \in 1..l /\ (i + 1) - 1 = i /\ i <= l
    BY <1>9
  <2>2. h[i + 1] = Materialize1(h[i], b[i + 1])
    BY <1>10, <2>1 DEF IsChain, Step
  <2>3. Fine(h[i])
    BY <1>12, <2>1
  <2>4. b[i + 1].v[1] \in Tags
    BY <1>8, <1>9, <2>1 DEF PeerShape, b
  <2>5. h[i + 1] = [h[i] EXCEPT !.col[b[i + 1].v[1]] = b[i + 1].v[2]]
    BY <2>2, <2>4 DEF Materialize1, Tags
  <2>. QED
    BY <2>3, <2>5 DEF ResultFields
<1>13. Nat \subseteq J
  <2>. HIDE DEF J
  <2>. QED
    BY <1>11, <1>12, NaturalsIn
<1>14. Fine(m)
  BY <1>9, <1>10, <1>13
<1>15. Materialize(q) = [m EXCEPT !.inline = <<>>]
  BY DEF Materialize
<1>. HIDE DEF m
<1>. DEFINE u == Materialize(q)
<1>16. Fine(u)
  BY <1>14, <1>15 DEF ResultFields
<1>17. Imported(p) = [u EXCEPT !.extra = @ \o FoldedArgs(u.fold), !.fold = NoResult.fold]
  BY DEF Imported, ToCreateRequest, q
<1>. HIDE DEF u
<1>. QED
  BY <1>16, <1>17 DEF ResultFields

LEMMA PeerByConsole ==
    ASSUME NEW p, AllTame(p)
    PROVE  ConsoleImported(p).role = "client" /\ ConsoleImported(p).static = FALSE
<1>. DEFINE n == Len(p)
            r == FoldLeft(ConsoleLine, NoResult, p)
            m == FoldLeft(ConsoleBlock, r, p)
            Fine(x) == DOMAIN x = ResultFields /\ x.static = FALSE
<1>1. ASeq(p) /\ n \in Nat /\ DOMAIN p = 1..n
  BY Joined DEF AllTame
<1>2. PICK g : IsChain(g, "consoleLine", NoResult, p, n) /\ r = g[n]
  BY <1>1, ConsoleLineChain
<1>. DEFINE I == {i \in Nat : i <= n => Fine(g[i])}
<1>3. 0 \in I
  <2>1. NoResult.static = FALSE /\ DOMAIN NoResult = ResultFields
    BY DEF NoResult, ResultFields
  <2>. HIDE DEF NoResult
  <2>. QED
    BY <1>2, <2>1 DEF IsChain
<1>4. ASSUME NEW i \in Nat, i \in I PROVE i + 1 \in I
  <2>. SUFFICES ASSUME i + 1 <= n PROVE Fine(g[i + 1])
    <3>. HIDE DEF Fine, n
    <3>. QED
      OBVIOUS
  <2>. HIDE DEF n
  <2>1. i + 1 \in 1..n /\ (i + 1) - 1 = i /\ i <= n
    BY <1>1
  <2>2. g[i + 1] = ConsoleLine(g[i], p[i + 1])
    BY <1>2, <2>1 DEF IsChain, Step
  <2>3. Fine(g[i])
    BY <1>4, <2>1
  <2>4. Tame(p[i + 1])
    BY <1>1, <2>1 DEF AllTame
  <2>5. ASSUME NEW x, Fine(x), NEW d, Tame(d) PROVE Fine(ConsoleLine(x, d))
    <3>1. d.k # "secret"
      BY <2>5 DEF Tame, ProfileKeys
    <3>2. Fine(ParseRemote(x, d.v)) /\ Fine(ParseValue(x, d)) /\ Fine([x EXCEPT !.extra = Append(@, d)])
          /\ Fine([x EXCEPT !.col["dev-type"] = DevKind(d.v[1])])
      BY <2>5 DEF ParseRemote, ParseValue, ResultFields
    <3>3. \/ ConsoleLine(x, d) = x
          \/ ConsoleLine(x, d) = ParseRemote(x, d.v)
          \/ ConsoleLine(x, d) = ParseValue(x, d)
          \/ ConsoleLine(x, d) = [x EXCEPT !.extra = Append(@, d)]
          \/ ConsoleLine(x, d) = [x EXCEPT !.col["dev-type"] = DevKind(d.v[1])]
      BY <3>1 DEF ConsoleLine
    <3>. HIDE DEF Fine
    <3>. QED
      BY <2>5, <3>2, <3>3
  <2>. HIDE DEF Fine
  <2>. QED
    BY <2>2, <2>3, <2>4, <2>5
<1>5. Nat \subseteq I
  <2>. HIDE DEF I
  <2>. QED
    BY <1>3, <1>4, NaturalsIn
<1>6. Fine(r)
  BY <1>1, <1>2, <1>5
<1>. HIDE DEF r
<1>7. PICK h : IsChain(h, "consoleBlock", r, p, n) /\ m = h[n]
  BY <1>1, ConsoleBlockChain
<1>. DEFINE J == {i \in Nat : i <= n => Fine(h[i])}
<1>8. 0 \in J
  BY <1>6, <1>7 DEF IsChain
<1>9. ASSUME NEW i \in Nat, i \in J PROVE i + 1 \in J
  <2>. SUFFICES ASSUME i + 1 <= n PROVE Fine(h[i + 1])
    <3>. HIDE DEF Fine, n
    <3>. QED
      OBVIOUS
  <2>. HIDE DEF n
  <2>1. i + 1 \in 1..n /\ (i + 1) - 1 = i /\ i <= n
    BY <1>1
  <2>2. h[i + 1] = ConsoleBlock(h[i], p[i + 1])
    BY <1>7, <2>1 DEF IsChain, Step
  <2>3. Fine(h[i])
    BY <1>9, <2>1
  <2>4. Tame(p[i + 1])
    BY <1>1, <2>1 DEF AllTame
  <2>5. h[i + 1] = h[i] \/ h[i + 1] = [h[i] EXCEPT !.col[p[i + 1].v[1]] = p[i + 1].v[2]]
    BY <2>2, <2>4 DEF ConsoleBlock, Materialize1, Tame
  <2>. QED
    BY <2>3, <2>5 DEF ResultFields
<1>10. Nat \subseteq J
  <2>. HIDE DEF J
  <2>. QED
    BY <1>8, <1>9, NaturalsIn
<1>11. Fine(m)
  BY <1>1, <1>7, <1>10
<1>12. ConsoleImported(p) = [m EXCEPT !.role = "client"]
  BY DEF ConsoleImported, r
<1>. HIDE DEF m
<1>. QED
  BY <1>11, <1>12 DEF ResultFields

(* Whatever the row: a profile of it is a client with certificates wherever  *)
(* it is imported.                                                           *)
LEMMA PeerIsClient ==
    ASSUME NEW i, NEW api \in BOOLEAN
    PROVE  LET p == RenderClientProfile(i)
               q == Prepared(IF api THEN Imported(p) ELSE ConsoleImported(p))
           IN q.role = "client" /\ ~q.static
<1>. DEFINE p == RenderClientProfile(i)
            r == IF api THEN Imported(p) ELSE ConsoleImported(p)
<1>1. AllTame(p) /\ Len(p) \in Nat /\ Len(p) # 0 /\ p[1].k = "client"
  BY ProfileIsTame
<1>. HIDE DEF p
<1>2. r.role = "client" /\ r.static = FALSE
  BY <1>1, PeerByAPI, PeerByConsole
<1>. HIDE DEF r
<1>3. Prepared(r).role = r.role /\ Prepared(r).static = r.static
  BY DEF Prepared
<1>. QED
  BY <1>2, <1>3 DEF p, r

------------------------------------------------------------------------------
(* What is rendered and handed out is that of the row as it is; what is to   *)
(* be adopted is a configuration.                                            *)
RoundsOK == rounds \in 0..MaxRounds
ConfOK == conf # NoConf => ASeq(conf)
RowOK ==
    row # NoRow => RowShape(row) /\ \A k \in Folded : row.typed[k] # Unset => rounds > 0
FileOK == file # NoConf => row # NoRow /\ file = RenderInstance(row)
ProfileOK == profile # NoConf => row # NoRow /\ profile = RenderClientProfile(row)
PeerOK == peer # NoRow => peer.role = "client" /\ ~peer.static

ConfInv == RoundsOK /\ ConfOK /\ RowOK /\ FileOK /\ ProfileOK /\ PeerOK

LEMMA ConfigurationsAreSeqs == \A c \in Confs \cup Features : ASeq(c)
BY ConfAssumption DEF ASeq

LEMMA InitConfInv == Init => ConfInv
<1>. SUFFICES ASSUME Init PROVE ConfInv
  OBVIOUS
<1>1. ConfOK
  BY ConfigurationsAreSeqs DEF Init, ConfOK
<1>2. RoundsOK
  BY ConfAssumption DEF Init, RoundsOK
<1>. QED
  BY <1>1, <1>2 DEF Init, ConfInv, RowOK, FileOK, ProfileOK, PeerOK

LEMMA AdoptConfInv ==
    ASSUME ConfInv, Adopt
    PROVE  ConfInv'
<1>. DEFINE request == Imported(conf)
<1>1. /\ row = NoRow /\ conf # NoConf /\ ~Rejected(request) /\ row' = Prepared(request)
      /\ UNCHANGED <<conf, file, profile, peer, rounds>>
  BY DEF Adopt
<1>2. ResultShape(request)
  BY <1>1, ImportedShape DEF ConfInv, ConfOK
<1>. HIDE DEF request
<1>3. RowShape(row') /\ row'.typed = NoResult.fold
  BY <1>1, <1>2, PreparedShape
<1>4. \A k \in Folded : row'.typed[k] = Unset
  BY <1>3 DEF NoResult
<1>5. RowOK'
  BY <1>3, <1>4 DEF RowOK
<1>6. file' = NoConf /\ profile' = NoConf
  BY <1>1 DEF ConfInv, FileOK, ProfileOK
<1>. QED
  BY <1>1, <1>5, <1>6 DEF ConfInv, RoundsOK, ConfOK, FileOK, ProfileOK, PeerOK

LEMMA RenderConfInv ==
    ASSUME ConfInv, Render
    PROVE  ConfInv'
BY DEF Render, ConfInv, RoundsOK, ConfOK, RowOK, FileOK, ProfileOK, PeerOK

(* A step of a round: what was rendered and handed out is gone.              *)
LEMMA RoundConfInv ==
    ASSUME ConfInv, rounds < MaxRounds, rounds' = rounds + 1,
           file' = NoConf, profile' = NoConf, peer' = NoRow, ConfOK', RowOK'
    PROVE  ConfInv'
<1>1. RoundsOK'
  BY ConfAssumption DEF ConfInv, RoundsOK
<1>. QED
  BY <1>1 DEF ConfInv, FileOK, ProfileOK, PeerOK

LEMMA PatchConfInv ==
    ASSUME ConfInv, NEW p \in Patches, Patch(p)
    PROVE  ConfInv'
<1>1. /\ row # NoRow /\ rounds < MaxRounds /\ rounds' = rounds + 1
      /\ row' = IF p.k \in Columns THEN [row EXCEPT !.col[p.k] = p.v]
                ELSE [row EXCEPT !.typed[p.k] = p.v]
      /\ conf' = NoConf /\ file' = NoConf /\ profile' = NoConf /\ peer' = NoRow
  BY DEF Patch
<1>2. RowShape(row)
  BY <1>1 DEF ConfInv, RowOK
<1>3. RowShape(row')
  <2>1. /\ DOMAIN row' = DOMAIN row /\ row'.role = row.role /\ row'.remotes = row.remotes
        /\ row'.network = row.network /\ row'.routes = row.routes /\ row'.dns = row.dns
        /\ row'.plugins = row.plugins /\ row'.extra = row.extra /\ DOMAIN row'.col = DOMAIN row.col
        /\ row'.features = row.features
    BY <1>1, <1>2 DEF RowShape, RowFields
  <2>. HIDE DEF RowFields, Taken, Control
  <2>. QED
    BY <1>2, <2>1 DEF RowShape
<1>4. rounds' > 0
  BY <1>1, ConfAssumption DEF ConfInv, RoundsOK
<1>5. RowOK' /\ ConfOK'
  BY <1>1, <1>3, <1>4 DEF RowOK, ConfOK
<1>. QED
  BY <1>1, <1>5, RoundConfInv

LEMMA FeatureConfInv ==
    ASSUME ConfInv, NEW f \in Features, AddFeature(f)
    PROVE  ConfInv'
<1>1. /\ row # NoRow /\ rounds < MaxRounds /\ rounds' = rounds + 1
      /\ row' = [row EXCEPT !.features = @ \o f]
      /\ conf' = NoConf /\ file' = NoConf /\ profile' = NoConf /\ peer' = NoRow
  BY DEF AddFeature
<1>2. RowShape(row)
  BY <1>1 DEF ConfInv, RowOK
<1>3. ASeq(f)
  BY ConfigurationsAreSeqs
<1>4. ASeq(row.features \o f)
  BY <1>2, <1>3, KeywordsJoined DEF RowShape
<1>5. RowShape(row')
  <2>1. /\ DOMAIN row' = DOMAIN row /\ row'.role = row.role /\ row'.remotes = row.remotes
        /\ row'.network = row.network /\ row'.routes = row.routes /\ row'.dns = row.dns
        /\ row'.plugins = row.plugins /\ row'.extra = row.extra /\ DOMAIN row'.col = DOMAIN row.col
        /\ row'.features = row.features \o f
    BY <1>1, <1>2 DEF RowShape, RowFields
  <2>. HIDE DEF RowFields, Taken, Control
  <2>. QED
    BY <1>2, <1>3, <1>4, <2>1 DEF RowShape
<1>6. rounds' > 0
  BY <1>1, ConfAssumption DEF ConfInv, RoundsOK
<1>7. RowOK' /\ ConfOK'
  BY <1>1, <1>5, <1>6 DEF RowOK, ConfOK
<1>. QED
  BY <1>1, <1>7, RoundConfInv

LEMMA LoseDatabaseConfInv ==
    ASSUME ConfInv, LoseDatabase
    PROVE  ConfInv'
<1>1. /\ file # NoConf /\ rounds < MaxRounds /\ rounds' = rounds + 1 /\ conf' = file
      /\ row' = NoRow /\ file' = NoConf /\ profile' = NoConf /\ peer' = NoRow
  BY DEF LoseDatabase
<1>2. ASeq(file)
  BY <1>1, RenderedControl DEF ConfInv, FileOK, RowOK
<1>3. RowOK' /\ ConfOK'
  BY <1>1, <1>2 DEF RowOK, ConfOK
<1>. QED
  BY <1>1, <1>3, RoundConfInv

LEMMA HandOutConfInv ==
    ASSUME ConfInv, HandOut
    PROVE  ConfInv'
BY DEF HandOut, ConfInv, RoundsOK, ConfOK, RowOK, FileOK, ProfileOK, PeerOK

LEMMA ImportProfileConfInv ==
    ASSUME ConfInv, NEW api \in BOOLEAN, ImportProfile(api)
    PROVE  ConfInv'
<1>1. /\ profile # NoConf
      /\ peer' = Prepared(IF api THEN Imported(profile) ELSE ConsoleImported(profile))
      /\ UNCHANGED <<conf, row, file, profile, rounds>>
  BY DEF ImportProfile
<1>2. profile = RenderClientProfile(row)
  BY <1>1 DEF ConfInv, ProfileOK
<1>3. PeerOK'
  BY <1>1, <1>2, PeerIsClient DEF PeerOK
<1>. QED
  BY <1>1, <1>3 DEF ConfInv, RoundsOK, ConfOK, RowOK, FileOK, ProfileOK

LEMMA NextConfInv ==
    ASSUME ConfInv, [Next]_vars
    PROVE  ConfInv'
<1>1. CASE Adopt
  BY <1>1, AdoptConfInv
<1>2. CASE Render
  BY <1>2, RenderConfInv
<1>3. CASE LoseDatabase
  BY <1>3, LoseDatabaseConfInv
<1>4. CASE HandOut
  BY <1>4, HandOutConfInv
<1>5. CASE \E p \in Patches : Patch(p)
  BY <1>5, PatchConfInv
<1>6. CASE \E f \in Features : AddFeature(f)
  BY <1>6, FeatureConfInv
<1>7. CASE \E api \in BOOLEAN : ImportProfile(api)
  BY <1>7, ImportProfileConfInv
<1>8. CASE UNCHANGED vars
  BY <1>8 DEF vars, ConfInv, RoundsOK, ConfOK, RowOK, FileOK, ProfileOK, PeerOK
<1>. QED
  BY <1>1, <1>2, <1>3, <1>4, <1>5, <1>6, <1>7, <1>8 DEF Next

LEMMA ConfInvariant == Spec => []ConfInv
<1>1. ConfInv /\ [Next]_vars => ConfInv'
  BY NextConfInv
<1>. QED
  BY <1>1, InitConfInv, PTL DEF Spec

(* Prepared rows are of one role and have what it needs, however many lines  *)
(* a configuration has, and a profile never makes a server, or a client      *)
(* without certificates, of the node that imports it (instance.Prepare,      *)
(* confimport.Parse, tui parseClientProfile).                                *)
THEOREM RowsAreOfOneRole == Spec => []TypeOK
<1>1. ConfInv => TypeOK
  BY DEF ConfInv, RoundsOK, RowOK, PeerOK, RowShape, TypeOK
<1>. QED
  BY <1>1, ConfInvariant, PTL

BareFeatures == row # NoRow => Keywords(row.features) \cap Control = {}

LEMMA NextBareFeatures ==
    ASSUME FeaturesLeaveControl, ConfInv, BareFeatures, [Next]_vars
    PROVE  BareFeatures'
<1>1. CASE Adopt
  <2>1. ResultShape(Imported(conf)) /\ ~Rejected(Imported(conf))
        /\ row' = Prepared(Imported(conf))
    BY <1>1, ImportedShape DEF Adopt, ConfInv, ConfOK
  <2>2. row'.features = <<>>
    BY <2>1, PreparedShape
  <2>. HIDE DEF Control
  <2>. QED
    BY <2>2, EmptyHasNone DEF BareFeatures
<1>2. CASE \E p \in Patches : Patch(p)
  <2>1. row # NoRow /\ RowShape(row)
    BY <1>2 DEF Patch, ConfInv, RowOK
  <2>2. row'.features = row.features
    BY <1>2, <2>1 DEF Patch, RowShape, RowFields
  <2>. HIDE DEF Control
  <2>. QED
    BY <2>1, <2>2 DEF BareFeatures
<1>3. CASE \E f \in Features : AddFeature(f)
  <2>1. PICK f \in Features : AddFeature(f)
    BY <1>3
  <2>2. row # NoRow /\ RowShape(row) /\ ASeq(f)
    BY <2>1, ConfigurationsAreSeqs DEF AddFeature, ConfInv, RowOK
  <2>3. row'.features = row.features \o f
    BY <2>1, <2>2 DEF AddFeature, RowShape, RowFields
  <2>4. Keywords(row.features \o f) = Keywords(row.features) \cup Keywords(f)
    BY <2>2, KeywordsJoined DEF RowShape
  <2>. HIDE DEF Control
  <2>. QED
    BY <2>2, <2>3, <2>4 DEF BareFeatures, FeaturesLeaveControl
<1>4. CASE LoseDatabase
  BY <1>4 DEF LoseDatabase, BareFeatures
<1>5. CASE UNCHANGED row
  BY <1>5 DEF BareFeatures
<1>. QED
  BY <1>1, <1>2, <1>3, <1>4, <1>5 DEF Next, Render, HandOut, ImportProfile, vars

(* Whatever was adopted, in whatever order its lines are: the management     *)
(* socket, the pid file and the status file of the process are the daemon's  *)
(* (confgen.RenderInstance, the prefixes confimport drops).                  *)
THEOREM DaemonKeepsControl ==
    ASSUME FeaturesLeaveControl
    PROVE  Spec => []OursControl
<1>1. Init => BareFeatures
  BY DEF Init, BareFeatures
<1>2. BareFeatures /\ ConfInv /\ [Next]_vars => BareFeatures'
  BY NextBareFeatures
<1>3. ConfInv /\ BareFeatures => OursControl
  <2>. SUFFICES ASSUME ConfInv, BareFeatures, file # NoConf PROVE OursControl
    BY DEF OursControl
  <2>1. row # NoRow /\ RowShape(row) /\ file = RenderInstance(row)
    BY DEF ConfInv, FileOK, RowOK
  <2>2. Keywords(row.features) \cap Control = {}
    BY <2>1 DEF BareFeatures
  <2>. QED
    BY <2>1, <2>2, RenderedControl DEF OursControl
<1>. QED
  BY <1>1, <1>2, <1>3, ConfInvariant, PTL DEF Spec

------------------------------------------------------------------------------
(* What a rendered file says of the transport                                *)

(* The only line for a keyword, or none.                                     *)
Gives(s, k, v) ==
    /\ ASeq(s)
    /\ IF v = Unset THEN k \notin Keywords(s) ELSE k \in Keywords(s) /\ Value(s, k) = <<v>>
Words(v) == IF v = Unset THEN Unset ELSE <<v>>

LEMMA GivesWords ==
    ASSUME NEW s, NEW k, NEW v, Gives(s, k, v)
    PROVE  Value(s, k) = Words(v)
BY NothingTold DEF Gives, Words

LEMMA GivesArg ==
    ASSUME NEW k, NEW v, NEW l
    PROVE  Gives(Arg(l, v), k, IF k = l THEN v ELSE Unset)
<1>1. CASE v = Unset
  BY <1>1, EmptyIsSeq, EmptyHasNone DEF Gives, Arg
<1>2. CASE v # Unset
  BY <1>2, ArgFacts DEF Gives
<1>. QED
  BY <1>1, <1>2

LEMMA GivesNone ==
    ASSUME NEW s, NEW K, Within(s, K), NEW k, k \notin K
    PROVE  Gives(s, k, Unset)
BY DEF Gives, Within

LEMMA GivesJoined ==
    ASSUME NEW s, NEW t, NEW k, NEW v, NEW w, Gives(s, k, v), Gives(t, k, w),
           v = Unset \/ w = Unset
    PROVE  Gives(s \o t, k, IF v = Unset THEN w ELSE v)
<1>1. ASeq(s) /\ ASeq(t) /\ ASeq(s \o t) /\ Keywords(s \o t) = Keywords(s) \cup Keywords(t)
  BY KeywordsJoined DEF Gives
<1>2. CASE v = Unset /\ w = Unset
  BY <1>1, <1>2 DEF Gives
<1>3. CASE v = Unset /\ w # Unset
  BY <1>1, <1>3, ValueOfLater DEF Gives
<1>4. CASE v # Unset /\ w = Unset
  BY <1>1, <1>4, ValueOfEarlier DEF Gives
<1>. QED
  BY <1>2, <1>3, <1>4

(* The part every file begins with, by the columns of its row.              *)
LEMMA HeadGives ==
    ASSUME NEW i, RowParts(i), NEW k \in Transport
    PROVE  Gives(RenderHead(i), k, IF k = "proto" THEN Or(i.col["proto"], "udp") ELSE Unset)
<1>1. k # "proto" => k \notin HeadKeys
  BY DEF Transport, HeadKeys
<1>2. CASE k # "proto"
  BY <1>1, <1>2, HeadWithin, GivesNone
<1>3. CASE k = "proto"
  <2>. DEFINE dev == IF i.col["device"] # Unset
                     THEN Arg("dev", i.col["device"]) \o Arg("dev-type", Or(i.col["dev-type"], "tun"))
                     ELSE Arg("dev", Or(i.col["dev-type"], "tun"))
              proto == Arg("proto", Or(i.col["proto"], "udp"))
              local == IF i.col["local"] # Unset THEN Arg("local", i.col["local"])
                       ELSE IF i.role = "server" /\ Or(i.col["proto"], "udp") \in {"udp", "udp4", "udp6"}
                       THEN Flag("multihome") ELSE <<>>
              K == {"plugin", "dev", "dev-type", "local", "multihome"}
              v == Or(i.col["proto"], "udp")
  <2>1. Within(i.plugins, K)
    BY DEF RowParts, Within
  <2>2. \A w : /\ Within(Arg("dev", w), K) /\ Within(Arg("dev-type", w), K)
               /\ Within(Arg("local", w), K) /\ Within(Flag("multihome"), K) /\ Within(<<>>, K)
    <3>1. "dev" \in K /\ "dev-type" \in K /\ "local" \in K /\ "multihome" \in K
      OBVIOUS
    <3>. HIDE DEF K
    <3>. QED
      BY <3>1, WithinArg, WithinEmpty
  <2>3. "proto" \notin K
    OBVIOUS
  <2>. HIDE DEF K
  <2>4. Within(dev, K)
    <3>1. \A w, u : Within(Arg("dev", w) \o Arg("dev-type", u), K)
      BY <2>2, WithinJoined
    <3>. QED
      BY <2>2, <3>1
  <2>5. Within(local, K)
    BY <2>2
  <2>6. Gives(proto, k, v)
    BY <1>3, GivesArg
  <2>7. RenderHead(i) = ((i.plugins \o dev) \o proto) \o local
    BY DEF RenderHead
  <2>. HIDE DEF dev, proto, local, v
  <2>8. Gives(i.plugins \o dev, k, Unset)
    BY <1>3, <2>1, <2>3, <2>4, WithinJoined, GivesNone
  <2>9. Gives((i.plugins \o dev) \o proto, k, v)
    BY <2>6, <2>8, GivesJoined
  <2>10. Gives(local, k, Unset)
    BY <1>3, <2>3, <2>5, GivesNone
  <2>11. Gives(RenderHead(i), k, v)
    BY <2>7, <2>9, <2>10, GivesJoined
  <2>. QED
    BY <1>3, <2>11 DEF v
<1>. QED
  BY <1>2, <1>3

(* The first line of a server's part is its port.                            *)
LEMMA ServerGives ==
    ASSUME NEW i, RowParts(i), NEW k \in Transport
    PROVE  Gives(RenderServer(i), k, IF k = "port" THEN Or(i.col["port"], "1194") ELSE Unset)
<1>1. CASE k # "port"
  <2>1. k \notin ServerKeys \cup {"client-config-dir"}
    BY <1>1 DEF Transport, ServerKeys
  <2>. QED
    BY <1>1, <2>1, ServerTells, GivesNone
<1>2. CASE k = "port"
  <2>. DEFINE port == Arg("port", Or(i.col["port"], "1194"))
              mode == Arg("mode", "server")
              tls == Flag("tls-server")
              server == Arg("server", i.network)
              topology == Arg("topology", Or(i.col["topology"], "subnet"))
              ccd == Arg("client-config-dir", "ours")
              exclusive == Flag("ccd-exclusive")
              routes == Each(i.routes, LAMBDA n : D("push", <<"route", n>>))
              dns == Each(i.dns, LAMBDA a : D("push", <<"DNS", a>>))
              domain == IF i.domain = Unset THEN <<>> ELSE <<D("push", <<"DOMAIN", i.domain>>)>>
              redirect == IF i.redirect THEN <<D("push", <<"redirect-gateway", "def1">>)>> ELSE <<>>
              duplicate == Flag("duplicate-cn")
              K == (ServerKeys \cup {"client-config-dir"}) \ {"port"}
              v == Or(i.col["port"], "1194")
  <2>1. /\ "mode" \in K /\ "tls-server" \in K /\ "server" \in K /\ "topology" \in K
        /\ "client-config-dir" \in K /\ "ccd-exclusive" \in K /\ "push" \in K
        /\ "duplicate-cn" \in K
    BY DEF ServerKeys
  <2>2. "port" \notin K
    OBVIOUS
  <2>. HIDE DEF K
  <2>3. /\ Within(mode, K) /\ Within(tls, K) /\ Within(server, K) /\ Within(topology, K)
        /\ Within(ccd, K) /\ Within(exclusive, K) /\ Within(duplicate, K)
    BY <2>1, WithinArg
  <2>4. Within(routes, K)
    <3>1. routes = [j \in DOMAIN i.routes |-> D("push", <<"route", i.routes[j]>>)]
      BY DEF Each
    <3>. HIDE DEF routes
    <3>2. \A j \in DOMAIN i.routes : routes[j].k \in K
      BY <2>1, <3>1 DEF D
    <3>3. routes = [j \in DOMAIN i.routes |-> routes[j]] /\ ASeq(i.routes)
      BY <3>1 DEF RowParts
    <3>. QED
      BY <3>2, <3>3, WithinEach
  <2>5. Within(dns, K)
    <3>1. dns = [j \in DOMAIN i.dns |-> D("push", <<"DNS", i.dns[j]>>)]
      BY DEF Each
    <3>. HIDE DEF dns
    <3>2. \A j \in DOMAIN i.dns : dns[j].k \in K
      BY <2>1, <3>1 DEF D
    <3>3. dns = [j \in DOMAIN i.dns |-> dns[j]] /\ ASeq(i.dns)
      BY <3>1 DEF RowParts
    <3>. QED
      BY <3>2, <3>3, WithinEach
  <2>6. Within(domain, K) /\ Within(redirect, K)
    <3>1. \A w : Within(<<D("push", w)>>, K)
      BY <2>1, WithinOne DEF D
    <3>. QED
      BY <3>1, WithinEmpty
  <2>7. Gives(port, k, v)
    BY <1>2, GivesArg
  <2>8. RenderServer(i) =
          ((((((((((port \o mode) \o tls) \o server) \o topology) \o ccd) \o exclusive)
              \o routes) \o dns) \o domain) \o redirect) \o duplicate
    BY DEF RenderServer
  <2>. HIDE DEF port, mode, tls, server, topology, ccd, exclusive, routes, dns, domain,
                redirect, duplicate, v
  <2>9. \A s, t : Gives(s, k, v) /\ Within(t, K) => Gives(s \o t, k, v)
    <3>1. \A t : Within(t, K) => Gives(t, k, Unset)
      BY <1>2, <2>2, GivesNone
    <3>2. ASSUME NEW s, NEW t, Gives(s, k, v), Gives(t, k, Unset) PROVE Gives(s \o t, k, v)
      <4>1. Gives(s \o t, k, IF v = Unset THEN Unset ELSE v)
        BY <3>2, GivesJoined
      <4>. QED
        BY <4>1
    <3>. QED
      BY <3>1, <3>2
  <2>. DEFINE s4 == (((port \o mode) \o tls) \o server) \o topology
              s8 == (((s4 \o ccd) \o exclusive) \o routes) \o dns
              s11 == ((s8 \o domain) \o redirect) \o duplicate
  <2>10. Gives(s4, k, v)
    BY <2>3, <2>7, <2>9
  <2>. HIDE DEF s4
  <2>11. Gives(s8, k, v)
    BY <2>3, <2>4, <2>5, <2>9, <2>10
  <2>. HIDE DEF s8
  <2>12. Gives(s11, k, v)
    BY <2>3, <2>6, <2>9, <2>11
  <2>. QED
    BY <1>2, <2>8, <2>12 DEF v, s4, s8, s11
<1>. QED
  BY <1>1, <1>2

(* The files of the certificates and keys.                                  *)
LEMMA CryptoGives ==
    ASSUME NEW i, ~i.static, NEW k \in Transport
    PROVE  Gives(RenderCrypto(i), k, IF k \in {"ca", "tls-crypt"} THEN i.col[k] ELSE Unset)
<1>1. CASE k \notin {"ca", "tls-crypt"}
  <2>1. k \notin CryptoKeys
    BY <1>1 DEF Transport, CryptoKeys
  <2>. QED
    BY <1>1, <2>1, CryptoWithin, GivesNone
<1>2. CASE k \in {"ca", "tls-crypt"}
  <2>. DEFINE a == Arg("ca", i.col["ca"]) b == Arg("cert", i.col["cert"])
              c == Arg("key", i.col["key"])
              d == IF i.role = "server" THEN Arg("dh", Or(i.col["dh"], "none")) ELSE <<>>
              e == Arg("tls-crypt", i.col["tls-crypt"]) f == Arg("tls-auth", i.col["tls-auth"])
              va == IF k = "ca" THEN i.col["ca"] ELSE Unset
              ve == IF k = "tls-crypt" THEN i.col["tls-crypt"] ELSE Unset
  <2>1. Gives(a, k, va) /\ Gives(e, k, ve)
    BY GivesArg
  <2>2. Gives(b, k, Unset) /\ Gives(c, k, Unset) /\ Gives(f, k, Unset)
    <3>1. k # "cert" /\ k # "key" /\ k # "tls-auth"
      BY <1>2
    <3>2. \A l, v : k # l => Gives(Arg(l, v), k, Unset)
      <4>1. \A l, v : Gives(Arg(l, v), k, IF k = l THEN v ELSE Unset)
        BY GivesArg
      <4>. QED
        BY <4>1
    <3>. QED
      BY <3>1, <3>2
  <2>3. Gives(d, k, Unset)
    <3>1. k # "dh"
      BY <1>2
    <3>2. \A v : Within(Arg("dh", v), {"dh"}) /\ Within(<<>>, {"dh"})
      BY WithinArg, WithinEmpty
    <3>3. Within(d, {"dh"})
      BY <3>2
    <3>. HIDE DEF d
    <3>. QED
      BY <3>1, <3>3, GivesNone
  <2>4. RenderCrypto(i) = ((((a \o b) \o c) \o d) \o e) \o f
    BY DEF RenderCrypto
  <2>5. va = Unset \/ ve = Unset
    OBVIOUS
  <2>6. (IF va = Unset THEN ve ELSE va) = i.col[k]
    BY <1>2
  <2>. HIDE DEF a, b, c, d, e, f, va, ve
  <2>. DEFINE s == ((a \o b) \o c) \o d
  <2>7. Gives(a \o b, k, va)
    <3>1. Gives(a \o b, k, IF va = Unset THEN Unset ELSE va)
      BY <2>1, <2>2, GivesJoined
    <3>. QED
      BY <3>1
  <2>8. Gives((a \o b) \o c, k, va)
    <3>1. Gives((a \o b) \o c, k, IF va = Unset THEN Unset ELSE va)
      BY <2>2, <2>7, GivesJoined
    <3>. QED
      BY <3>1
  <2>9. Gives(s, k, va)
    <3>1. Gives(s, k, IF va = Unset THEN Unset ELSE va)
      BY <2>3, <2>8, GivesJoined
    <3>. QED
      BY <3>1
  <2>. HIDE DEF s
  <2>10. Gives(s \o e, k, i.col[k])
    BY <2>1, <2>5, <2>6, <2>9, GivesJoined
  <2>11. Gives((s \o e) \o f, k, i.col[k])
    <3>1. Gives((s \o e) \o f, k, IF i.col[k] = Unset THEN Unset ELSE i.col[k])
      BY <2>2, <2>10, GivesJoined
    <3>. QED
      BY <3>1
  <2>. QED
    BY <1>2, <2>4, <2>11 DEF s
<1>. QED
  BY <1>1, <1>2

(* Ciphers and digest, each as its column has it.                           *)
LEMMA CiphersGive ==
    ASSUME NEW i, NEW k \in Transport
    PROVE  Gives(RenderCiphers(i), k, IF k \in CipherKeys THEN i.col[k] ELSE Unset)
<1>1. CASE k \notin CipherKeys
  BY <1>1, CryptoWithin, GivesNone
<1>2. CASE k \in CipherKeys
  <2>. DEFINE a == Arg("cipher", i.col["cipher"]) b == Arg("data-ciphers", i.col["data-ciphers"])
              c == Arg("auth", i.col["auth"])
              va == IF k = "cipher" THEN i.col["cipher"] ELSE Unset
              vb == IF k = "data-ciphers" THEN i.col["data-ciphers"] ELSE Unset
              vc == IF k = "auth" THEN i.col["auth"] ELSE Unset
              vab == IF va = Unset THEN vb ELSE va
  <2>1. Gives(a, k, va) /\ Gives(b, k, vb) /\ Gives(c, k, vc)
    BY GivesArg
  <2>2. RenderCiphers(i) = (a \o b) \o c
    BY DEF RenderCiphers
  <2>3. /\ va = Unset \/ vb = Unset
        /\ vab = Unset \/ vc = Unset
        /\ (IF vab = Unset THEN vc ELSE vab) = i.col[k]
    BY <1>2 DEF CipherKeys
  <2>. HIDE DEF a, b, c, va, vb, vc
  <2>4. Gives(a \o b, k, vab)
    BY <2>1, <2>3, GivesJoined
  <2>. HIDE DEF vab
  <2>5. Gives((a \o b) \o c, k, i.col[k])
    BY <2>1, <2>3, <2>4, GivesJoined
  <2>. QED
    BY <1>2, <2>2, <2>5
<1>. QED
  BY <1>1, <1>2

(* What a row's file says of the transport is what its columns say.          *)
Quiet(i) == Keywords(i.extra) \cap Transport = {} /\ Keywords(i.features) \cap Transport = {}

LEMMA RenderedFit ==
    ASSUME NEW i, RowParts(i), Quiet(i)
    PROVE  LET f == RenderInstance(i) IN
           /\ Value(f, "proto") = <<Or(i.col["proto"], "udp")>>
           /\ i.role = "server" => Value(f, "port") = <<Or(i.col["port"], "1194")>>
           /\ ~i.static => \A k \in {"ca", "tls-crypt", "cipher", "data-ciphers", "auth"} :
                               Value(f, k) = Words(i.col[k])
<1>. DEFINE head == RenderHead(i)
            body == IF i.role = "server" THEN RenderServer(i) ELSE RenderClient(i)
            crypto == RenderCrypto(i)
            ciphers == RenderCiphers(i)
            typed == RenderTyped(i)
            owned == RenderOwned
            rest == Expand(i)
            proto == Or(i.col["proto"], "udp")
            port == Or(i.col["port"], "1194")
            f == (((((head \o body) \o crypto) \o ciphers) \o typed) \o owned) \o rest
<1>1. RenderInstance(i) = f
  BY DEF RenderInstance
<1>2. proto # Unset /\ port # Unset
  BY ConfAssumption DEF Or
<1>3. \A k \in Transport : /\ Gives(head, k, IF k = "proto" THEN proto ELSE Unset)
                           /\ Gives(ciphers, k, IF k \in CipherKeys THEN i.col[k] ELSE Unset)
                           /\ ~i.static => Gives(crypto, k, IF k \in {"ca", "tls-crypt"}
                                                          THEN i.col[k] ELSE Unset)
  BY HeadGives, CiphersGive, CryptoGives
<1>4. \A k \in Transport : k \notin {"ca", "tls-crypt"} => Gives(crypto, k, Unset)
  <2>1. \A k \in Transport : k \notin {"ca", "tls-crypt"} => k \notin CryptoKeys
    BY DEF Transport, CryptoKeys
  <2>. QED
    BY <2>1, CryptoWithin, GivesNone
<1>5. \A k \in Transport : Gives(typed, k, Unset) /\ Gives(owned, k, Unset)
  <2>1. \A k \in Transport : k \notin Folded /\ k \notin OwnedKeys
    BY DEF Transport, Folded, OwnedKeys
  <2>. QED
    BY <2>1, CryptoWithin, OwnedWithin, GivesNone
<1>6. \A k \in Transport : Gives(rest, k, Unset)
  <2>1. ASeq(rest) /\ Keywords(rest) = Keywords(i.extra) \cup Keywords(i.features)
    BY KeywordsJoined DEF Expand, RowParts
  <2>. QED
    BY <2>1 DEF Gives, Quiet
<1>7. /\ \A k \in Transport : k \notin {"port", "remote"} => Gives(body, k, Unset)
      /\ i.role = "server" => Gives(body, "port", port)
  <2>1. CASE i.role = "server"
    <3>1. "port" \in Transport
      BY DEF Transport
    <3>. QED
      BY <2>1, <3>1, ServerGives
  <2>2. CASE i.role # "server"
    <3>1. \A k \in Transport : k \notin {"port", "remote"} => k \notin ClientKeys
      BY DEF Transport, ClientKeys
    <3>2. Within(body, ClientKeys)
      BY <2>2, ClientWithin
    <3>. HIDE DEF body
    <3>. QED
      BY <2>2, <3>1, <3>2, GivesNone
  <2>. QED
    BY <2>1, <2>2
<1>. HIDE DEF head, body, crypto, ciphers, typed, owned, rest, proto, port
<1>8. ASSUME NEW s, NEW t, NEW k, NEW v, Gives(s, k, v), Gives(t, k, Unset)
      PROVE  Gives(s \o t, k, v)
  <2>1. Gives(s \o t, k, IF v = Unset THEN Unset ELSE v)
    BY <1>8, GivesJoined
  <2>. QED
    BY <2>1
<1>9. ASSUME NEW s, NEW t, NEW k, NEW v, Gives(s, k, Unset), Gives(t, k, v)
      PROVE  Gives(s \o t, k, v)
  BY <1>9, GivesJoined
<1>10. Value(f, "proto") = <<proto>>
  <2>1. /\ Gives(head, "proto", proto) /\ Gives(body, "proto", Unset)
        /\ Gives(crypto, "proto", Unset) /\ Gives(ciphers, "proto", Unset)
        /\ Gives(typed, "proto", Unset) /\ Gives(owned, "proto", Unset)
        /\ Gives(rest, "proto", Unset)
    BY <1>3, <1>4, <1>5, <1>6, <1>7 DEF Transport, CipherKeys
  <2>2. Gives(f, "proto", proto)
    BY <1>8, <2>1
  <2>. QED
    BY <1>2, <2>2, GivesWords DEF Words
<1>11. i.role = "server" => Value(f, "port") = <<port>>
  <2>. SUFFICES ASSUME i.role = "server" PROVE Value(f, "port") = <<port>>
    OBVIOUS
  <2>1. /\ Gives(head, "port", Unset) /\ Gives(body, "port", port)
        /\ Gives(crypto, "port", Unset) /\ Gives(ciphers, "port", Unset)
        /\ Gives(typed, "port", Unset) /\ Gives(owned, "port", Unset)
        /\ Gives(rest, "port", Unset)
    BY <1>3, <1>4, <1>5, <1>6, <1>7 DEF Transport, CipherKeys
  <2>2. Gives(f, "port", port)
    BY <1>8, <1>9, <2>1
  <2>. QED
    BY <1>2, <2>2, GivesWords DEF Words
<1>12. ASSUME ~i.static, NEW k \in {"ca", "tls-crypt"} PROVE Value(f, k) = Words(i.col[k])
  <2>1. /\ Gives(head, k, Unset) /\ Gives(body, k, Unset)
        /\ Gives(crypto, k, i.col[k]) /\ Gives(ciphers, k, Unset)
        /\ Gives(typed, k, Unset) /\ Gives(owned, k, Unset) /\ Gives(rest, k, Unset)
    BY <1>3, <1>5, <1>6, <1>7, <1>12 DEF Transport, CipherKeys
  <2>2. Gives(f, k, i.col[k])
    BY <1>8, <1>9, <2>1
  <2>. QED
    BY <2>2, GivesWords
<1>13. ASSUME NEW k \in CipherKeys PROVE Value(f, k) = Words(i.col[k])
  <2>1. k \in Transport /\ k \notin {"ca", "tls-crypt", "proto", "port", "remote"}
    BY DEF Transport, CipherKeys
  <2>2. /\ Gives(head, k, Unset) /\ Gives(body, k, Unset)
        /\ Gives(crypto, k, Unset) /\ Gives(ciphers, k, i.col[k])
        /\ Gives(typed, k, Unset) /\ Gives(owned, k, Unset) /\ Gives(rest, k, Unset)
    BY <1>3, <1>4, <1>5, <1>6, <1>7, <2>1
  <2>3. Gives(f, k, i.col[k])
    BY <1>8, <1>9, <2>2
  <2>. QED
    BY <2>3, GivesWords
<1>. HIDE DEF f
<1>. QED
  BY <1>1, <1>10, <1>11, <1>12, <1>13 DEF proto, port, CipherKeys

(* The set of the lines of a sequence, and what joining makes of it.         *)
LineSet(s) == {s[j] : j \in DOMAIN s}

LEMMA SetJoined ==
    ASSUME NEW s, NEW t, ASeq(s), ASeq(t)
    PROVE  ASeq(s \o t) /\ LineSet(s \o t) = LineSet(s) \cup LineSet(t)
<1>1. LineSet(s \o t) \subseteq LineSet(s) \cup LineSet(t)
  <2>. SUFFICES ASSUME NEW j \in DOMAIN (s \o t)
                PROVE  (s \o t)[j] \in LineSet(s) \cup LineSet(t)
    BY DEF LineSet
  <2>1. CASE j \in 1..Len(s)
    BY <2>1, Joined DEF LineSet
  <2>2. CASE \E l \in 1..Len(t) : j = Len(s) + l
    BY <2>2, Joined DEF LineSet
  <2>. QED
    BY <2>1, <2>2, Joined
<1>2. LineSet(s) \subseteq LineSet(s \o t)
  <2>. SUFFICES ASSUME NEW j \in DOMAIN s PROVE s[j] \in LineSet(s \o t)
    BY DEF LineSet
  <2>1. j \in DOMAIN (s \o t) /\ (s \o t)[j] = s[j]
    BY Joined
  <2>. QED
    BY <2>1 DEF LineSet
<1>3. LineSet(t) \subseteq LineSet(s \o t)
  <2>. SUFFICES ASSUME NEW j \in DOMAIN t PROVE t[j] \in LineSet(s \o t)
    BY DEF LineSet
  <2>1. Len(s) + j \in DOMAIN (s \o t) /\ (s \o t)[Len(s) + j] = t[j]
    BY Joined
  <2>. QED
    BY <2>1 DEF LineSet
<1>. QED
  BY <1>1, <1>2, <1>3, Joined

LEMMA SetOfOne ==
    ASSUME NEW d
    PROVE  ASeq(<<d>>) /\ LineSet(<<d>>) = {d}
<1>1. ASeq(<<d>>) /\ DOMAIN <<d>> = 1..1 /\ <<d>>[1] = d
  BY OneLine
<1>. DEFINE s == <<d>>
<1>2. 1..1 = {1}
  OBVIOUS
<1>3. DOMAIN s = {1} /\ s[1] = d
  BY <1>1, <1>2
<1>. HIDE DEF s
<1>4. LineSet(s) = {d}
  BY <1>3 DEF LineSet
<1>. QED
  BY <1>1, <1>4 DEF s

LEMMA SetOfNone == ASeq(<<>>) /\ LineSet(<<>>) = {}
<1>1. \A s : Keywords(s) = {} => LineSet(s) = {}
  BY DEF Keywords, LineSet
<1>. QED
  BY <1>1, EmptyIsSeq, EmptyHasNone

LEMMA SetAppended ==
    ASSUME NEW s, NEW d, ASeq(s)
    PROVE  ASeq(Append(s, d)) /\ LineSet(Append(s, d)) = LineSet(s) \cup {d}
<1>1. PICK S : s \in Seq(S)
  BY DEF ASeq
<1>2. s \in Seq(S \cup {d})
  BY <1>1
<1>3. Append(s, d) \in Seq(S \cup {d})
  BY <1>2
<1>4. /\ Len(s) \in Nat /\ DOMAIN s = 1..Len(s)
      /\ DOMAIN Append(s, d) = 1..(Len(s) + 1)
      /\ \A j \in 1..Len(s) : Append(s, d)[j] = s[j]
      /\ Append(s, d)[Len(s) + 1] = d
  BY <1>2
<1>5. 1..(Len(s) + 1) = 1..Len(s) \cup {Len(s) + 1}
  BY <1>4
<1>. DEFINE a == Append(s, d)
<1>6. DOMAIN a = DOMAIN s \cup {Len(s) + 1} /\ a[Len(s) + 1] = d /\ \A j \in DOMAIN s : a[j] = s[j]
  BY <1>4, <1>5
<1>. HIDE DEF a
<1>7. LineSet(a) = LineSet(s) \cup {d}
  BY <1>6 DEF LineSet
<1>. QED
  BY <1>3, <1>7 DEF ASeq, a

Of(s, k) == {d \in LineSet(s) : d.k = k}

LEMMA OfJoined ==
    ASSUME NEW s, NEW t, ASeq(s), ASeq(t), NEW k
    PROVE  ASeq(s \o t) /\ Of(s \o t, k) = Of(s, k) \cup Of(t, k)
BY SetJoined DEF Of

LEMMA OfNone ==
    ASSUME NEW s, NEW K, Within(s, K), NEW k, k \notin K
    PROVE  ASeq(s) /\ Of(s, k) = {}
BY DEF Of, LineSet, Within, Keywords

LEMMA SaidIsOf ==
    ASSUME NEW s, NEW k
    PROVE  Said(s, k) = {Normal(d) : d \in Of(s, k)}
BY DEF Said, Of, LineSet, Lines

(* A client row with one server connects to that one.                        *)
LEMMA RenderedRemote ==
    ASSUME NEW i, RowParts(i), Quiet(i), i.role # "server", NEW rem, LineSet(i.remotes) = {rem},
           rem.proto = Unset
    PROVE  Said(RenderInstance(i), "remote") = {D("remote", <<rem.host, rem.port>>)}
<1>. DEFINE k == "remote"
            d == D("remote", <<rem.host, rem.port>>)
            remotes == Each(i.remotes, LAMBDA r :
                D("remote", IF r.proto = Unset THEN <<r.host, r.port>>
                            ELSE <<r.host, r.port, r.proto>>))
            start == (((Flag("client") \o Flag("tls-client")) \o Flag("nobind"))
                      \o Arg("remote-cert-tls", "server")) \o Arg("resolv-retry", "infinite")
            body == RenderClient(i)
            head == RenderHead(i)
            crypto == RenderCrypto(i)
            ciphers == RenderCiphers(i)
            typed == RenderTyped(i)
            owned == RenderOwned
            rest == Expand(i)
<1>1. RenderInstance(i) = (((((head \o body) \o crypto) \o ciphers) \o typed) \o owned) \o rest
  BY DEF RenderInstance
<1>2. ASeq(remotes) /\ Of(remotes, k) = {d}
  <2>1. remotes = [j \in DOMAIN i.remotes |->
            D("remote", IF i.remotes[j].proto = Unset THEN <<i.remotes[j].host, i.remotes[j].port>>
                        ELSE <<i.remotes[j].host, i.remotes[j].port, i.remotes[j].proto>>)]
    BY DEF Each
  <2>2. ASeq(i.remotes) /\ \A j \in DOMAIN i.remotes : i.remotes[j] = rem
    BY DEF RowParts, LineSet
  <2>3. DOMAIN i.remotes # {}
    BY DEF LineSet
  <2>. HIDE DEF remotes
  <2>4. \A j \in DOMAIN i.remotes : remotes[j] = d
    BY <2>1, <2>2
  <2>5. remotes = [j \in DOMAIN i.remotes |-> remotes[j]]
    BY <2>1
  <2>6. ASeq(remotes) /\ DOMAIN remotes = DOMAIN i.remotes
    BY <2>2, <2>5, FunctionIsSeq
  <2>7. d.k = k
    BY DEF D
  <2>. HIDE DEF d
  <2>8. LineSet(remotes) = {d}
    BY <2>3, <2>4, <2>6 DEF LineSet
  <2>. QED
    BY <2>6, <2>7, <2>8 DEF Of
<1>3. ASeq(start) /\ Of(start, k) = {}
  <2>. DEFINE K == ClientKeys \ {"remote"}
  <2>1. /\ "client" \in K /\ "tls-client" \in K /\ "nobind" \in K
        /\ "remote-cert-tls" \in K /\ "resolv-retry" \in K /\ k \notin K
    BY DEF ClientKeys
  <2>. HIDE DEF K
  <2>2. /\ Within(Flag("client"), K) /\ Within(Flag("tls-client"), K) /\ Within(Flag("nobind"), K)
        /\ Within(Arg("remote-cert-tls", "server"), K) /\ Within(Arg("resolv-retry", "infinite"), K)
    BY <2>1, WithinArg
  <2>3. Within(start, K)
    BY <2>2, WithinJoined
  <2>. QED
    BY <2>1, <2>3, OfNone
<1>4. body = start \o remotes
  BY DEF RenderClient
<1>. HIDE DEF start, remotes, body
<1>5. ASeq(body) /\ Of(body, k) = {d}
  BY <1>2, <1>3, <1>4, OfJoined
<1>6. /\ ASeq(head) /\ Of(head, k) = {} /\ ASeq(crypto) /\ Of(crypto, k) = {}
      /\ ASeq(ciphers) /\ Of(ciphers, k) = {} /\ ASeq(typed) /\ Of(typed, k) = {}
      /\ ASeq(owned) /\ Of(owned, k) = {}
  <2>1. /\ k \notin HeadKeys /\ k \notin CryptoKeys /\ k \notin CipherKeys /\ k \notin Folded
        /\ k \notin OwnedKeys
    BY DEF HeadKeys, CryptoKeys, CipherKeys, Folded, OwnedKeys
  <2>. QED
    BY <2>1, HeadWithin, CryptoWithin, OwnedWithin, OfNone
<1>7. ASeq(rest) /\ Of(rest, k) = {}
  <2>1. ASeq(rest) /\ Keywords(rest) = Keywords(i.extra) \cup Keywords(i.features)
    BY KeywordsJoined DEF Expand, RowParts
  <2>2. k \in Transport
    BY DEF Transport
  <2>3. k \notin Keywords(rest)
    BY <2>1, <2>2 DEF Quiet
  <2>. QED
    BY <2>1, <2>3 DEF Of, Keywords, LineSet
<1>. HIDE DEF head, crypto, ciphers, typed, owned, rest
<1>8. Of(RenderInstance(i), k) = {d}
  <2>. DEFINE s3 == (head \o body) \o crypto
              s5 == (s3 \o ciphers) \o typed
  <2>1. ASeq(s3) /\ Of(s3, k) = {d}
    BY <1>5, <1>6, OfJoined
  <2>. HIDE DEF s3
  <2>2. ASeq(s5) /\ Of(s5, k) = {d}
    BY <1>6, <2>1, OfJoined
  <2>. HIDE DEF s5
  <2>3. Of((s5 \o owned) \o rest, k) = {d}
    BY <1>6, <1>7, <2>2, OfJoined
  <2>. QED
    BY <1>1, <2>3 DEF s3, s5
<1>9. Normal(d) = d
  <2>1. d.v = <<rem.host, rem.port>>
    BY DEF D
  <2>2. Len(d.v) = 2
    BY <2>1
  <2>. QED
    BY <2>2 DEF Normal
<1>. HIDE DEF d
<1>10. Said(RenderInstance(i), k) = {Normal(e) : e \in {d}}
  BY <1>8, SaidIsOf
<1>. QED
  BY <1>9, <1>10 DEF d

------------------------------------------------------------------------------
(* What a profile says of the transport                                      *)

Device(i) == Or(i.col["dev-type"], "tun")
Data(i) == Or(i.col["data-ciphers"], "GCM")
Endpoint(i) == Or(i.col["port"], "1194")

(* The columns the import of a profile fills, and with what.                 *)
Filled == {"proto", "dev-type", "cipher", "data-ciphers", "auth", "ca", "cert", "key", "tls-crypt"}
Want(i, k) ==
    CASE k = "proto" -> Or(i.col["proto"], "udp")
      [] k = "dev-type" -> Device(i)
      [] k = "cipher" -> Or(i.col["cipher"], Data(i))
      [] k = "data-ciphers" -> Data(i)
      [] k = "auth" -> Or(i.col["auth"], "SHA256")
      [] k = "ca" -> i.col["ca"]
      [] k = "cert" -> "clientCert"
      [] k = "key" -> "clientKey"
      [] k = "tls-crypt" -> i.col["tls-crypt"]

(* The lines that fill one, each with the column's name or, for the device,  *)
(* another; and all other lines.                                             *)
ValueKeys == {"proto", "cipher", "data-ciphers", "auth"}
OtherKeys == ProfileKeys \ (ValueKeys \cup {"dev", "remote", "<>"})

Offered(i, d) ==
    \/ d.k \in OtherKeys
    \/ d.k \in ValueKeys /\ d.v = <<Want(i, d.k)>>
    \/ d.k = "dev" /\ d.v = <<Want(i, "dev-type")>>
    \/ d.k = "remote" /\ d.v = <<"endpoint", Endpoint(i)>>
    \/ d.k = "<>" /\ \E tag \in Tags : d.v = <<tag, Want(i, tag)>>

AllOffered(i, s) == ASeq(s) /\ \A d \in LineSet(s) : Offered(i, d)

LEMMA OfferedJoined ==
    ASSUME NEW i, NEW s, NEW t, AllOffered(i, s), AllOffered(i, t)
    PROVE  AllOffered(i, s \o t) /\ LineSet(s \o t) = LineSet(s) \cup LineSet(t)
BY SetJoined DEF AllOffered

LEMMA OfferedOne ==
    ASSUME NEW i, NEW d, Offered(i, d)
    PROVE  AllOffered(i, <<d>>) /\ LineSet(<<d>>) = {d}
BY SetOfOne DEF AllOffered

LEMMA OfferedOther ==
    ASSUME NEW i, NEW k \in OtherKeys, NEW v
    PROVE  AllOffered(i, Arg(k, v)) /\ AllOffered(i, Flag(k))
<1>1. Offered(i, D(k, <<v>>)) /\ Offered(i, D(k, <<>>))
  BY DEF Offered, D
<1>2. AllOffered(i, <<>>)
  BY SetOfNone DEF AllOffered
<1>. QED
  BY <1>1, <1>2, OfferedOne DEF Arg, Flag

LEMMA OfferedValue ==
    ASSUME NEW i, NEW k \in ValueKeys, Want(i, k) # Unset
    PROVE  /\ AllOffered(i, Arg(k, Want(i, k)))
           /\ LineSet(Arg(k, Want(i, k))) = {D(k, <<Want(i, k)>>)}
<1>1. Offered(i, D(k, <<Want(i, k)>>))
  BY DEF Offered, D
<1>. QED
  BY <1>1, OfferedOne DEF Arg

LEMMA OfferedBlock ==
    ASSUME NEW i, NEW tag \in Tags
    PROVE  /\ AllOffered(i, Block(tag, Want(i, tag)))
           /\ Want(i, tag) # Unset =>
                D("<>", <<tag, Want(i, tag)>>) \in LineSet(Block(tag, Want(i, tag)))
<1>1. Offered(i, D("<>", <<tag, Want(i, tag)>>))
  BY DEF Offered, D
<1>2. AllOffered(i, <<>>)
  BY SetOfNone DEF AllOffered
<1>. QED
  BY <1>1, <1>2, OfferedOne DEF Block

LEMMA CiphersOffered ==
    ASSUME NEW i
    PROVE  /\ AllOffered(i, ProfileCiphers(i))
           /\ \A k \in CipherKeys : D(k, <<Want(i, k)>>) \in LineSet(ProfileCiphers(i))
<1>. DEFINE a == Arg("cipher", Want(i, "cipher"))
            b == Arg("data-ciphers", Want(i, "data-ciphers"))
            c == Arg("data-ciphers-fallback", "CBC")
            d == Arg("auth", Want(i, "auth"))
<1>1. Want(i, "cipher") # Unset /\ Want(i, "data-ciphers") # Unset /\ Want(i, "auth") # Unset
  BY ConfAssumption DEF Want, Data, Or
<1>2. /\ AllOffered(i, a) /\ D("cipher", <<Want(i, "cipher")>>) \in LineSet(a)
      /\ AllOffered(i, b) /\ D("data-ciphers", <<Want(i, "data-ciphers")>>) \in LineSet(b)
      /\ AllOffered(i, d) /\ D("auth", <<Want(i, "auth")>>) \in LineSet(d)
  <2>1. "cipher" \in ValueKeys /\ "data-ciphers" \in ValueKeys /\ "auth" \in ValueKeys
    BY DEF ValueKeys
  <2>. HIDE DEF ValueKeys
  <2>. QED
    BY <1>1, <2>1, OfferedValue
<1>3. AllOffered(i, c)
  <2>1. "data-ciphers-fallback" \in OtherKeys
    BY DEF OtherKeys, ProfileKeys, ValueKeys
  <2>. QED
    BY <2>1, OfferedOther
<1>4. ProfileCiphers(i) = ((a \o b) \o c) \o d
  BY DEF ProfileCiphers, Want, Data
<1>. HIDE DEF a, b, c, d
<1>5. /\ AllOffered(i, a \o b) /\ LineSet(a \o b) = LineSet(a) \cup LineSet(b)
  BY <1>2, OfferedJoined
<1>6. /\ AllOffered(i, (a \o b) \o c)
      /\ LineSet((a \o b) \o c) = LineSet(a \o b) \cup LineSet(c)
  BY <1>3, <1>5, OfferedJoined
<1>7. /\ AllOffered(i, ((a \o b) \o c) \o d)
      /\ LineSet(((a \o b) \o c) \o d) = LineSet((a \o b) \o c) \cup LineSet(d)
  BY <1>2, <1>6, OfferedJoined
<1>. QED
  BY <1>2, <1>4, <1>5, <1>6, <1>7 DEF CipherKeys

(* The lines a profile has in any case.                                      *)
Needed(i) ==
    {D(k, <<Want(i, k)>>) : k \in ValueKeys}
    \cup {D("dev", <<Want(i, "dev-type")>>), D("remote", <<"endpoint", Endpoint(i)>>)}
    \cup {D("<>", <<tag, Want(i, tag)>>) : tag \in {t \in {"ca", "tls-crypt"} : Want(i, t) # Unset}}

LEMMA ProfileOffers ==
    ASSUME NEW i
    PROVE  /\ AllOffered(i, RenderClientProfile(i))
           /\ Needed(i) \subseteq LineSet(RenderClientProfile(i))
<1>. DEFINE a0 == Flag("client")
            a1 == Arg("dev", Want(i, "dev-type"))
            a2 == Arg("proto", Want(i, "proto"))
            a3 == <<D("remote", <<"endpoint", Endpoint(i)>>)>>
            a4 == Arg("resolv-retry", "infinite")
            a5 == Flag("nobind")
            a6 == Flag("persist-key")
            a7 == Flag("persist-tun")
            a8 == Arg("remote-cert-tls", "server")
            a9 == Flag("auth-nocache")
            a10 == Arg("verb", "3")
            a11 == Arg("ignore-unknown-option", "data-ciphers")
            a12 == IF Want(i, "proto") \in {"udp", "udp4", "udp6"}
                   THEN Arg("explicit-exit-notify", "1") ELSE <<>>
            a13 == ProfileCiphers(i)
            a14 == Flag("float")
            a15 == Arg("reneg-sec", "0")
            a16 == Block("ca", Want(i, "ca"))
            a17 == Block("cert", Want(i, "cert"))
            a18 == Block("key", Want(i, "key"))
            a19 == Block("tls-crypt", Want(i, "tls-crypt"))
            All(s) == AllOffered(i, s)
<1>1. RenderClientProfile(i) =
        (((((((((((((((((((a0 \o a1) \o a2) \o a3) \o a4) \o a5) \o a6) \o a7) \o a8) \o
        a9) \o a10) \o a11) \o a12) \o a13) \o a14) \o a15) \o a16) \o a17) \o a18) \o
        a19)
  BY DEF RenderClientProfile, Want, Device, Endpoint
<1>2. /\ All(a0) /\ All(a4) /\ All(a5) /\ All(a6) /\ All(a7) /\ All(a8) /\ All(a9)
      /\ All(a10) /\ All(a11) /\ All(a14) /\ All(a15)
  <2>1. /\ "client" \in OtherKeys /\ "resolv-retry" \in OtherKeys /\ "nobind" \in OtherKeys
        /\ "persist-key" \in OtherKeys /\ "persist-tun" \in OtherKeys
        /\ "remote-cert-tls" \in OtherKeys /\ "auth-nocache" \in OtherKeys
        /\ "verb" \in OtherKeys /\ "ignore-unknown-option" \in OtherKeys
        /\ "float" \in OtherKeys /\ "reneg-sec" \in OtherKeys
    BY DEF OtherKeys, ProfileKeys, ValueKeys
  <2>. QED
    BY <2>1, OfferedOther
<1>3. All(a12)
  <2>1. "explicit-exit-notify" \in OtherKeys
    BY DEF OtherKeys, ProfileKeys, ValueKeys
  <2>2. All(<<>>)
    BY SetOfNone DEF AllOffered
  <2>3. All(Arg("explicit-exit-notify", "1"))
    BY <2>1, OfferedOther
  <2>. QED
    BY <2>2, <2>3
<1>4. All(a1) /\ D("dev", <<Want(i, "dev-type")>>) \in LineSet(a1)
  <2>1. Want(i, "dev-type") # Unset
    BY ConfAssumption DEF Want, Device, Or
  <2>2. Offered(i, D("dev", <<Want(i, "dev-type")>>))
    BY DEF Offered, D
  <2>. QED
    BY <2>1, <2>2, OfferedOne DEF Arg
<1>5. All(a2) /\ D("proto", <<Want(i, "proto")>>) \in LineSet(a2)
  <2>1. Want(i, "proto") # Unset /\ "proto" \in ValueKeys
    BY ConfAssumption DEF Want, Or, ValueKeys
  <2>. QED
    BY <2>1, OfferedValue
<1>6. All(a3) /\ D("remote", <<"endpoint", Endpoint(i)>>) \in LineSet(a3)
  <2>1. Offered(i, D("remote", <<"endpoint", Endpoint(i)>>))
    BY DEF Offered, D
  <2>. QED
    BY <2>1, OfferedOne
<1>7. All(a13) /\ \A k \in CipherKeys : D(k, <<Want(i, k)>>) \in LineSet(a13)
  BY CiphersOffered
<1>8. /\ All(a16) /\ All(a17) /\ All(a18) /\ All(a19)
      /\ Want(i, "ca") # Unset => D("<>", <<"ca", Want(i, "ca")>>) \in LineSet(a16)
      /\ Want(i, "tls-crypt") # Unset =>
            D("<>", <<"tls-crypt", Want(i, "tls-crypt")>>) \in LineSet(a19)
  <2>1. "ca" \in Tags /\ "cert" \in Tags /\ "key" \in Tags /\ "tls-crypt" \in Tags
    BY DEF Tags
  <2>. QED
    BY <2>1, OfferedBlock
<1>. HIDE DEF a0, a1, a2, a3, a4, a5, a6, a7, a8, a9, a10, a11, a12,
              a13, a14, a15, a16, a17, a18, a19
<1>9. ASSUME NEW s, NEW t, All(s), All(t)
      PROVE  All(s \o t) /\ LineSet(s) \subseteq LineSet(s \o t) /\ LineSet(t) \subseteq LineSet(s \o t)
  <2>1. AllOffered(i, s) /\ AllOffered(i, t)
    BY <1>9
  <2>2. AllOffered(i, s \o t) /\ LineSet(s \o t) = LineSet(s) \cup LineSet(t)
    BY <2>1, OfferedJoined
  <2>. QED
    BY <2>2
<1>. DEFINE p1 == a0 \o a1
            p2 == p1 \o a2
            p3 == p2 \o a3
            p7 == (((p3 \o a4) \o a5) \o a6) \o a7
            p12 == ((((p7 \o a8) \o a9) \o a10) \o a11) \o a12
            p13 == p12 \o a13
            p15 == (p13 \o a14) \o a15
            p16 == p15 \o a16
            p18 == (p16 \o a17) \o a18
            p19 == p18 \o a19
<1>. HIDE DEF All
<1>10. All(p1) /\ LineSet(a1) \subseteq LineSet(p1)
  BY <1>2, <1>4, <1>9
<1>. HIDE DEF p1
<1>11. All(p2) /\ LineSet(a1) \cup LineSet(a2) \subseteq LineSet(p2)
  BY <1>5, <1>9, <1>10
<1>. HIDE DEF p2
<1>12. All(p3) /\ LineSet(a1) \cup LineSet(a2) \cup LineSet(a3) \subseteq LineSet(p3)
  BY <1>6, <1>9, <1>11
<1>. HIDE DEF p3
<1>13. ASSUME NEW s, NEW t, NEW u, All(s), All(t), All(u)
       PROVE  All((s \o t) \o u) /\ LineSet(s) \subseteq LineSet((s \o t) \o u)
  <2>1. All(s \o t) /\ LineSet(s) \subseteq LineSet(s \o t)
    BY <1>9, <1>13
  <2>2. All((s \o t) \o u) /\ LineSet(s \o t) \subseteq LineSet((s \o t) \o u)
    BY <1>9, <1>13, <2>1
  <2>. QED
    BY <2>1, <2>2
<1>14. All(p7) /\ LineSet(p3) \subseteq LineSet(p7)
  BY <1>2, <1>12, <1>13
<1>. HIDE DEF p7
<1>15. All(p12) /\ LineSet(p7) \subseteq LineSet(p12)
  <2>1. /\ All((((p7 \o a8) \o a9) \o a10) \o a11)
        /\ LineSet(p7) \subseteq LineSet((((p7 \o a8) \o a9) \o a10) \o a11)
    BY <1>2, <1>13, <1>14
  <2>. QED
    BY <1>3, <1>9, <2>1
<1>. HIDE DEF p12
<1>16. All(p13) /\ LineSet(p12) \cup LineSet(a13) \subseteq LineSet(p13)
  BY <1>7, <1>9, <1>15
<1>. HIDE DEF p13
<1>17. All(p15) /\ LineSet(p13) \subseteq LineSet(p15)
  BY <1>2, <1>13, <1>16
<1>. HIDE DEF p15
<1>18. All(p16) /\ LineSet(p15) \cup LineSet(a16) \subseteq LineSet(p16)
  BY <1>8, <1>9, <1>17
<1>. HIDE DEF p16
<1>19. All(p18) /\ LineSet(p16) \subseteq LineSet(p18)
  BY <1>8, <1>13, <1>18
<1>. HIDE DEF p18
<1>20. All(p19) /\ LineSet(p18) \cup LineSet(a19) \subseteq LineSet(p19)
  BY <1>8, <1>9, <1>19
<1>21. RenderClientProfile(i) = p19
  BY <1>1 DEF p1, p2, p3, p7, p12, p13, p15, p16, p18
<1>. HIDE DEF p19
<1>22. /\ D("dev", <<Want(i, "dev-type")>>) \in LineSet(p19)
       /\ D("proto", <<Want(i, "proto")>>) \in LineSet(p19)
       /\ D("remote", <<"endpoint", Endpoint(i)>>) \in LineSet(p19)
  BY <1>4, <1>5, <1>6, <1>12, <1>14, <1>15, <1>16, <1>17, <1>18, <1>19, <1>20
<1>23. \A k \in CipherKeys : D(k, <<Want(i, k)>>) \in LineSet(p19)
  BY <1>7, <1>16, <1>17, <1>18, <1>19, <1>20
<1>24. /\ Want(i, "ca") # Unset => D("<>", <<"ca", Want(i, "ca")>>) \in LineSet(p19)
       /\ Want(i, "tls-crypt") # Unset =>
            D("<>", <<"tls-crypt", Want(i, "tls-crypt")>>) \in LineSet(p19)
  BY <1>8, <1>18, <1>19, <1>20
<1>25. ValueKeys = {"proto"} \cup CipherKeys
  BY DEF ValueKeys, CipherKeys
<1>26. Needed(i) \subseteq LineSet(p19)
  <2>. HIDE DEF p1, p2, p3
  <2>. QED
    BY <1>22, <1>23, <1>24, <1>25 DEF Needed
<1>. QED
  BY <1>20, <1>21, <1>26 DEF All

------------------------------------------------------------------------------
(* What the parsers make of a profile                                        *)

Reader == {"line", "consoleLine"}
Filer == {"block", "consoleBlock"}
Console == {"consoleLine", "consoleBlock"}

Rem(i) == [host |-> "endpoint", port |-> Endpoint(i), proto |-> Unset]

(* What a fold over lines of a profile of i has made of b so far: a column   *)
(* is as it was or as wanted.                                                *)
Fit(f, i, b, x) ==
    /\ DOMAIN x = ResultFields /\ DOMAIN x.col = Columns
    /\ \A k \in Filled : x.col[k] \in {b.col[k], Want(i, k)}
    /\ f \in Reader => ASeq(x.remotes) /\ LineSet(x.remotes) \subseteq {Rem(i)}
    /\ f \in Filer => x.remotes = b.remotes
    /\ f = "line" =>
          ASeq(x.inline) /\ \A d \in LineSet(x.inline) : d.k = "<>" /\ Offered(i, d)
    /\ f \in Console =>
          /\ x.plugins = b.plugins /\ x.routes = b.routes /\ x.dns = b.dns
          /\ ASeq(x.extra) /\ Keywords(x.extra) \subseteq Kept

(* What it has made of line d.                                               *)
Noted(f, i, x, d) ==
    /\ f \in Reader =>
          /\ d.k \in ValueKeys => x.col[d.k] = Want(i, d.k)
          /\ d.k = "dev" => x.col["dev-type"] = Want(i, "dev-type")
          /\ d.k = "remote" => LineSet(x.remotes) # {}
    /\ f = "line" /\ d.k = "<>" => d \in LineSet(x.inline)
    /\ f \in Filer /\ d.k = "<>" => x.col[d.v[1]] = Want(i, d.v[1])

(* Nothing it has made of a line is undone.                                  *)
Grows(f, i, x, y) ==
    /\ \A k \in Filled : y.col[k] \in {x.col[k], Want(i, k)}
    /\ LineSet(x.remotes) \subseteq LineSet(y.remotes)
    /\ f = "line" => LineSet(x.inline) \subseteq LineSet(y.inline)

(* What is made of a line stays made.                                       *)
LEMMA StaysNoted ==
    ASSUME NEW f, NEW i, NEW x, NEW y, Grows(f, i, x, y), NEW d, Offered(i, d),
           Noted(f, i, x, d)
    PROVE  Noted(f, i, y, d)
<1>1. d.k \in ValueKeys => d.k \in Filled
  BY DEF ValueKeys, Filled
<1>2. "dev-type" \in Filled
  BY DEF Filled
<1>3. d.k = "<>" => d.v[1] \in Filled
  <2>1. \A tag \in Tags : \A w : <<tag, w>>[1] \in Filled
    BY DEF Tags, Filled
  <2>. QED
    BY <2>1 DEF Offered, OtherKeys, ValueKeys
<1>. HIDE DEF Filled, ValueKeys
<1>. QED
  BY <1>1, <1>2, <1>3 DEF Grows, Noted

(* Two kinds of steps: one column is set; none is.                           *)
SetsColumn(x, y, k, w) ==
    /\ DOMAIN y = ResultFields /\ y.col = [x.col EXCEPT ![k] = w]
    /\ y.remotes = x.remotes /\ y.inline = x.inline /\ y.plugins = x.plugins
    /\ y.routes = x.routes /\ y.dns = x.dns /\ y.extra = x.extra

LEMMA SetFits ==
    ASSUME NEW f \in Reader \cup Filer, NEW i, NEW b, NEW x, Fit(f, i, b, x),
           NEW y, NEW k \in Filled, SetsColumn(x, y, k, Want(i, k))
    PROVE  /\ Fit(f, i, b, y) /\ Grows(f, i, x, y) /\ y.col[k] = Want(i, k)
<1>1. k \in Columns /\ Filled \subseteq Columns
  BY DEF Filled, Columns
<1>. HIDE DEF Filled, Columns
<1>2. DOMAIN x.col = Columns
  BY DEF Fit
<1>3. /\ DOMAIN y.col = Columns /\ y.col[k] = Want(i, k)
      /\ \A l \in Filled : l # k => y.col[l] = x.col[l]
  BY <1>1, <1>2 DEF SetsColumn
<1>4. Grows(f, i, x, y)
  BY <1>3 DEF Grows, SetsColumn
<1>5. \A l \in Filled : y.col[l] \in {b.col[l], Want(i, l)}
  BY <1>3 DEF Fit
<1>6. Fit(f, i, b, y)
  BY <1>3, <1>5 DEF Fit, SetsColumn
<1>. QED
  BY <1>3, <1>4, <1>6

(* A line of a profile, as the daemon reads it.                             *)
LEMMA LineFits ==
    ASSUME NEW i, Device(i) \in {"tun", "tap"}, NEW b, NEW x, Fit("line", i, b, x),
           NEW d, Offered(i, d)
    PROVE  LET y == ParseLine(x, d) IN
           Fit("line", i, b, y) /\ Noted("line", i, y, d) /\ Grows("line", i, x, y)
<1>. DEFINE y == ParseLine(x, d)
            f == "line"
<1>1. DOMAIN x = ResultFields /\ DOMAIN x.col = Columns
  BY DEF Fit
<1>2. f \in Reader /\ f \notin Filer /\ f \notin Console
  BY DEF Reader, Filer, Console
<1>3. CASE d.k \in OtherKeys
  <2>1. /\ DOMAIN y = ResultFields /\ y.col = x.col /\ y.remotes = x.remotes /\ y.inline = x.inline
    <3>1. \/ y = x
          \/ y = [x EXCEPT !.role = "client"]
          \/ y = [x EXCEPT !.extra = Append(@, d)]
      <4>1. CASE d.k \in {"verb", "persist-key", "persist-tun"}
        BY <4>1 DEF ParseLine, Ignored, Columns, Folded
      <4>2. CASE d.k = "client"
        BY <4>2 DEF ParseLine, ParseRole, Ignored, Columns, Folded
      <4>3. CASE d.k \in {"resolv-retry", "nobind", "remote-cert-tls", "auth-nocache",
                          "ignore-unknown-option", "explicit-exit-notify",
                          "data-ciphers-fallback", "float", "reneg-sec"}
        BY <4>3 DEF ParseLine, Ignored, Columns, Folded
      <4>. QED
        BY <1>3, <4>1, <4>2, <4>3 DEF OtherKeys, ProfileKeys, ValueKeys
    <3>. HIDE DEF y
    <3>. QED
      BY <1>1, <3>1 DEF ResultFields
  <2>. HIDE DEF y
  <2>2. d.k \notin ValueKeys /\ d.k \notin {"dev", "remote", "<>"}
    BY <1>3 DEF OtherKeys
  <2>3. Grows(f, i, x, y) /\ Noted(f, i, y, d)
    BY <1>2, <2>1, <2>2 DEF Grows, Noted
  <2>4. Fit(f, i, b, y)
    BY <1>1, <1>2, <2>1 DEF Fit
  <2>. QED
    BY <2>3, <2>4 DEF y
<1>4. CASE d.k \in ValueKeys /\ d.v = <<Want(i, d.k)>>
  <2>1. y = [x EXCEPT !.col[d.k] = d.v[1]]
    BY <1>4 DEF ParseLine, ParseValue, ValueKeys, Ignored, Columns, Folded
  <2>. HIDE DEF y
  <2>2. d.v[1] = Want(i, d.k)
    BY <1>4
  <2>3. SetsColumn(x, y, d.k, Want(i, d.k))
    BY <1>1, <2>1, <2>2 DEF SetsColumn, ResultFields
  <2>4. d.k \in Filled
    BY <1>4 DEF ValueKeys, Filled
  <2>5. Fit(f, i, b, y) /\ Grows(f, i, x, y) /\ y.col[d.k] = Want(i, d.k)
    BY <1>2, <2>3, <2>4, SetFits
  <2>6. d.k \notin {"dev", "remote", "<>"}
    BY <1>4 DEF ValueKeys
  <2>. QED
    BY <1>2, <2>5, <2>6 DEF y, Noted
<1>5. CASE d.k = "dev" /\ d.v = <<Want(i, "dev-type")>>
  <2>1. d.v[1] = Want(i, "dev-type") /\ d.v[1] \in {"tun", "tap"}
    BY <1>5 DEF Want
  <2>2. y = [x EXCEPT !.col["dev-type"] = d.v[1]]
    BY <1>5, <2>1 DEF ParseLine, ParseDev, Ignored, Columns, Folded
  <2>. HIDE DEF y
  <2>3. SetsColumn(x, y, "dev-type", Want(i, "dev-type"))
    BY <1>1, <2>1, <2>2 DEF SetsColumn, ResultFields
  <2>4. "dev-type" \in Filled
    BY DEF Filled
  <2>5. Fit(f, i, b, y) /\ Grows(f, i, x, y) /\ y.col["dev-type"] = Want(i, "dev-type")
    BY <1>2, <2>3, <2>4, SetFits
  <2>6. d.k \notin ValueKeys
    BY <1>5 DEF ValueKeys
  <2>. QED
    BY <1>2, <1>5, <2>5, <2>6 DEF y, Noted
<1>6. CASE d.k = "remote" /\ d.v = <<"endpoint", Endpoint(i)>>
  <2>1. y = ParseRemote(x, d.v)
    BY <1>6 DEF ParseLine, Ignored, Columns, Folded
  <2>2. Len(d.v) = 2 /\ d.v[1] = "endpoint" /\ d.v[2] = Endpoint(i)
    BY <1>6
  <2>. HIDE DEF y
  <2>3. y = [x EXCEPT !.remotes = Append(@, Rem(i)),
                      !.col["proto"] = IF @ = Unset THEN Unset ELSE @]
    BY <2>1, <2>2 DEF ParseRemote, Rem
  <2>4. /\ DOMAIN y = ResultFields /\ y.remotes = Append(x.remotes, Rem(i)) /\ y.inline = x.inline
        /\ DOMAIN y.col = Columns /\ \A k \in Columns : y.col[k] = x.col[k]
    BY <1>1, <2>3 DEF ResultFields
  <2>5. ASeq(x.remotes)
    BY <1>2 DEF Fit
  <2>6. ASeq(y.remotes) /\ LineSet(y.remotes) = LineSet(x.remotes) \cup {Rem(i)}
    BY <2>4, <2>5, SetAppended
  <2>7. Filled \subseteq Columns
    BY DEF Filled, Columns
  <2>8. Grows(f, i, x, y)
    BY <2>4, <2>6, <2>7 DEF Grows
  <2>9. d.k \notin ValueKeys
    BY <1>6 DEF ValueKeys
  <2>10. Noted(f, i, y, d)
    BY <1>2, <1>6, <2>6, <2>9 DEF Noted
  <2>11. Fit(f, i, b, y)
    BY <1>2, <2>4, <2>6, <2>7 DEF Fit
  <2>. QED
    BY <2>8, <2>10, <2>11 DEF y
<1>7. CASE d.k = "<>"
  <2>1. y = [x EXCEPT !.inline = Append(@, d)]
    BY <1>7 DEF ParseLine, ParseBlock, Ignored, Columns, Folded
  <2>. HIDE DEF y
  <2>2. /\ DOMAIN y = ResultFields /\ y.remotes = x.remotes /\ y.inline = Append(x.inline, d)
        /\ y.col = x.col
    BY <1>1, <2>1 DEF ResultFields
  <2>3. ASeq(x.inline)
    BY DEF Fit
  <2>4. ASeq(y.inline) /\ LineSet(y.inline) = LineSet(x.inline) \cup {d}
    BY <2>2, <2>3, SetAppended
  <2>5. Grows(f, i, x, y)
    BY <2>2, <2>4 DEF Grows
  <2>6. d.k \notin ValueKeys
    BY <1>7 DEF ValueKeys
  <2>7. Noted(f, i, y, d)
    BY <1>2, <1>7, <2>4, <2>6 DEF Noted
  <2>8. Fit(f, i, b, y)
    BY <1>1, <1>2, <1>7, <2>2, <2>4 DEF Fit
  <2>. QED
    BY <2>5, <2>7, <2>8 DEF y
<1>. HIDE DEF y
<1>8. Fit(f, i, b, y) /\ Noted(f, i, y, d) /\ Grows(f, i, x, y)
  BY <1>3, <1>4, <1>5, <1>6, <1>7 DEF Offered, y
<1>. QED
  BY <1>8 DEF y

(* A block of a profile, as the daemon files it.                            *)
LEMMA BlockFits ==
    ASSUME NEW i, NEW b, NEW x, NEW f \in Filer, Fit(f, i, b, x), NEW d, Offered(i, d), d.k = "<>"
    PROVE  LET y == Materialize1(x, d) IN
           Fit(f, i, b, y) /\ Noted(f, i, y, d) /\ Grows(f, i, x, y)
<1>. DEFINE y == Materialize1(x, d)
<1>1. PICK tag \in Tags : d.v = <<tag, Want(i, tag)>>
  BY DEF Offered, OtherKeys, ValueKeys
<1>2. d.v[1] = tag /\ d.v[2] = Want(i, tag)
  BY <1>1
<1>3. y = [x EXCEPT !.col[tag] = Want(i, tag)]
  BY <1>2 DEF Materialize1, Tags
<1>. HIDE DEF y
<1>4. SetsColumn(x, y, tag, Want(i, tag))
  BY <1>3 DEF SetsColumn, Fit, ResultFields
<1>5. tag \in Filled
  BY DEF Tags, Filled
<1>6. Fit(f, i, b, y) /\ Grows(f, i, x, y) /\ y.col[tag] = Want(i, tag)
  BY <1>4, <1>5, SetFits
<1>7. f \notin Reader /\ f # "line"
  BY DEF Reader, Filer
<1>. QED
  BY <1>2, <1>6, <1>7 DEF y, Noted

(* A line of a profile, as the console reads it.                            *)
LEMMA ConsoleLineFits ==
    ASSUME NEW i, Device(i) \in {"tun", "tap"}, NEW b, NEW x, Fit("consoleLine", i, b, x),
           NEW d, Offered(i, d)
    PROVE  LET y == ConsoleLine(x, d) IN
           /\ Fit("consoleLine", i, b, y) /\ Noted("consoleLine", i, y, d)
           /\ Grows("consoleLine", i, x, y)
<1>. DEFINE y == ConsoleLine(x, d)
            f == "consoleLine"
<1>1. DOMAIN x = ResultFields /\ DOMAIN x.col = Columns
  BY DEF Fit
<1>2. f \in Reader /\ f \notin Filer /\ f \in Console /\ f # "line"
  BY DEF Reader, Filer, Console
<1>3. CASE d.k \in OtherKeys \cup {"<>"}
  <2>1. \/ y = x
        \/ y = [x EXCEPT !.extra = Append(@, d)] /\ d.k \in Kept
    <3>1. d.k \notin {"remote", "dev", "dev-type", "proto", "cipher", "auth", "ca", "cert",
                      "key", "tls-crypt", "tls-auth", "data-ciphers", "secret"}
      BY <1>3 DEF OtherKeys, ProfileKeys, ValueKeys
    <3>2. CASE d.k \in Kept
      BY <3>1, <3>2 DEF ConsoleLine
    <3>3. CASE d.k \notin Kept
      BY <3>1, <3>3 DEF ConsoleLine
    <3>. QED
      BY <3>2, <3>3
  <2>. HIDE DEF y
  <2>2. /\ DOMAIN y = ResultFields /\ y.col = x.col /\ y.remotes = x.remotes /\ y.inline = x.inline
        /\ y.plugins = x.plugins /\ y.routes = x.routes /\ y.dns = x.dns
        /\ y.extra = x.extra \/ (y.extra = Append(x.extra, d) /\ d.k \in Kept)
    BY <1>1, <2>1 DEF ResultFields
  <2>3. ASeq(x.extra) /\ Keywords(x.extra) \subseteq Kept
    BY <1>2 DEF Fit
  <2>. HIDE DEF Kept
  <2>4. ASeq(y.extra) /\ Keywords(y.extra) \subseteq Kept
    <3>1. ASeq(Append(x.extra, d)) /\ Keywords(Append(x.extra, d)) = Keywords(x.extra) \cup {d.k}
      BY <2>3, KeywordsAppended
    <3>. QED
      BY <2>2, <2>3, <3>1
  <2>5. d.k \notin ValueKeys /\ d.k \notin {"dev", "remote"}
    BY <1>3 DEF OtherKeys, ValueKeys
  <2>6. Grows(f, i, x, y) /\ Noted(f, i, y, d)
    BY <1>2, <2>2, <2>5 DEF Grows, Noted
  <2>7. Fit(f, i, b, y)
    BY <1>1, <1>2, <2>2, <2>4 DEF Fit
  <2>. QED
    BY <2>6, <2>7 DEF y
<1>4. CASE d.k \in ValueKeys /\ d.v = <<Want(i, d.k)>>
  <2>1. d.v[1] = Want(i, d.k) /\ Len(d.v) = 1
    BY <1>4
  <2>2. y = [x EXCEPT !.col[d.k] = d.v[1]]
    BY <1>4, <2>1 DEF ConsoleLine, ParseValue, ValueKeys, Columns, Kept
  <2>. HIDE DEF y
  <2>3. SetsColumn(x, y, d.k, Want(i, d.k))
    BY <1>1, <2>1, <2>2 DEF SetsColumn, ResultFields
  <2>4. d.k \in Filled
    BY <1>4 DEF ValueKeys, Filled
  <2>5. Fit(f, i, b, y) /\ Grows(f, i, x, y) /\ y.col[d.k] = Want(i, d.k)
    BY <1>2, <2>3, <2>4, SetFits
  <2>6. d.k \notin {"dev", "remote", "<>"}
    BY <1>4 DEF ValueKeys
  <2>. QED
    BY <1>2, <2>5, <2>6 DEF y, Noted
<1>5. CASE d.k = "dev" /\ d.v = <<Want(i, "dev-type")>>
  <2>1. d.v[1] = Want(i, "dev-type") /\ d.v[1] \in {"tun", "tap"}
    BY <1>5 DEF Want
  <2>2. DevKind(d.v[1]) = d.v[1] /\ d.v[1] # Unset
    BY <2>1, ConfAssumption DEF DevKind
  <2>3. y = [x EXCEPT !.col["dev-type"] = d.v[1]]
    BY <1>5, <2>2 DEF ConsoleLine, Kept
  <2>. HIDE DEF y
  <2>4. SetsColumn(x, y, "dev-type", Want(i, "dev-type"))
    BY <1>1, <2>1, <2>3 DEF SetsColumn, ResultFields
  <2>5. "dev-type" \in Filled
    BY DEF Filled
  <2>6. Fit(f, i, b, y) /\ Grows(f, i, x, y) /\ y.col["dev-type"] = Want(i, "dev-type")
    BY <1>2, <2>4, <2>5, SetFits
  <2>7. d.k \notin ValueKeys
    BY <1>5 DEF ValueKeys
  <2>. QED
    BY <1>2, <1>5, <2>6, <2>7 DEF y, Noted
<1>6. CASE d.k = "remote" /\ d.v = <<"endpoint", Endpoint(i)>>
  <2>1. y = ParseRemote(x, d.v)
    BY <1>6 DEF ConsoleLine, Kept
  <2>2. Len(d.v) = 2 /\ d.v[1] = "endpoint" /\ d.v[2] = Endpoint(i)
    BY <1>6
  <2>. HIDE DEF y
  <2>3. y = [x EXCEPT !.remotes = Append(@, Rem(i)),
                      !.col["proto"] = IF @ = Unset THEN Unset ELSE @]
    BY <2>1, <2>2 DEF ParseRemote, Rem
  <2>4. /\ DOMAIN y = ResultFields /\ y.remotes = Append(x.remotes, Rem(i))
        /\ DOMAIN y.col = Columns /\ \A k \in Columns : y.col[k] = x.col[k]
        /\ y.plugins = x.plugins /\ y.routes = x.routes /\ y.dns = x.dns /\ y.extra = x.extra
    BY <1>1, <2>3 DEF ResultFields
  <2>5. ASeq(x.remotes)
    BY <1>2 DEF Fit
  <2>6. ASeq(y.remotes) /\ LineSet(y.remotes) = LineSet(x.remotes) \cup {Rem(i)}
    BY <2>4, <2>5, SetAppended
  <2>7. Filled \subseteq Columns
    BY DEF Filled, Columns
  <2>8. Grows(f, i, x, y)
    BY <1>2, <2>4, <2>6, <2>7 DEF Grows
  <2>9. d.k \notin ValueKeys
    BY <1>6 DEF ValueKeys
  <2>10. Noted(f, i, y, d)
    BY <1>2, <1>6, <2>6, <2>9 DEF Noted
  <2>11. Fit(f, i, b, y)
    BY <1>2, <2>4, <2>6, <2>7 DEF Fit
  <2>. QED
    BY <2>8, <2>10, <2>11 DEF y
<1>. HIDE DEF y
<1>7. Fit(f, i, b, y) /\ Noted(f, i, y, d) /\ Grows(f, i, x, y)
  BY <1>3, <1>4, <1>5, <1>6 DEF Offered, y
<1>. QED
  BY <1>7 DEF y

LEMMA StepFits ==
    ASSUME NEW f \in Reader \cup Filer, NEW i, Device(i) \in {"tun", "tap"}, NEW b,
           NEW x, Fit(f, i, b, x), NEW d, Offered(i, d), f = "block" => d.k = "<>"
    PROVE  LET y == Step(f, x, d) IN
           Fit(f, i, b, y) /\ Noted(f, i, y, d) /\ Grows(f, i, x, y)
<1>1. CASE f = "line"
  BY <1>1, LineFits DEF Step
<1>2. CASE f = "consoleLine"
  BY <1>2, ConsoleLineFits DEF Step
<1>3. CASE f = "block"
  BY <1>3, BlockFits DEF Step, Filer
<1>4. CASE f = "consoleBlock"
  <2>1. Step(f, x, d) = ConsoleBlock(x, d)
    BY <1>4 DEF Step
  <2>2. CASE d.k = "<>"
    <3>1. PICK tag \in Tags : d.v = <<tag, Want(i, tag)>>
      BY <2>2 DEF Offered, OtherKeys, ValueKeys
    <3>2. d.v[1] = tag
      BY <3>1
    <3>3. ConsoleBlock(x, d) = Materialize1(x, d)
      BY <2>2, <3>2 DEF ConsoleBlock, Tags
    <3>. QED
      BY <1>4, <2>1, <2>2, <3>3, BlockFits DEF Filer
  <2>3. CASE d.k # "<>"
    <3>1. ConsoleBlock(x, d) = x
      BY <2>3 DEF ConsoleBlock
    <3>2. f \notin Reader /\ f # "line"
      BY <1>4 DEF Reader
    <3>. QED
      BY <2>1, <2>3, <3>1, <3>2 DEF Noted, Grows
  <2>. QED
    BY <2>2, <2>3
<1>. QED
  BY <1>1, <1>2, <1>3, <1>4 DEF Reader, Filer

(* A fold over offered lines has made of each what it should.                *)
LEMMA ChainFits ==
    ASSUME NEW f \in Reader \cup Filer, NEW i, Device(i) \in {"tun", "tap"}, NEW b,
           Fit(f, i, b, b), NEW c, AllOffered(i, c),
           f = "block" => \A d \in LineSet(c) : d.k = "<>",
           NEW g, IsChain(g, f, b, c, Len(c))
    PROVE  Fit(f, i, b, g[Len(c)]) /\ \A d \in LineSet(c) : Noted(f, i, g[Len(c)], d)
<1>. DEFINE n == Len(c)
            Good(j) == Fit(f, i, b, g[j]) /\ \A l \in 1..j : Noted(f, i, g[j], c[l])
            I == {j \in Nat : j <= n => Good(j)}
<1>1. n \in Nat /\ DOMAIN c = 1..n
  BY Joined DEF AllOffered
<1>2. 0 \in I
  <2>1. 1..0 = {}
    OBVIOUS
  <2>. QED
    BY <2>1 DEF IsChain
<1>3. ASSUME NEW j \in Nat, j \in I PROVE j + 1 \in I
  <2>. SUFFICES ASSUME j + 1 <= n PROVE Good(j + 1)
    <3>. HIDE DEF Good, n
    <3>. QED
      OBVIOUS
  <2>. HIDE DEF n
  <2>1. j + 1 \in 1..n /\ (j + 1) - 1 = j /\ j <= n
    BY <1>1
  <2>2. g[j + 1] = Step(f, g[j], c[j + 1])
    BY <2>1 DEF IsChain, n
  <2>3. Good(j)
    BY <1>3, <2>1
  <2>4. \A l \in 1..n : c[l] \in LineSet(c) /\ Offered(i, c[l])
    BY <1>1 DEF AllOffered, LineSet
  <2>5. /\ Fit(f, i, b, g[j + 1]) /\ Noted(f, i, g[j + 1], c[j + 1])
        /\ Grows(f, i, g[j], g[j + 1])
    BY <2>1, <2>2, <2>3, <2>4, StepFits
  <2>6. \A l \in 1..j : l \in 1..n
    BY <1>1, <2>1
  <2>7. \A l \in 1..j : Noted(f, i, g[j + 1], c[l])
    BY <2>3, <2>4, <2>5, <2>6, StaysNoted
  <2>8. \A l \in 1..(j + 1) : l \in 1..j \/ l = j + 1
    OBVIOUS
  <2>. QED
    BY <2>5, <2>7, <2>8
<1>4. Nat \subseteq I
  <2>. HIDE DEF I
  <2>. QED
    BY <1>2, <1>3, NaturalsIn
<1>5. Good(n)
  BY <1>1, <1>4
<1>. QED
  BY <1>1, <1>5 DEF LineSet

(* A fold that has not begun.                                               *)
LEMMA NoResultFits ==
    ASSUME NEW f \in Reader, NEW i
    PROVE  Fit(f, i, NoResult, NoResult)
<1>1. /\ DOMAIN NoResult = ResultFields /\ DOMAIN NoResult.col = Columns
      /\ NoResult.remotes = <<>> /\ NoResult.inline = <<>> /\ NoResult.extra = <<>>
  BY DEF NoResult, ResultFields
<1>. HIDE DEF NoResult
<1>2. f \notin Filer
  BY DEF Reader, Filer
<1>. QED
  BY <1>1, <1>2, SetOfNone, EmptyHasNone DEF Fit

(* What a request to import a profile of i asks for.                         *)
Matched == ValueKeys \cup {"dev-type", "ca", "tls-crypt"}
Fitting(i, x) ==
    (\A k \in Matched : x.col[k] = Want(i, k)) /\ LineSet(x.remotes) = {Rem(i)}

(* From the reading of the lines to the filing of the blocks.                *)
LEMMA FilingFits ==
    ASSUME NEW f \in Reader, NEW i, NEW r, Fit(f, i, NoResult, r),
           \A d \in Needed(i) : Noted(f, i, r, d),
           NEW h \in Filer, NEW q, q.col = r.col, q.remotes = r.remotes,
           NEW m, Fit(h, i, q, m),
           \A d \in Needed(i) : Noted(h, i, m, d)
    PROVE  Fitting(i, m)
<1>1. f \notin Filer /\ h \notin Reader
  BY DEF Reader, Filer
<1>2. \A k \in Filled : m.col[k] \in {r.col[k], Want(i, k)} /\ r.col[k] \in {Unset, Want(i, k)}
  <2>1. \A k \in Filled : NoResult.col[k] = Unset
    BY DEF NoResult, Filled, Columns
  <2>. QED
    BY <2>1 DEF Fit
<1>3. ASSUME NEW k \in ValueKeys PROVE m.col[k] = Want(i, k)
  <2>1. D(k, <<Want(i, k)>>) \in Needed(i) /\ k \in Filled
    BY DEF Needed, ValueKeys, Filled
  <2>2. D(k, <<Want(i, k)>>).k = k
    BY DEF D
  <2>3. r.col[k] = Want(i, k)
    BY <2>1, <2>2 DEF Noted
  <2>. QED
    BY <1>2, <2>1, <2>3
<1>4. m.col["dev-type"] = Want(i, "dev-type")
  <2>1. D("dev", <<Want(i, "dev-type")>>) \in Needed(i) /\ "dev-type" \in Filled
    BY DEF Needed, Filled
  <2>2. D("dev", <<Want(i, "dev-type")>>).k = "dev"
    BY DEF D
  <2>3. r.col["dev-type"] = Want(i, "dev-type")
    BY <2>1, <2>2 DEF Noted
  <2>. QED
    BY <1>2, <2>1, <2>3
<1>5. ASSUME NEW tag \in {"ca", "tls-crypt"} PROVE m.col[tag] = Want(i, tag)
  <2>1. tag \in Filled
    BY DEF Filled
  <2>2. CASE Want(i, tag) = Unset
    BY <1>2, <2>1, <2>2
  <2>3. CASE Want(i, tag) # Unset
    <3>. DEFINE d == D("<>", <<tag, Want(i, tag)>>)
    <3>1. d \in Needed(i)
      BY <2>3 DEF Needed
    <3>2. d.k = "<>" /\ d.v[1] = tag
      BY DEF D
    <3>. HIDE DEF d
    <3>3. Noted(h, i, m, d)
      BY <3>1
    <3>. QED
      BY <3>2, <3>3 DEF Noted
  <2>. QED
    BY <2>2, <2>3
<1>6. LineSet(m.remotes) = {Rem(i)}
  <2>1. D("remote", <<"endpoint", Endpoint(i)>>) \in Needed(i)
    BY DEF Needed
  <2>2. D("remote", <<"endpoint", Endpoint(i)>>).k = "remote"
    BY DEF D
  <2>3. LineSet(r.remotes) # {}
    BY <2>1, <2>2 DEF Noted
  <2>4. LineSet(r.remotes) \subseteq {Rem(i)} /\ m.remotes = r.remotes
    BY DEF Fit
  <2>. QED
    BY <2>3, <2>4
<1>. HIDE DEF ValueKeys
<1>. QED
  BY <1>3, <1>4, <1>5, <1>6 DEF Fitting, Matched

(* The daemon: lines, then blocks, then defaults.                           *)
LEMMA RequestByAPIFits ==
    ASSUME NEW i, Device(i) \in {"tun", "tap"}
    PROVE  Fitting(i, Imported(RenderClientProfile(i)))
<1>. DEFINE p == RenderClientProfile(i)
            r == FoldLeft(ParseLine, NoResult, p)
            q == Parse(p)
            m == FoldLeft(Materialize1, q, q.inline)
            u == Materialize(q)
<1>1. AllOffered(i, p) /\ ASeq(p) /\ Needed(i) \subseteq LineSet(p)
  BY ProfileOffers DEF AllOffered
<1>. HIDE DEF p
<1>2. "line" \in Reader /\ "block" \in Filer /\ "block" \notin Reader /\ "block" \notin Console
  BY DEF Reader, Filer, Console
<1>3. Fit("line", i, NoResult, r) /\ \A d \in LineSet(p) : Noted("line", i, r, d)
  <2>1. PICK g : IsChain(g, "line", NoResult, p, Len(p)) /\ r = g[Len(p)]
    BY <1>1, LineChain
  <2>. HIDE DEF r
  <2>2. Fit("line", i, NoResult, NoResult)
    BY <1>2, NoResultFits
  <2>3. "line" \in Reader \cup Filer /\ "line" # "block"
    BY <1>2
  <2>. QED
    BY <1>1, <2>1, <2>2, <2>3, ChainFits
<1>4. q = [r EXCEPT !.role = InferredRole(r), !.extra = r.pushed \o r.extra]
  BY DEF Parse
<1>. HIDE DEF r, q
<1>5. DOMAIN q = ResultFields /\ q.col = r.col /\ q.remotes = r.remotes /\ q.inline = r.inline
  BY <1>3, <1>4 DEF Fit, ResultFields
<1>6. ASeq(q.inline) /\ AllOffered(i, q.inline) /\ \A d \in LineSet(q.inline) : d.k = "<>"
  BY <1>3, <1>5 DEF Fit, AllOffered
<1>7. Fit("block", i, q, q)
  BY <1>2, <1>3, <1>5 DEF Fit
<1>8. Fit("block", i, q, m) /\ \A d \in LineSet(q.inline) : Noted("block", i, m, d)
  <2>1. PICK g : IsChain(g, "block", q, q.inline, Len(q.inline)) /\ m = g[Len(q.inline)]
    BY <1>6, BlockChain
  <2>. HIDE DEF m
  <2>2. "block" \in Reader \cup Filer
    BY <1>2
  <2>. QED
    BY <1>6, <1>7, <2>1, <2>2, ChainFits
<1>9. \A d \in Needed(i) : Noted("line", i, r, d)
  BY <1>1, <1>3
<1>10. \A d \in Needed(i) : Noted("block", i, m, d)
  <2>. SUFFICES ASSUME NEW d \in Needed(i) PROVE Noted("block", i, m, d)
    OBVIOUS
  <2>. HIDE DEF m
  <2>1. CASE d.k = "<>"
    <3>1. d \in LineSet(q.inline)
      BY <1>2, <1>5, <1>9, <2>1 DEF Noted
    <3>. QED
      BY <1>8, <3>1
  <2>2. CASE d.k # "<>"
    BY <1>2, <2>2 DEF Noted
  <2>. QED
    BY <2>1, <2>2
<1>11. Fitting(i, m)
  <2>. HIDE DEF m
  <2>. QED
    BY <1>2, <1>3, <1>5, <1>8, <1>9, <1>10, FilingFits
<1>12. u = [m EXCEPT !.inline = <<>>]
  BY DEF Materialize
<1>13. DOMAIN m = ResultFields
  BY <1>8 DEF Fit
<1>. HIDE DEF m
<1>14. DOMAIN u = ResultFields /\ u.col = m.col /\ u.remotes = m.remotes
  BY <1>12, <1>13 DEF ResultFields
<1>15. Imported(p) = [u EXCEPT !.extra = @ \o FoldedArgs(u.fold), !.fold = NoResult.fold]
  BY DEF Imported, ToCreateRequest, q
<1>. HIDE DEF u
<1>16. Imported(p).col = u.col /\ Imported(p).remotes = u.remotes
  BY <1>14, <1>15 DEF ResultFields
<1>. QED
  BY <1>11, <1>14, <1>16 DEF Fitting, p

(* The console: lines and blocks in two passes.                             *)
LEMMA RequestByConsoleFits ==
    ASSUME NEW i, Device(i) \in {"tun", "tap"}
    PROVE  LET x == ConsoleImported(RenderClientProfile(i)) IN
           /\ Fitting(i, x) /\ ASeq(x.remotes)
           /\ x.plugins = <<>> /\ x.routes = <<>> /\ x.dns = <<>>
           /\ ASeq(x.extra) /\ Keywords(x.extra) \subseteq Kept
           /\ DOMAIN x.col = Columns
<1>. DEFINE p == RenderClientProfile(i)
            r == FoldLeft(ConsoleLine, NoResult, p)
            m == FoldLeft(ConsoleBlock, r, p)
            x == ConsoleImported(p)
<1>1. AllOffered(i, p) /\ ASeq(p) /\ Needed(i) \subseteq LineSet(p)
  BY ProfileOffers DEF AllOffered
<1>. HIDE DEF p
<1>2. /\ "consoleLine" \in Reader /\ "consoleBlock" \in Filer /\ "consoleBlock" \notin Reader
      /\ "consoleBlock" \in Console /\ "consoleLine" \in Console
  BY DEF Reader, Filer, Console
<1>3. Fit("consoleLine", i, NoResult, r) /\ \A d \in LineSet(p) : Noted("consoleLine", i, r, d)
  <2>1. PICK g : IsChain(g, "consoleLine", NoResult, p, Len(p)) /\ r = g[Len(p)]
    BY <1>1, ConsoleLineChain
  <2>. HIDE DEF r
  <2>2. Fit("consoleLine", i, NoResult, NoResult)
    BY <1>2, NoResultFits
  <2>3. "consoleLine" \in Reader \cup Filer /\ "consoleLine" # "block"
    BY <1>2
  <2>. QED
    BY <1>1, <2>1, <2>2, <2>3, ChainFits
<1>. HIDE DEF r
<1>4. Fit("consoleBlock", i, r, r)
  <2>1. "consoleBlock" # "line"
    OBVIOUS
  <2>. QED
    BY <1>2, <1>3, <2>1 DEF Fit
<1>5. Fit("consoleBlock", i, r, m) /\ \A d \in LineSet(p) : Noted("consoleBlock", i, m, d)
  <2>1. PICK g : IsChain(g, "consoleBlock", r, p, Len(p)) /\ m = g[Len(p)]
    BY <1>1, ConsoleBlockChain
  <2>. HIDE DEF m
  <2>2. "consoleBlock" \in Reader \cup Filer /\ "consoleBlock" # "block"
    BY <1>2
  <2>. QED
    BY <1>1, <1>4, <2>1, <2>2, ChainFits
<1>6. x = [m EXCEPT !.role = "client"]
  BY DEF ConsoleImported, r
<1>. HIDE DEF m, x
<1>7. Fitting(i, m)
  BY <1>1, <1>2, <1>3, <1>5, FilingFits
<1>8. /\ x.col = m.col /\ x.remotes = m.remotes /\ x.plugins = m.plugins /\ x.routes = m.routes
      /\ x.dns = m.dns /\ x.extra = m.extra
  BY <1>5, <1>6 DEF Fit, ResultFields
<1>9. /\ m.remotes = r.remotes /\ m.plugins = r.plugins /\ m.routes = r.routes /\ m.dns = r.dns
      /\ ASeq(m.extra) /\ Keywords(m.extra) \subseteq Kept /\ DOMAIN m.col = Columns
  BY <1>2, <1>5 DEF Fit
<1>10. /\ ASeq(r.remotes) /\ r.plugins = NoResult.plugins /\ r.routes = NoResult.routes
       /\ r.dns = NoResult.dns
  BY <1>2, <1>3 DEF Fit
<1>11. NoResult.plugins = <<>> /\ NoResult.routes = <<>> /\ NoResult.dns = <<>>
  BY DEF NoResult
<1>12. Fitting(i, x)
  BY <1>7, <1>8 DEF Fitting
<1>. QED
  BY <1>8, <1>9, <1>10, <1>11, <1>12 DEF x, p

(* The row another node makes of a profile of i, by either parser.           *)
Request(i, api) ==
    IF api THEN Imported(RenderClientProfile(i)) ELSE ConsoleImported(RenderClientProfile(i))

LEMMA PeerFits ==
    ASSUME NEW i, Device(i) \in {"tun", "tap"}, NEW api \in BOOLEAN
    PROVE  LET q == Prepared(Request(i, api)) IN
           /\ q.role = "client" /\ ~q.static
           /\ RowParts(q) /\ Quiet(q)
           /\ Fitting(i, q)
<1>. DEFINE r == Request(i, api)
            q == Prepared(r)
<1>1. q.role = "client" /\ ~q.static
  BY PeerIsClient DEF Request
<1>2. /\ Fitting(i, r) /\ DOMAIN r.col = Columns
      /\ ASeq(r.remotes) /\ ASeq(r.routes) /\ ASeq(r.dns) /\ ASeq(r.plugins)
      /\ Keywords(r.plugins) \subseteq {"plugin"}
      /\ ASeq(r.extra) /\ Keywords(r.extra) \cap Transport = {}
  <2>1. CASE api
    <3>1. r = Imported(RenderClientProfile(i))
      BY <2>1 DEF Request
    <3>2. ASeq(RenderClientProfile(i))
      BY ProfileOffers DEF AllOffered
    <3>3. ResultShape(r) /\ Fitting(i, r)
      BY <3>1, <3>2, ImportedShape, RequestByAPIFits
    <3>4. Transport \subseteq Taken
      BY DEF Taken
    <3>. HIDE DEF r, Transport, Taken
    <3>. QED
      BY <3>3, <3>4 DEF ResultShape
  <2>2. CASE ~api
    <3>1. r = ConsoleImported(RenderClientProfile(i))
      BY <2>2 DEF Request
    <3>2. /\ Fitting(i, r) /\ ASeq(r.remotes)
          /\ r.plugins = <<>> /\ r.routes = <<>> /\ r.dns = <<>>
          /\ ASeq(r.extra) /\ Keywords(r.extra) \subseteq Kept /\ DOMAIN r.col = Columns
      BY <3>1, RequestByConsoleFits
    <3>3. Kept \cap Transport = {}
      BY DEF Kept, Transport
    <3>. HIDE DEF r, Transport, Kept
    <3>. QED
      BY <3>2, <3>3, EmptyIsSeq, EmptyHasNone
  <2>. QED
    BY <2>1, <2>2
<1>. HIDE DEF r
<1>3. /\ q.remotes = r.remotes /\ q.routes = r.routes /\ q.dns = r.dns
      /\ q.plugins = r.plugins /\ q.extra = r.extra /\ q.features = <<>> /\ q.role = r.role
  BY DEF Prepared
<1>4. RowParts(q) /\ Quiet(q)
  <2>. HIDE DEF q, Transport
  <2>. QED
    BY <1>2, <1>3, EmptyIsSeq, EmptyHasNone DEF RowParts, Quiet
<1>5. r.role # "server"
  BY <1>1, <1>3
<1>6. q.col = [r.col EXCEPT !["proto"] = Or(@, "udp"), !["dev-type"] = Or(@, "tun"),
                            !["topology"] = @, !["port"] = @, !["data-ciphers"] = @, !["auth"] = @]
  BY <1>5 DEF Prepared
<1>7. \A k \in Matched : /\ k \in Columns
                         /\ k \notin {"proto", "dev-type"} => q.col[k] = r.col[k]
  <2>1. \A k \in Matched : k \in Columns
    BY DEF Matched, ValueKeys, Columns
  <2>. HIDE DEF q, Matched, Columns
  <2>. QED
    BY <1>2, <1>6, <2>1
<1>8. q.col["proto"] = Or(r.col["proto"], "udp") /\ q.col["dev-type"] = Or(r.col["dev-type"], "tun")
  <2>1. "proto" \in Columns /\ "dev-type" \in Columns
    BY DEF Columns
  <2>. HIDE DEF q, Columns
  <2>. QED
    BY <1>2, <1>6, <2>1
<1>. HIDE DEF q
<1>9. q.col["proto"] = Want(i, "proto") /\ q.col["dev-type"] = Want(i, "dev-type")
  <2>1. r.col["proto"] = Want(i, "proto") /\ r.col["dev-type"] = Want(i, "dev-type")
    BY <1>2 DEF Fitting, Matched, ValueKeys
  <2>2. Want(i, "proto") # Unset /\ Want(i, "dev-type") # Unset
    BY ConfAssumption DEF Want, Device, Or
  <2>. QED
    BY <1>8, <2>1, <2>2 DEF Or
<1>10. \A k \in Matched : q.col[k] = Want(i, k)
  BY <1>2, <1>7, <1>9 DEF Fitting
<1>11. Fitting(i, q)
  BY <1>2, <1>3, <1>10 DEF Fitting
<1>. QED
  BY <1>1, <1>4, <1>11 DEF q, r

(* One word after another.                                                  *)
LEMMA TwoWords ==
    ASSUME NEW a, NEW b
    PROVE  <<a>> \o <<b>> = <<a, b>>
<1>. DEFINE S == {a, b}
            s == <<a>> \o <<b>>
            t == <<a, b>>
<1>1. <<a>> \in Seq(S) /\ <<b>> \in Seq(S) /\ t \in Seq(S) /\ Len(<<a>>) = 1 /\ Len(<<b>>) = 1
      /\ <<a>>[1] = a /\ <<b>>[1] = b /\ Len(t) = 2 /\ t[1] = a /\ t[2] = b
  OBVIOUS
<1>2. s \in Seq(S) /\ Len(s) = 2 /\ s[1] = a /\ s[2] = b
  BY <1>1
<1>. HIDE DEF s, t, S
<1>3. DOMAIN s = 1..2 /\ DOMAIN t = 1..2 /\ s = [j \in 1..2 |-> s[j]] /\ t = [j \in 1..2 |-> t[j]]
  BY <1>1, <1>2
<1>4. \A j \in 1..2 : s[j] = t[j]
  BY <1>1, <1>2
<1>5. s = t
  BY <1>3, <1>4
<1>. QED
  BY <1>5 DEF s, t

(* Between a row of a server with certificates and the other node's.         *)
LEMMA FitBetween ==
    ASSUME NEW i, RowParts(i), Quiet(i), i.role = "server", ~i.static,
           i.col["dev-type"] \in {"tun", "tap"}, i.col["auth"] # Unset,
           NEW q, q.role = "client", ~q.static, RowParts(q), Quiet(q), Fitting(i, q)
    PROVE  LET server == RenderInstance(i) client == RenderInstance(q) IN
           /\ \A k \in {"proto", "auth", "ca", "tls-crypt"} : Value(client, k) = Value(server, k)
           /\ \A k \in {"cipher", "data-ciphers"} :
                 Value(server, k) \in {Unset, Value(client, k)}
           /\ i.col["dev-type"] = q.col["dev-type"]
           /\ Said(client, "remote") = {D("remote", <<"endpoint">> \o Value(server, "port"))}
<1>. DEFINE server == RenderInstance(i)
            client == RenderInstance(q)
<1>1. /\ Value(server, "proto") = <<Or(i.col["proto"], "udp")>>
      /\ Value(server, "port") = <<Endpoint(i)>>
      /\ \A k \in {"ca", "tls-crypt", "cipher", "data-ciphers", "auth"} :
            Value(server, k) = Words(i.col[k])
  BY RenderedFit DEF Endpoint
<1>2. /\ Value(client, "proto") = <<Or(q.col["proto"], "udp")>>
      /\ \A k \in {"ca", "tls-crypt", "cipher", "data-ciphers", "auth"} :
            Value(client, k) = Words(q.col[k])
  BY RenderedFit
<1>3. Said(client, "remote") = {D("remote", <<"endpoint", Endpoint(i)>>)}
  <2>1. LineSet(q.remotes) = {Rem(i)}
    BY DEF Fitting
  <2>2. Rem(i).host = "endpoint" /\ Rem(i).port = Endpoint(i) /\ Rem(i).proto = Unset
    BY DEF Rem
  <2>3. Said(client, "remote") = {D("remote", <<Rem(i).host, Rem(i).port>>)}
    BY <2>1, <2>2, RenderedRemote
  <2>. QED
    BY <2>2, <2>3
<1>. HIDE DEF server, client
<1>4. \A k \in Matched : q.col[k] = Want(i, k)
  BY DEF Fitting
<1>5. Value(client, "proto") = Value(server, "proto")
  <2>1. q.col["proto"] = Or(i.col["proto"], "udp")
    BY <1>4 DEF Matched, ValueKeys, Want
  <2>2. Or(q.col["proto"], "udp") = q.col["proto"]
    BY <2>1, ConfAssumption DEF Or
  <2>. QED
    BY <1>1, <1>2, <2>1, <2>2
<1>6. Value(client, "auth") = Value(server, "auth")
  <2>1. q.col["auth"] = i.col["auth"]
    BY <1>4 DEF Matched, ValueKeys, Want, Or
  <2>. QED
    BY <1>1, <1>2, <2>1
<1>7. \A k \in {"ca", "tls-crypt"} : Value(client, k) = Value(server, k)
  <2>1. \A k \in {"ca", "tls-crypt"} : q.col[k] = i.col[k]
    BY <1>4 DEF Matched, Want
  <2>. QED
    BY <1>1, <1>2, <2>1
<1>8. \A k \in {"cipher", "data-ciphers"} : Value(server, k) \in {Unset, Value(client, k)}
  <2>1. \A k \in {"cipher", "data-ciphers"} : i.col[k] # Unset => q.col[k] = i.col[k]
    BY <1>4 DEF Matched, ValueKeys, Want, Data, Or
  <2>. QED
    BY <1>1, <1>2, <2>1 DEF Words
<1>9. i.col["dev-type"] = q.col["dev-type"]
  <2>1. q.col["dev-type"] = Or(i.col["dev-type"], "tun")
    BY <1>4 DEF Matched, Want, Device
  <2>. QED
    BY <2>1, ConfAssumption DEF Or
<1>10. <<"endpoint">> \o Value(server, "port") = <<"endpoint", Endpoint(i)>>
  BY <1>1, TwoWords
<1>. QED
  BY <1>3, <1>5, <1>6, <1>7, <1>8, <1>9, <1>10 DEF server, client

------------------------------------------------------------------------------
(* A row stays one whose profiles fit; the profile and the other node's row  *)
(* are of that row.                                                          *)
RowFits ==
    row # NoRow =>
        /\ row.col["dev-type"] \in {"tun", "tap"}
        /\ row.role = "server" /\ ~row.static => row.col["auth"] # Unset
        /\ Keywords(row.features) \cap Transport = {}
HandedOut == row # NoRow /\ row.role = "server" /\ ~row.static
ProfileFrom == profile # NoConf => HandedOut
PeerFrom ==
    peer # NoRow => HandedOut /\ \E api \in BOOLEAN : peer = Prepared(Request(row, api))

FitInv == RowFits /\ ProfileFrom /\ PeerFrom

(* What Prepare returns has a device of a type and, for a server, a digest. *)
LEMMA PreparedFits ==
    ASSUME NEW r, ResultShape(r), ~Rejected(r)
    PROVE  LET p == Prepared(r) IN
           /\ p.col["dev-type"] \in {"tun", "tap"}
           /\ p.role = "server" /\ ~p.static => p.col["auth"] # Unset
<1>. DEFINE p == Prepared(r)
<1>1. DOMAIN r.col = Columns
  BY DEF ResultShape
<1>2. p.role = r.role /\ p.static = r.static
  BY DEF Prepared
<1>3. Or(r.col["dev-type"], "tun") \in {"tun", "tap"}
  BY DEF Rejected
<1>4. "dev-type" \in Columns /\ "auth" \in Columns
  BY DEF Columns
<1>5. p.col["dev-type"] = Or(r.col["dev-type"], "tun")
  <2>. HIDE DEF Columns
  <2>. QED
    BY <1>1, <1>4 DEF Prepared
<1>6. r.role = "server" /\ ~r.static => p.col["auth"] = Or(r.col["auth"], "SHA256")
  <2>. HIDE DEF Columns
  <2>. QED
    BY <1>1, <1>4 DEF Prepared
<1>7. Or(r.col["auth"], "SHA256") # Unset
  BY ConfAssumption DEF Or
<1>. HIDE DEF p
<1>8. p.col["dev-type"] \in {"tun", "tap"}
  BY <1>3, <1>5
<1>9. p.role = "server" /\ ~p.static => p.col["auth"] # Unset
  BY <1>2, <1>6, <1>7
<1>. QED
  BY <1>8, <1>9 DEF p

(* Every step keeps what the profiles rest on.                              *)
LEMMA NextFitInv ==
    ASSUME FeaturesLeaveTransport, PatchesAreDefinite, ConfInv, FitInv, [Next]_vars
    PROVE  FitInv'
<1>1. CASE Adopt
  <2>1. /\ row = NoRow /\ ResultShape(Imported(conf)) /\ ~Rejected(Imported(conf))
        /\ row' = Prepared(Imported(conf)) /\ UNCHANGED <<profile, peer>>
    BY <1>1, ImportedShape DEF Adopt, ConfInv, ConfOK
  <2>2. row'.features = <<>>
    BY <2>1, PreparedShape
  <2>. HIDE DEF Transport
  <2>3. RowFits'
    BY <2>1, <2>2, PreparedFits, EmptyHasNone DEF RowFits
  <2>4. profile = NoConf /\ peer = NoRow
    BY <2>1 DEF FitInv, ProfileFrom, PeerFrom, HandedOut
  <2>. QED
    BY <2>1, <2>3, <2>4 DEF FitInv, ProfileFrom, PeerFrom, HandedOut
<1>2. CASE \E p \in Patches : Patch(p)
  <2>1. PICK p \in Patches : Patch(p)
    BY <1>2
  <2>2. /\ row # NoRow /\ profile' = NoConf /\ peer' = NoRow
        /\ row' = IF p.k \in Columns THEN [row EXCEPT !.col[p.k] = p.v]
                  ELSE [row EXCEPT !.typed[p.k] = p.v]
    BY <2>1 DEF Patch
  <2>3. DOMAIN row = RowFields /\ DOMAIN row.col = Columns
    BY <2>2 DEF ConfInv, RowOK, RowShape
  <2>4. /\ row'.role = row.role /\ row'.static = row.static /\ row'.features = row.features
        /\ row'.col = IF p.k \in Columns THEN [row.col EXCEPT ![p.k] = p.v] ELSE row.col
    BY <2>2, <2>3 DEF RowFields
  <2>5. \A k \in Columns : row'.col[k] = row.col[k] \/ (k = p.k /\ row'.col[k] = p.v)
    <3>. HIDE DEF Columns
    <3>. QED
      BY <2>3, <2>4
  <2>6. "dev-type" \in Columns /\ "auth" \in Columns
    BY DEF Columns
  <2>. HIDE DEF Transport, Columns
  <2>7. RowFits'
    BY <2>2, <2>4, <2>5, <2>6 DEF FitInv, RowFits, PatchesAreDefinite
  <2>. QED
    BY <2>2, <2>7 DEF FitInv, ProfileFrom, PeerFrom, HandedOut
<1>3. CASE \E f \in Features : AddFeature(f)
  <2>1. PICK f \in Features : AddFeature(f)
    BY <1>3
  <2>2. /\ row # NoRow /\ RowShape(row) /\ ASeq(f) /\ profile' = NoConf /\ peer' = NoRow
        /\ row' = [row EXCEPT !.features = @ \o f]
    BY <2>1, ConfigurationsAreSeqs DEF AddFeature, ConfInv, RowOK
  <2>3. /\ row'.features = row.features \o f /\ row'.role = row.role
        /\ row'.static = row.static /\ row'.col = row.col
    BY <2>2 DEF RowShape, RowFields
  <2>4. Keywords(row.features \o f) = Keywords(row.features) \cup Keywords(f)
    BY <2>2, KeywordsJoined DEF RowShape
  <2>. HIDE DEF Transport
  <2>5. RowFits'
    BY <2>2, <2>3, <2>4 DEF FitInv, RowFits, FeaturesLeaveTransport
  <2>. QED
    BY <2>2, <2>5 DEF FitInv, ProfileFrom, PeerFrom, HandedOut
<1>4. CASE LoseDatabase
  BY <1>4 DEF LoseDatabase, FitInv, RowFits, ProfileFrom, PeerFrom, HandedOut
<1>5. CASE HandOut
  <2>1. /\ row # NoRow /\ row.role = "server" /\ ~row.static
        /\ profile' = RenderClientProfile(row) /\ UNCHANGED <<row, peer>>
    BY <1>5 DEF HandOut
  <2>3. RowFits'
    BY <2>1 DEF FitInv, RowFits
  <2>4. ProfileFrom'
    BY <2>1 DEF ProfileFrom, HandedOut
  <2>5. PeerFrom'
    BY <2>1 DEF FitInv, PeerFrom, HandedOut
  <2>. QED
    BY <2>3, <2>4, <2>5 DEF FitInv
<1>6. CASE \E api \in BOOLEAN : ImportProfile(api)
  <2>1. PICK api \in BOOLEAN : ImportProfile(api)
    BY <1>6
  <2>2. /\ profile # NoConf /\ UNCHANGED <<row, profile>>
        /\ peer' = Prepared(IF api THEN Imported(profile) ELSE ConsoleImported(profile))
    BY <2>1 DEF ImportProfile
  <2>3. profile = RenderClientProfile(row)
    BY <2>2 DEF ConfInv, ProfileOK
  <2>4. peer' = Prepared(Request(row, api))
    BY <2>2, <2>3 DEF Request
  <2>5. RowFits' /\ ProfileFrom'
    BY <2>2 DEF FitInv, RowFits, ProfileFrom, HandedOut
  <2>6. PeerFrom'
    BY <2>2, <2>4 DEF FitInv, ProfileFrom, PeerFrom, HandedOut
  <2>. QED
    BY <2>5, <2>6 DEF FitInv
<1>7. CASE UNCHANGED <<row, profile, peer>>
  BY <1>7 DEF FitInv, RowFits, ProfileFrom, PeerFrom, HandedOut
<1>. QED
  BY <1>1, <1>2, <1>3, <1>4, <1>5, <1>6, <1>7 DEF Next, Render, vars

(* Whatever was adopted and patched since: a node that imports a profile of  *)
(* a server, by the API or by its console, gets a client that connects to it *)
(* with its port, protocol, device, digest, ciphers, authority and control   *)
(* channel key (confgen.RenderInstance and RenderClientProfile, confimport,  *)
(* tui parseClientProfile).                                                  *)
THEOREM ProfilesFit ==
    ASSUME FeaturesLeaveTransport, PatchesAreDefinite
    PROVE  Spec => []ProfileFits
<1>1. Init => FitInv
  BY DEF Init, FitInv, RowFits, ProfileFrom, PeerFrom, HandedOut
<1>2. FitInv /\ ConfInv /\ [Next]_vars => FitInv'
  BY NextFitInv
<1>3. ConfInv /\ FitInv => ProfileFits
  <2>. SUFFICES ASSUME ConfInv, FitInv, peer # NoRow PROVE ProfileFits
    BY DEF ProfileFits
  <2>1. /\ row # NoRow /\ row.role = "server" /\ ~row.static
        /\ row.col["dev-type"] \in {"tun", "tap"} /\ row.col["auth"] # Unset
        /\ Keywords(row.features) \cap Transport = {}
    BY DEF FitInv, RowFits, ProfileFrom, PeerFrom, HandedOut
  <2>2. PICK api \in BOOLEAN : peer = Prepared(Request(row, api))
    BY DEF FitInv, PeerFrom, HandedOut
  <2>3. RowShape(row)
    BY <2>1 DEF ConfInv, RowOK
  <2>4. RowParts(row) /\ Quiet(row)
    <3>1. Keywords(row.extra) \cap Taken = {}
      BY <2>3 DEF RowShape
    <3>2. Transport \subseteq Taken
      BY DEF Taken
    <3>. HIDE DEF Transport, Taken
    <3>. QED
      BY <2>1, <2>3, <3>1, <3>2, PartsOfRows DEF Quiet
  <2>5. Device(row) \in {"tun", "tap"}
    BY <2>1 DEF Device, Or
  <2>6. peer.role = "client" /\ ~peer.static /\ RowParts(peer) /\ Quiet(peer) /\ Fitting(row, peer)
    BY <2>2, <2>5, PeerFits
  <2>. QED
    BY <2>1, <2>4, <2>6, FitBetween DEF ProfileFits
<1>. QED
  BY <1>1, <1>2, <1>3, ConfInvariant, PTL DEF Spec

------------------------------------------------------------------------------
(* Adoption: what a configuration says and what the file of its row says.    *)
(* Lines are read one by one, later ones counting; the blocks are filed; the *)
(* request, the row and the file are described by sets of lines.             *)

------------------------------------------------------------------------------
(* What the import reads, line by line                                       *)

RoleKeys == {"client", "server", "mode", "tls-server", "tls-client"}
WordKeys == (Columns \ {"device"}) \cup Folded

(* Keywords the import leaves to the extra directives.                       *)
IsRest(k) ==
    k \notin Ignored \cup RoleKeys \cup WordKeys
             \cup {"<>", "lport", "dev", "secret", "remote", "push", "plugin",
                   "redirect-gateway"}

RemoteOf(v) ==
    [host |-> v[1], port |-> IF Len(v) > 1 THEN v[2] ELSE "1194",
     proto |-> IF Len(v) > 2 THEN v[3] ELSE Unset]

(* What one line makes of the result so far, by its keyword.                 *)
LineAs(r, d, x) ==
    /\ d.k \in Ignored => x = r
    /\ d.k = "<>" => x = [r EXCEPT !.inline = Append(@, d)]
    /\ d.k \in RoleKeys => x = ParseRole(r, d)
    /\ d.k = "lport" => x = [r EXCEPT !.col["port"] = d.v[1]]
    /\ d.k \in WordKeys =>
         x = IF d.k = "dh" /\ d.v[1] = "none" THEN r ELSE ParseValue(r, d)
    /\ d.k = "dev" => x = ParseDev(r, d.v)
    /\ d.k = "secret" => x = [r EXCEPT !.col["tls-auth"] = d.v[1], !.static = TRUE]
    /\ d.k = "remote" => x = ParseRemote(r, d.v)
    /\ d.k = "push" => x = ParsePush(r, d.v)
    /\ d.k = "plugin" => x = [r EXCEPT !.plugins = Append(@, d)]
    /\ d.k = "redirect-gateway" =>
         x = [r EXCEPT !.redirect = TRUE, !.extra = IF d.v = <<>> THEN @ ELSE Append(@, d)]
    /\ IsRest(d.k) => x = [r EXCEPT !.extra = Append(@, d)]

(* Of the cases of ParseLine, a keyword is in one.                           *)
LEMMA LineIs ==
    ASSUME NEW r, NEW d
    PROVE  LineAs(r, d, ParseLine(r, d))
<1>. DEFINE Line == ParseLine(r, d)
<1>1. CASE d.k \in Ignored
  <2>1. Line = r
    BY <1>1 DEF ParseLine, Ignored, Columns, Folded
  <2>2. d.k \notin RoleKeys \cup {"<>", "lport", "dev", "secret", "remote", "push", "plugin",
                                "redirect-gateway"}
    BY <1>1 DEF Ignored, RoleKeys
  <2>3. d.k \notin WordKeys
    BY <1>1 DEF Ignored, WordKeys, Columns, Folded
  <2>. HIDE DEF Line, Ignored, RoleKeys, WordKeys
  <2>4. LineAs(r, d, Line)
    BY <1>1, <2>1, <2>2, <2>3 DEF LineAs, IsRest
  <2>. QED
    BY <2>4 DEF Line
<1>2. CASE d.k = "<>"
  BY <1>2 DEF ParseLine, Ignored, Columns, Folded, ParseBlock, IsRest, WordKeys, RoleKeys, LineAs
<1>3. CASE d.k \in RoleKeys
  BY <1>3 DEF ParseLine, Ignored, Columns, Folded, IsRest, WordKeys, RoleKeys, LineAs
<1>4. CASE d.k = "lport"
  <2>1. Line = ParseValue(r, D("port", d.v))
    BY <1>4 DEF ParseLine, Ignored, Columns, Folded
  <2>2. ParseValue(r, D("port", d.v)) = [r EXCEPT !.col["port"] = d.v[1]]
    BY DEF ParseValue, D, Columns
  <2>. QED
    BY <1>4, <2>1, <2>2 DEF Ignored, Columns, Folded, IsRest, WordKeys, RoleKeys, LineAs
<1>5. CASE d.k \in WordKeys
  <2>1. /\ d.k \notin Ignored /\ d.k \notin RoleKeys /\ ~IsRest(d.k)
        /\ d.k \notin {"<>", "lport", "dev", "secret", "remote", "push", "plugin",
                        "redirect-gateway"}
    BY <1>5 DEF Ignored, WordKeys, Columns, Folded, RoleKeys, IsRest
  <2>2. Line = IF d.k = "dh" /\ d.v[1] = "none" THEN r ELSE ParseValue(r, d)
    BY <1>5, <2>1 DEF ParseLine, WordKeys, RoleKeys
  <2>. QED
    BY <1>5, <2>1, <2>2 DEF LineAs
<1>6. CASE d.k = "dev"
  BY <1>6 DEF ParseLine, Ignored, Columns, Folded, IsRest, WordKeys, RoleKeys, LineAs
<1>7. CASE d.k = "secret"
  BY <1>7 DEF ParseLine, Ignored, Columns, Folded, IsRest, WordKeys, RoleKeys, LineAs
<1>8. CASE d.k = "remote"
  BY <1>8 DEF ParseLine, Ignored, Columns, Folded, IsRest, WordKeys, RoleKeys, LineAs
<1>9. CASE d.k = "push"
  BY <1>9 DEF ParseLine, Ignored, Columns, Folded, IsRest, WordKeys, RoleKeys, LineAs
<1>10. CASE d.k = "plugin"
  BY <1>10 DEF ParseLine, Ignored, Columns, Folded, IsRest, WordKeys, RoleKeys, LineAs
<1>11. CASE d.k = "redirect-gateway"
  BY <1>11 DEF ParseLine, Ignored, Columns, Folded, IsRest, WordKeys, RoleKeys, LineAs
<1>12. CASE IsRest(d.k)
  <2>1. /\ d.k \notin Ignored /\ d.k \notin RoleKeys /\ d.k \notin WordKeys
        /\ d.k \notin {"<>", "lport", "dev", "secret", "remote", "push", "plugin",
                        "redirect-gateway"}
    BY <1>12 DEF IsRest
  <2>2. Line = [r EXCEPT !.extra = Append(@, d)]
    BY <2>1 DEF ParseLine, WordKeys, RoleKeys
  <2>. QED
    BY <2>1, <2>2 DEF LineAs
<1>. HIDE DEF Line
<1>. QED
  BY <1>1, <1>2, <1>3, <1>4, <1>5, <1>6, <1>7, <1>8, <1>9, <1>10, <1>11, <1>12
     DEF Line, IsRest, LineAs

(* What sets a column, its own keyword and what else does.                   *)
Setters(k) ==
    CASE k = "port" -> {"port", "lport"} [] k = "proto" -> {"proto", "remote"}
      [] k = "tls-auth" -> {"tls-auth", "secret"} [] k = "dev-type" -> {"dev-type", "dev"}
      [] k = "device" -> {"dev"} [] OTHER -> {k}

ReadShape(r) == ResultShape(r) /\ DOMAIN r.fold = Folded

(* One kind of line changes one part of the result.                          *)
Keeps(r, x, k) ==
    /\ k # "<>" => x.inline = r.inline
    /\ k # "plugin" => x.plugins = r.plugins
    /\ k # "push" => x.pushed = r.pushed /\ x.dns = r.dns /\ x.routes = r.routes
    /\ k # "remote" => x.remotes = r.remotes
    /\ k # "server" => x.network = r.network
    /\ k # "secret" => x.static = r.static
    /\ ~IsRest(k) /\ k # "redirect-gateway" => x.extra = r.extra
KeepsFolded(r, x, k) == \A l \in Folded : k # l => x.fold[l] = r.fold[l]
KeepsColumns(r, x, k) == \A l \in Columns : k \notin Setters(l) => x.col[l] = r.col[l]

(* A line that gives a role changes the role and network only.               *)
LEMMA RoleKeeps ==
    ASSUME NEW r, ReadShape(r), NEW d, d.k \in RoleKeys
    PROVE  LET x == ParseRole(r, d) IN
           /\ Keeps(r, x, d.k) /\ x.col = r.col /\ x.fold = r.fold
           /\ d.k = "server" => x.network = d.v[1]
<1>. DEFINE x == ParseRole(r, d)
<1>1. DOMAIN r = ResultFields
  BY DEF ReadShape, ResultShape
<1>2. CASE d.k = "server"
  <2>1. x = [r EXCEPT !.role = "server", !.network = d.v[1]]
    BY <1>2 DEF ParseRole
  <2>. HIDE DEF x
  <2>2. /\ x.inline = r.inline /\ x.plugins = r.plugins /\ x.pushed = r.pushed /\ x.dns = r.dns
        /\ x.routes = r.routes /\ x.remotes = r.remotes /\ x.static = r.static
        /\ x.extra = r.extra /\ x.col = r.col /\ x.fold = r.fold /\ x.network = d.v[1]
    BY <1>1, <2>1 DEF ResultFields
  <2>. QED
    BY <1>2, <2>2 DEF Keeps, x
<1>3. CASE d.k # "server"
  <2>1. x = r \/ x = [r EXCEPT !.role = "server"] \/ x = [r EXCEPT !.role = "client"]
    BY <1>3 DEF ParseRole, RoleKeys
  <2>. HIDE DEF x
  <2>2. /\ x.inline = r.inline /\ x.plugins = r.plugins /\ x.pushed = r.pushed /\ x.dns = r.dns
        /\ x.routes = r.routes /\ x.remotes = r.remotes /\ x.static = r.static
        /\ x.extra = r.extra /\ x.col = r.col /\ x.fold = r.fold /\ x.network = r.network
    BY <1>1, <2>1 DEF ResultFields
  <2>. QED
    BY <1>3, <2>2 DEF Keeps, x
<1>. QED
  BY <1>2, <1>3

(* A pushed line changes one of the lists a push may go to.                  *)
LEMMA PushKeeps ==
    ASSUME NEW r, ReadShape(r), NEW v
    PROVE  LET x == ParsePush(r, v) IN
           /\ Keeps(r, x, "push") /\ x.col = r.col /\ x.fold = r.fold
           /\ v[1] = "DNS" =>
                x.dns = Append(r.dns, v[2]) /\ x.routes = r.routes /\ x.pushed = r.pushed
           /\ v[1] = "route" =>
                x.routes = Append(r.routes, v[2]) /\ x.dns = r.dns /\ x.pushed = r.pushed
           /\ v[1] \in {"redirect-gateway", "DOMAIN", "DOMAIN-SEARCH"} =>
                x.routes = r.routes /\ x.dns = r.dns /\ x.pushed = r.pushed
           /\ v[1] \notin {"redirect-gateway", "DOMAIN", "DOMAIN-SEARCH", "DNS", "route"} =>
                /\ x.pushed = Append(r.pushed, D("push", v))
                /\ x.routes = r.routes /\ x.dns = r.dns
<1>. DEFINE x == ParsePush(r, v)
<1>0. DOMAIN r = ResultFields
  BY DEF ReadShape, ResultShape
<1>a. ~IsRest("push")
  BY DEF IsRest
<1>1. CASE v[1] = "redirect-gateway"
  <2>1. x = [r EXCEPT !.redirect = TRUE]
    BY <1>1 DEF ParsePush
  <2>. HIDE DEF x
  <2>2. /\ x.inline = r.inline /\ x.plugins = r.plugins /\ x.pushed = r.pushed /\ x.dns = r.dns
        /\ x.routes = r.routes /\ x.remotes = r.remotes /\ x.static = r.static
        /\ x.network = r.network
        /\ x.extra = r.extra /\ x.col = r.col /\ x.fold = r.fold
    BY <1>0, <2>1 DEF ResultFields
  <2>. QED
    BY <1>1, <1>a, <2>2 DEF Keeps, x
<1>2. CASE v[1] = "DNS"
  <2>1. x = [r EXCEPT !.dns = Append(@, v[2])]
    BY <1>2 DEF ParsePush
  <2>. HIDE DEF x
  <2>2. /\ x.inline = r.inline /\ x.plugins = r.plugins /\ x.pushed = r.pushed
        /\ x.dns = Append(r.dns, v[2])
        /\ x.routes = r.routes /\ x.remotes = r.remotes /\ x.static = r.static
        /\ x.network = r.network
        /\ x.extra = r.extra /\ x.col = r.col /\ x.fold = r.fold
    BY <1>0, <2>1 DEF ResultFields
  <2>. QED
    BY <1>2, <1>a, <2>2 DEF Keeps, x
<1>3. CASE v[1] \in {"DOMAIN", "DOMAIN-SEARCH"}
  <2>1. x = r \/ x = [r EXCEPT !.domain = v[2]]
    BY <1>3 DEF ParsePush
  <2>. HIDE DEF x
  <2>2. /\ x.inline = r.inline /\ x.plugins = r.plugins /\ x.pushed = r.pushed /\ x.dns = r.dns
        /\ x.routes = r.routes /\ x.remotes = r.remotes /\ x.static = r.static
        /\ x.network = r.network
        /\ x.extra = r.extra /\ x.col = r.col /\ x.fold = r.fold
    BY <1>0, <2>1 DEF ResultFields
  <2>. QED
    BY <1>3, <1>a, <2>2 DEF Keeps, x
<1>4. CASE v[1] = "route"
  <2>1. x = [r EXCEPT !.routes = Append(@, v[2])]
    BY <1>4 DEF ParsePush
  <2>. HIDE DEF x
  <2>2. /\ x.inline = r.inline /\ x.plugins = r.plugins /\ x.pushed = r.pushed
        /\ x.routes = Append(r.routes, v[2])
        /\ x.dns = r.dns /\ x.remotes = r.remotes /\ x.static = r.static
        /\ x.network = r.network
        /\ x.extra = r.extra /\ x.col = r.col /\ x.fold = r.fold
    BY <1>0, <2>1 DEF ResultFields
  <2>. QED
    BY <1>4, <1>a, <2>2 DEF Keeps, x
<1>5. CASE v[1] \notin {"redirect-gateway", "DOMAIN", "DOMAIN-SEARCH", "DNS", "route"}
  <2>1. x = [r EXCEPT !.pushed = Append(@, D("push", v))]
    BY <1>5 DEF ParsePush
  <2>. HIDE DEF x
  <2>2. /\ x.inline = r.inline /\ x.plugins = r.plugins /\ x.routes = r.routes
        /\ x.pushed = Append(r.pushed, D("push", v))
        /\ x.dns = r.dns /\ x.remotes = r.remotes /\ x.static = r.static
        /\ x.network = r.network
        /\ x.extra = r.extra /\ x.col = r.col /\ x.fold = r.fold
    BY <1>0, <2>1 DEF ResultFields
  <2>. QED
    BY <1>5, <1>a, <2>2 DEF Keeps, x
<1>. HIDE DEF x
<1>6. \/ v[1] = "redirect-gateway" \/ v[1] = "DNS" \/ v[1] \in {"DOMAIN", "DOMAIN-SEARCH"}
      \/ v[1] = "route"
      \/ v[1] \notin {"redirect-gateway", "DOMAIN", "DOMAIN-SEARCH", "DNS", "route"}
  OBVIOUS
<1>. QED
  BY <1>1, <1>2, <1>3, <1>4, <1>5, <1>6 DEF x

(* The shape of a result stays with every line read.                         *)
LEMMA ReadShapeStep ==
    ASSUME NEW r, ReadShape(r), NEW d
    PROVE  ReadShape(ParseLine(r, d))
<1>. DEFINE x == ParseLine(r, d)
<1>1. ResultShape(x)
  BY ParseLineShape DEF ReadShape
<1>2. DOMAIN r = ResultFields
  BY DEF ReadShape, ResultShape
<1>4. LineAs(r, d, x)
  BY LineIs
<1>. HIDE DEF x
<1>3. DOMAIN x.fold = DOMAIN r.fold
  <2>1. d.k \in RoleKeys => x.fold = r.fold
    <3>1. d.k \in RoleKeys => x = ParseRole(r, d)
      BY <1>4 DEF LineAs
    <3>. QED
      BY <3>1, RoleKeeps
  <2>2. d.k = "push" => x.fold = r.fold
    <3>1. d.k = "push" => x = ParsePush(r, d.v)
      BY <1>4 DEF LineAs
    <3>. QED
      BY <3>1, PushKeeps
  <2>3. d.k \in WordKeys => DOMAIN x.fold = DOMAIN r.fold
    <3>1. d.k \in WordKeys => x \in {r, ParseValue(r, d)}
      BY <1>4 DEF LineAs
    <3>. QED
      BY <1>2, <3>1 DEF ParseValue, ResultFields
  <2>4. d.k = "dev" => x.fold = r.fold
    <3>1. d.k = "dev" => x = ParseDev(r, d.v)
      BY <1>4 DEF LineAs
    <3>. QED
      BY <1>2, <3>1 DEF ParseDev, ResultFields
  <2>5. d.k = "remote" => x.fold = r.fold
    <3>1. d.k = "remote" => x = ParseRemote(r, d.v)
      BY <1>4 DEF LineAs
    <3>. QED
      BY <1>2, <3>1 DEF ParseRemote, ResultFields
  <2>6. d.k \in {"<>", "lport", "secret", "plugin", "redirect-gateway"} => x.fold = r.fold
    BY <1>2, <1>4 DEF ResultFields, LineAs
  <2>7. d.k \in Ignored => x = r
    BY <1>4 DEF LineAs
  <2>8. IsRest(d.k) => x.fold = r.fold
    <3>1. IsRest(d.k) => x = [r EXCEPT !.extra = Append(@, d)]
      BY <1>4 DEF LineAs
    <3>. QED
      BY <1>2, <3>1 DEF ResultFields
  <2>. QED
    BY <2>1, <2>2, <2>3, <2>4, <2>5, <2>6, <2>7, <2>8 DEF IsRest
<1>. QED
  BY <1>1, <1>3 DEF ReadShape, x

(* The parts a line changes, and those it leaves alone.                      *)
LineSays(r, d, x) ==
    /\ d.k = "<>" => x.inline = Append(r.inline, d)
    /\ d.k = "plugin" => x.plugins = Append(r.plugins, d)
    /\ d.k = "push" =>
         /\ d.v[1] = "DNS" =>
              x.dns = Append(r.dns, d.v[2]) /\ x.routes = r.routes /\ x.pushed = r.pushed
         /\ d.v[1] = "route" =>
              x.routes = Append(r.routes, d.v[2]) /\ x.dns = r.dns /\ x.pushed = r.pushed
         /\ d.v[1] \in {"redirect-gateway", "DOMAIN", "DOMAIN-SEARCH"} =>
              x.routes = r.routes /\ x.dns = r.dns /\ x.pushed = r.pushed
         /\ d.v[1] \notin {"redirect-gateway", "DOMAIN", "DOMAIN-SEARCH", "DNS", "route"} =>
              /\ x.pushed = Append(r.pushed, D("push", d.v))
              /\ x.routes = r.routes /\ x.dns = r.dns
    /\ d.k = "remote" =>
         /\ x.remotes = Append(r.remotes, RemoteOf(d.v))
         /\ r.col["proto"] # Unset => x.col["proto"] = r.col["proto"]
    /\ d.k = "server" => x.network = d.v[1]
    /\ d.k = "secret" => x.static = TRUE /\ x.col["tls-auth"] = d.v[1]
    /\ d.k \in Folded => x.fold[d.k] = d.v[1]
    /\ d.k \in Columns \ {"device"} =>
         x.col[d.k] = IF d.k = "dh" /\ d.v[1] = "none" THEN r.col["dh"] ELSE d.v[1]
    /\ d.k = "dev" =>
         IF d.v[1] \in DevTypes THEN x.col["dev-type"] = d.v[1] /\ x.col["device"] = r.col["device"]
         ELSE x.col["device"] = d.v[1]
    /\ IsRest(d.k) => x.extra = Append(r.extra, d)
    /\ d.k = "redirect-gateway" => x.extra \in {r.extra, Append(r.extra, d)}

Reads(r, d, x) ==
    LineSays(r, d, x) /\ Keeps(r, x, d.k) /\ KeepsFolded(r, x, d.k) /\ KeepsColumns(r, x, d.k)

(* Every part of a result, after one more line.                              *)
LEMMA LineReads ==
    ASSUME NEW r, ReadShape(r), NEW d
    PROVE  Reads(r, d, ParseLine(r, d))
<1>. DEFINE x == ParseLine(r, d)
            Special == {"<>", "lport", "dev", "secret", "remote", "push", "plugin",
                        "redirect-gateway"}
<1>0. LineAs(r, d, x)
  BY LineIs
<1>. SUFFICES Reads(r, d, x)
  OBVIOUS
<1>. HIDE DEF x
<1>a. DOMAIN r = ResultFields /\ DOMAIN r.col = Columns /\ DOMAIN r.fold = Folded
  BY DEF ReadShape, ResultShape
<1>b. /\ Ignored \cap (RoleKeys \cup WordKeys \cup Special) = {}
      /\ RoleKeys \cap (WordKeys \cup Special) = {} /\ WordKeys \cap Special = {}
      /\ Columns \ {"device"} \subseteq WordKeys /\ Folded \subseteq WordKeys
      /\ Columns \cap Folded = {}
  BY DEF Ignored, RoleKeys, WordKeys, Columns, Folded
<1>c. IsRest(d.k) <=> d.k \notin Ignored \cup RoleKeys \cup WordKeys \cup Special
  BY DEF IsRest
<1>d. x.fold = r.fold => KeepsFolded(r, x, d.k)
  BY DEF KeepsFolded
<1>e. x.col = r.col => KeepsColumns(r, x, d.k)
  BY DEF KeepsColumns
<1>1. CASE d.k \in Ignored \cup {"<>", "plugin", "redirect-gateway"} \/ IsRest(d.k)
  <2>1. x.fold = r.fold /\ x.col = r.col
    BY <1>0, <1>a, <1>1 DEF LineAs, ResultFields
  <2>2. Keeps(r, x, d.k)
    <3>1. CASE d.k \in Ignored
      <4>1. x = r
        BY <1>0, <3>1 DEF LineAs
      <4>. QED
        BY <4>1 DEF Keeps
    <3>2. CASE d.k = "<>"
      <4>1. x = [r EXCEPT !.inline = Append(@, d)]
        BY <1>0, <3>2 DEF LineAs
      <4>. QED
        BY <1>a, <3>2, <4>1 DEF Keeps, ResultFields
    <3>3. CASE d.k = "plugin"
      <4>1. x = [r EXCEPT !.plugins = Append(@, d)]
        BY <1>0, <3>3 DEF LineAs
      <4>. QED
        BY <1>a, <3>3, <4>1 DEF Keeps, ResultFields
    <3>4. CASE d.k = "redirect-gateway"
      <4>1. x = [r EXCEPT !.redirect = TRUE, !.extra = IF d.v = <<>> THEN @ ELSE Append(@, d)]
        BY <1>0, <3>4 DEF LineAs
      <4>. QED
        BY <1>a, <3>4, <4>1 DEF Keeps, ResultFields
    <3>5. CASE IsRest(d.k)
      <4>1. x = [r EXCEPT !.extra = Append(@, d)]
        BY <1>0, <3>5 DEF LineAs
      <4>. QED
        BY <1>a, <3>5, <4>1 DEF Keeps, ResultFields
    <3>. QED
      BY <1>1, <3>1, <3>2, <3>3, <3>4, <3>5
  <2>3. LineSays(r, d, x)
    <3>1. d.k = "<>" => x.inline = Append(r.inline, d)
      BY <1>0, <1>a DEF LineAs, ResultFields
    <3>2. d.k = "plugin" => x.plugins = Append(r.plugins, d)
      BY <1>0, <1>a DEF LineAs, ResultFields
    <3>3. IsRest(d.k) => x.extra = Append(r.extra, d)
      BY <1>0, <1>a DEF LineAs, ResultFields
    <3>4. d.k = "redirect-gateway" => x.extra \in {r.extra, Append(r.extra, d)}
      BY <1>0, <1>a DEF LineAs, ResultFields
    <3>5. /\ d.k \notin {"push", "remote", "server", "secret", "dev"}
          /\ d.k \notin Folded /\ d.k \notin Columns \ {"device"}
      BY <1>1, <1>b, <1>c DEF RoleKeys
    <3>. QED
      BY <3>1, <3>2, <3>3, <3>4, <3>5 DEF LineSays
  <2>. QED
    BY <1>d, <1>e, <2>1, <2>2, <2>3 DEF Reads
<1>2. CASE d.k \in RoleKeys
  <2>1. x = ParseRole(r, d)
    BY <1>0, <1>2 DEF LineAs
  <2>2. /\ Keeps(r, x, d.k) /\ x.col = r.col /\ x.fold = r.fold
        /\ d.k = "server" => x.network = d.v[1]
    BY <1>2, <2>1, RoleKeeps
  <2>3. LineSays(r, d, x)
    <3>1. /\ d.k \notin Special
          /\ d.k \notin Folded /\ d.k \notin Columns \ {"device"} /\ ~IsRest(d.k)
      BY <1>2, <1>b, <1>c
    <3>. QED
      BY <2>2, <3>1 DEF LineSays
  <2>. QED
    BY <1>d, <1>e, <2>2, <2>3 DEF Reads
<1>3. CASE d.k = "push"
  <2>1. x = ParsePush(r, d.v)
    BY <1>0, <1>3 DEF LineAs
  <2>2. Keeps(r, x, "push") /\ x.col = r.col /\ x.fold = r.fold
    BY <2>1, PushKeeps
  <2>3. LineSays(r, d, x)
    <3>1. /\ d.k \notin RoleKeys
          /\ d.k \notin Folded /\ d.k \notin Columns \ {"device"} /\ ~IsRest(d.k)
      BY <1>3, <1>b, <1>c
    <3>. QED
      BY <1>3, <2>1, <3>1, PushKeeps DEF LineSays, RoleKeys
  <2>. QED
    BY <1>d, <1>e, <1>3, <2>2, <2>3 DEF Reads
<1>4. CASE d.k = "remote"
  <2>1. x = ParseRemote(r, d.v)
    BY <1>0, <1>4 DEF LineAs
  <2>2. x = [r EXCEPT !.remotes = Append(@, RemoteOf(d.v)),
                      !.col["proto"] = IF @ = Unset THEN RemoteOf(d.v).proto ELSE @]
    BY <2>1 DEF ParseRemote, RemoteOf
  <2>3. /\ x.inline = r.inline /\ x.plugins = r.plugins /\ x.pushed = r.pushed /\ x.dns = r.dns
        /\ x.routes = r.routes /\ x.static = r.static /\ x.network = r.network
        /\ x.extra = r.extra /\ x.fold = r.fold
        /\ x.remotes = Append(r.remotes, RemoteOf(d.v))
        /\ x.col = [r.col EXCEPT !["proto"] = IF @ = Unset THEN RemoteOf(d.v).proto ELSE @]
    BY <1>a, <2>2 DEF ResultFields
  <2>4. KeepsColumns(r, x, d.k)
    BY <1>4, <1>a, <2>3 DEF KeepsColumns, Setters
  <2>5. r.col["proto"] # Unset => x.col["proto"] = r.col["proto"]
    BY <1>a, <2>3 DEF Columns
  <2>6. LineSays(r, d, x)
    <3>1. /\ d.k \notin RoleKeys
          /\ d.k \notin Folded /\ d.k \notin Columns \ {"device"} /\ ~IsRest(d.k)
      BY <1>4, <1>b, <1>c
    <3>. QED
      BY <1>4, <2>3, <2>5, <3>1 DEF LineSays, RoleKeys
  <2>7. Keeps(r, x, d.k)
    BY <1>4, <2>3 DEF Keeps
  <2>. QED
    BY <1>d, <2>3, <2>4, <2>6, <2>7 DEF Reads
<1>5. CASE d.k \in {"lport", "secret", "dev"} \/ d.k \in Columns \ {"device"}
  <2>1. /\ x.inline = r.inline /\ x.plugins = r.plugins /\ x.pushed = r.pushed /\ x.dns = r.dns
        /\ x.routes = r.routes /\ x.network = r.network /\ x.remotes = r.remotes
        /\ x.extra = r.extra /\ x.fold = r.fold
        /\ d.k # "secret" => x.static = r.static
    <3>1. CASE d.k = "lport"
      BY <1>0, <1>a, <3>1 DEF LineAs, ResultFields
    <3>2. CASE d.k = "secret"
      BY <1>0, <1>a, <3>2 DEF LineAs, ResultFields
    <3>3. CASE d.k = "dev"
      <4>1. x = ParseDev(r, d.v)
        BY <1>0, <3>3 DEF LineAs
      <4>. QED
        BY <1>a, <3>3, <4>1 DEF ResultFields, ParseDev
    <3>4. CASE d.k \in Columns \ {"device"}
      <4>1. x = r \/ x = [r EXCEPT !.col[d.k] = d.v[1]]
        BY <1>0, <1>b, <3>4 DEF LineAs, ParseValue
      <4>2. d.k # "secret"
        BY <3>4 DEF Columns
      <4>. QED
        BY <1>a, <4>1, <4>2 DEF ResultFields
    <3>. QED
      BY <1>5, <3>1, <3>2, <3>3, <3>4
  <2>2. Keeps(r, x, d.k)
    BY <2>1 DEF Keeps
  <2>3. KeepsColumns(r, x, d.k)
    <3>. SUFFICES ASSUME NEW l \in Columns, d.k \notin Setters(l) PROVE x.col[l] = r.col[l]
      BY DEF KeepsColumns
    <3>1. CASE d.k = "lport"
      <4>1. l # "port"
        BY <3>1 DEF Setters
      <4>. QED
        BY <1>0, <1>a, <3>1, <4>1 DEF LineAs, ResultFields
    <3>2. CASE d.k = "secret"
      <4>1. l # "tls-auth"
        BY <3>2 DEF Setters
      <4>2. x = [r EXCEPT !.col["tls-auth"] = d.v[1], !.static = TRUE]
        BY <1>0, <3>2 DEF LineAs
      <4>3. x.col = [r.col EXCEPT !["tls-auth"] = d.v[1]]
        BY <1>a, <4>2 DEF ResultFields
      <4>. QED
        BY <1>a, <4>1, <4>3
    <3>3. CASE d.k = "dev"
      <4>1. l # "dev-type" /\ l # "device"
        BY <3>3 DEF Setters
      <4>2. x = ParseDev(r, d.v)
        BY <1>0, <3>3 DEF LineAs
      <4>3. \E v, w : x.col \in {[r.col EXCEPT !["dev-type"] = v],
                               [r.col EXCEPT !["device"] = v, !["dev-type"] = w]}
        BY <1>a, <4>2 DEF ResultFields, ParseDev
      <4>. QED
        BY <1>a, <4>1, <4>3
    <3>4. CASE d.k \in Columns \ {"device"}
      <4>1. x = r \/ x = [r EXCEPT !.col[d.k] = d.v[1]]
        BY <1>0, <1>b, <3>4 DEF LineAs, ParseValue
      <4>2. d.k # l
        <5>1. l # "device" => l \in Setters(l)
          BY DEF Setters
        <5>. QED
          BY <3>4, <5>1
      <4>. QED
        BY <1>a, <4>1, <4>2 DEF ResultFields
    <3>. QED
      BY <1>5, <3>1, <3>2, <3>3, <3>4
  <2>4. LineSays(r, d, x)
    <3>1. /\ d.k \notin RoleKeys /\ d.k \notin Folded /\ ~IsRest(d.k)
          /\ d.k \notin {"<>", "plugin", "push", "remote", "redirect-gateway"}
      BY <1>5, <1>b, <1>c
    <3>2. d.k = "secret" => x.static = TRUE /\ x.col["tls-auth"] = d.v[1]
      <4>1. d.k = "secret" => x = [r EXCEPT !.col["tls-auth"] = d.v[1], !.static = TRUE]
        BY <1>0 DEF LineAs
      <4>. QED
        <5>1. ASSUME d.k = "secret" PROVE x.col = [r.col EXCEPT !["tls-auth"] = d.v[1]] /\ x.static = TRUE
          BY <1>a, <4>1, <5>1 DEF ResultFields
        <5>2. "tls-auth" \in Columns
          BY DEF Columns
        <5>. QED
          BY <1>a, <5>1, <5>2
    <3>3. d.k = "dev" => IF d.v[1] \in DevTypes
                         THEN x.col["dev-type"] = d.v[1] /\ x.col["device"] = r.col["device"]
                         ELSE x.col["device"] = d.v[1]
      <4>. SUFFICES ASSUME d.k = "dev"
                    PROVE  IF d.v[1] \in DevTypes
                           THEN x.col["dev-type"] = d.v[1] /\ x.col["device"] = r.col["device"]
                           ELSE x.col["device"] = d.v[1]
        OBVIOUS
      <4>1. x = ParseDev(r, d.v)
        BY <1>0 DEF LineAs
      <4>2. CASE d.v[1] \in DevTypes
        <5>1. x = [r EXCEPT !.col["dev-type"] = d.v[1]]
          BY <4>1, <4>2 DEF ParseDev, DevTypes
        <5>. QED
          BY <1>a, <4>2, <5>1 DEF ResultFields, Columns
      <4>3. CASE d.v[1] \notin DevTypes
        <5>1. x = [r EXCEPT !.col["device"] = d.v[1],
                            !.col["dev-type"] = IF DevKind(d.v[1]) = Unset THEN @ ELSE DevKind(d.v[1])]
          BY <1>a, <4>1, <4>3 DEF ParseDev, DevTypes, ResultFields
        <5>. HIDE DEF DevKind
        <5>2. x.col["device"] = d.v[1]
          BY <1>a, <5>1 DEF ResultFields, Columns
        <5>. QED
          BY <4>3, <5>2
      <4>. QED
        BY <4>2, <4>3
    <3>4. d.k \in Columns \ {"device"} =>
            x.col[d.k] = IF d.k = "dh" /\ d.v[1] = "none" THEN r.col["dh"] ELSE d.v[1]
      <4>. SUFFICES ASSUME d.k \in Columns \ {"device"}
                    PROVE  x.col[d.k] = IF d.k = "dh" /\ d.v[1] = "none" THEN r.col["dh"] ELSE d.v[1]
        OBVIOUS
      <4>1. x = IF d.k = "dh" /\ d.v[1] = "none" THEN r ELSE [r EXCEPT !.col[d.k] = d.v[1]]
        BY <1>0, <1>b DEF LineAs, ParseValue
      <4>. QED
        BY <1>a, <4>1 DEF ResultFields
    <3>. QED
      BY <3>1, <3>2, <3>3, <3>4 DEF LineSays, RoleKeys
  <2>. QED
    BY <1>d, <2>1, <2>2, <2>3, <2>4 DEF Reads
<1>6. CASE d.k \in Folded
  <2>1. x = [r EXCEPT !.fold[d.k] = d.v[1]]
    <3>1. d.k # "dh" /\ d.k \notin Columns
      BY <1>6 DEF Folded, Columns
    <3>. QED
      BY <1>0, <1>b, <1>6, <3>1 DEF LineAs, ParseValue
  <2>2. /\ x.inline = r.inline /\ x.plugins = r.plugins /\ x.pushed = r.pushed /\ x.dns = r.dns
        /\ x.routes = r.routes /\ x.network = r.network /\ x.remotes = r.remotes
        /\ x.extra = r.extra /\ x.col = r.col /\ x.static = r.static
        /\ x.fold = [r.fold EXCEPT ![d.k] = d.v[1]]
    BY <1>a, <2>1 DEF ResultFields
  <2>3. Keeps(r, x, d.k)
    BY <2>2 DEF Keeps
  <2>4. KeepsFolded(r, x, d.k) /\ x.fold[d.k] = d.v[1]
    BY <1>a, <1>6, <2>2 DEF KeepsFolded
  <2>5. LineSays(r, d, x)
    <3>1. /\ d.k \notin RoleKeys /\ d.k \notin Columns /\ ~IsRest(d.k)
          /\ d.k \notin Special
      BY <1>6, <1>b, <1>c
    <3>. QED
      BY <2>4, <3>1 DEF LineSays, RoleKeys
  <2>. QED
    BY <1>e, <2>2, <2>3, <2>4, <2>5 DEF Reads
<1>. QED
  BY <1>1, <1>2, <1>3, <1>4, <1>5, <1>6, <1>c DEF WordKeys

(* Lines of a keyword and words, as those found on a host are.               *)
IsDirective(d) == d = D(d.k, d.v) /\ ASeq(d.v)
AllDirectives(s) == ASeq(s) /\ \A d \in LineSet(s) : IsDirective(d)

LEMMA ValueAppended ==
    ASSUME NEW s, ASeq(s), NEW d
    PROVE  /\ Value(Append(s, d), d.k) = d.v
           /\ \A k : k # d.k => Value(Append(s, d), k) = Value(s, k)
<1>1. Append(s, d) = s \o <<d>>
  <2>1. PICK S : s \in Seq(S)
    BY DEF ASeq
  <2>2. s \in Seq(S \cup {d}) /\ d \in S \cup {d}
    BY <2>1
  <2>. QED
    BY <2>2
<1>2. ASeq(<<d>>) /\ Keywords(<<d>>) = {d.k} /\ Value(<<d>>, d.k) = d.v
  BY OneLine
<1>3. Value(s \o <<d>>, d.k) = d.v
  BY <1>2, ValueOfLater
<1>4. \A k : k # d.k => Value(s \o <<d>>, k) = Value(s, k)
  BY <1>2, ValueOfEarlier
<1>. QED
  BY <1>1, <1>3, <1>4

LEMMA LineOf ==
    ASSUME NEW s, ASeq(s)
    PROVE  /\ \A j \in DOMAIN s : s[j] \in LineSet(s)
           /\ \A d \in LineSet(s) : \E j \in DOMAIN s : s[j] = d
           /\ DOMAIN s = 1..Len(s) /\ Len(s) \in Nat
BY Joined DEF LineSet

(* Of the first n lines, the last one with its keyword.                      *)
Latest(c, n, i) == i \in 1..n /\ \A j \in 1..n : c[j].k = c[i].k => j <= i

(* One more line is the latest of its keyword, and of no other.              *)
LEMMA LatestStep ==
    ASSUME NEW c, NEW n \in Nat, NEW i, Latest(c, n + 1, i)
    PROVE  i = n + 1 \/ (Latest(c, n, i) /\ c[n + 1].k # c[i].k)
<1>. SUFFICES ASSUME i # n + 1 PROVE Latest(c, n, i) /\ c[n + 1].k # c[i].k
  OBVIOUS
<1>1. i \in 1..n /\ n + 1 \in 1..(n + 1)
  BY DEF Latest
<1>2. \A j \in 1..n : j \in 1..(n + 1)
  OBVIOUS
<1>3. Latest(c, n, i)
  BY <1>1, <1>2 DEF Latest
<1>4. c[n + 1].k # c[i].k
  <2>1. ~(n + 1 <= i)
    BY <1>1
  <2>. QED
    BY <1>1, <2>1 DEF Latest
<1>. QED
  BY <1>3, <1>4

(* The latest of all lines is the one OpenVPN counts.                        *)
LEMMA LatestIsLast ==
    ASSUME NEW c, ASeq(c), NEW i, Latest(c, Len(c), i)
    PROVE  Value(c, c[i].k) = c[i].v
<1>1. DOMAIN c = 1..Len(c) /\ Len(c) \in Nat
  BY Joined
<1>. DEFINE L == Lines(c, c[i].k)
<1>2. L \in SUBSET Nat /\ i \in L /\ \A x \in L : i >= x
  BY <1>1 DEF Latest, Lines
<1>3. Max(L) = i
  <2>. HIDE DEF L
  <2>. QED
    BY <1>2, MaxIs
<1>. QED
  BY <1>2, <1>3 DEF Value

(* A keyword with a line has a latest one.                                   *)
LEMMA LatestExists ==
    ASSUME NEW c, ASeq(c), NEW i \in DOMAIN c
    PROVE  \E m : Latest(c, Len(c), m) /\ c[m].k = c[i].k /\ m \in DOMAIN c
<1>1. DOMAIN c = 1..Len(c) /\ Len(c) \in Nat
  BY Joined
<1>. DEFINE L == Lines(c, c[i].k)
<1>2. L \in SUBSET Nat /\ i \in L /\ L \subseteq 1..Len(c)
  BY <1>1 DEF Lines
<1>3. IsFiniteSet(L) /\ L # {}
  <2>1. IsFiniteSet(1..Len(c))
    BY <1>1, FS_Interval
  <2>. QED
    BY <1>2, <2>1, FS_Subset
<1>4. \E m \in L : \A x \in L : m >= x
  <2>. HIDE DEF L
  <2>. QED
    BY <1>2, <1>3, GreatestExists DEF IsGreatest
<1>5. PICK m \in L : \A x \in L : m >= x
  BY <1>4
<1>6. m \in DOMAIN c /\ c[m].k = c[i].k
  BY DEF Lines
<1>7. ASSUME NEW j \in 1..Len(c), c[j].k = c[m].k PROVE j <= m
  <2>1. j \in L
    BY <1>1, <1>6, <1>7 DEF Lines
  <2>. QED
    BY <1>1, <1>2, <1>5, <2>1
<1>. QED
  BY <1>1, <1>6, <1>7 DEF Latest

------------------------------------------------------------------------------
(* What has been read of the first n lines                                   *)

ReadBlocks(c, n, r) ==
    /\ \A j \in 1..n : c[j].k = "<>" => c[j] \in LineSet(r.inline)
    /\ \A d \in LineSet(r.inline) : d.k = "<>" /\ d \in LineSet(c)
ReadPlugins(c, n, r) ==
    /\ \A j \in 1..n : c[j].k = "plugin" => c[j] \in LineSet(r.plugins)
    /\ \A d \in LineSet(r.plugins) : d \in LineSet(c)
KeptPush(d) ==
    d.k = "push" /\ d.v[1] \notin {"redirect-gateway", "DOMAIN", "DOMAIN-SEARCH", "DNS", "route"}
ReadPushes(c, n, r) ==
    /\ \A j \in 1..n : c[j].k = "push" =>
         /\ c[j].v[1] = "DNS" => c[j].v[2] \in LineSet(r.dns)
         /\ c[j].v[1] = "route" => c[j].v[2] \in LineSet(r.routes)
         /\ KeptPush(c[j]) => c[j] \in LineSet(r.pushed)
    /\ \A d \in LineSet(r.pushed) : d \in LineSet(c) /\ KeptPush(d)
ReadRemotes(c, n, r) ==
    /\ \A j \in 1..n : c[j].k = "remote" => RemoteOf(c[j].v) \in LineSet(r.remotes)
    /\ \A x \in LineSet(r.remotes) : \E j \in 1..n : c[j].k = "remote" /\ x = RemoteOf(c[j].v)
ReadStatic(c, n, r) == r.static <=> \E j \in 1..n : c[j].k = "secret"

(* Columns with a line of their own that no line of another keyword takes.   *)
OwnColumn(c, k) ==
    /\ k \in Columns \ {"device", "dev-type", "dh"}
    /\ k = "port" => ~Named(c, "lport")
    /\ k = "tls-auth" => ~Named(c, "secret")
ReadWords(c, n, r) ==
    \A j : Latest(c, n, j) =>
        /\ c[j].k \in Folded => r.fold[c[j].k] = c[j].v[1]
        /\ c[j].k = "server" => r.network = c[j].v[1]
        /\ c[j].k = "secret" /\ ~Named(c, "tls-auth") => r.col["tls-auth"] = c[j].v[1]
        /\ OwnColumn(c, c[j].k) => r.col[c[j].k] = c[j].v[1]
ReadDh(c, n, r) ==
    /\ \A j : Latest(c, n, j) /\ c[j].k = "dh" /\ c[j].v[1] # "none" =>
                r.col["dh"] = c[j].v[1]
    /\ (\A j \in 1..n : c[j].k = "dh" => c[j].v[1] = "none") => r.col["dh"] = Unset
ReadDev(c, n, r) ==
    /\ \A j \in 1..n : c[j].k = "dev" =>
         IF c[j].v[1] \in DevTypes THEN r.col["dev-type"] = c[j].v[1]
         ELSE r.col["device"] = c[j].v[1]
    /\ (\A j \in 1..n : c[j].k = "dev" => c[j].v[1] \in DevTypes) => r.col["device"] = Unset
    /\ r.col["device"] \notin DevTypes
ReadExtra(c, n, r) ==
    /\ \A j \in 1..n : IsRest(c[j].k) => c[j] \in LineSet(r.extra)
    /\ \A j : Latest(c, n, j) /\ IsRest(c[j].k) => Value(r.extra, c[j].k) = c[j].v
    /\ \A d \in LineSet(r.extra) : d \in LineSet(c) /\ (IsRest(d.k) \/ d.k = "redirect-gateway")

ReadSo(c, n, r) ==
    /\ ReadShape(r)
    /\ ReadBlocks(c, n, r) /\ ReadPlugins(c, n, r) /\ ReadPushes(c, n, r)
    /\ ReadRemotes(c, n, r) /\ ReadStatic(c, n, r) /\ ReadWords(c, n, r)
    /\ ReadDh(c, n, r) /\ ReadDev(c, n, r) /\ ReadExtra(c, n, r)

(* The lines up to the next are those up to this one and the next.           *)
LEMMA NextLine ==
    ASSUME NEW n \in Nat
    PROVE  /\ 1..(n + 1) = 1..n \cup {n + 1}
           /\ n + 1 \in 1..(n + 1)
OBVIOUS

(* Before the first line.                                                    *)
LEMMA NothingRead ==
    ASSUME NEW c
    PROVE  ReadSo(c, 0, NoResult)
<1>. DEFINE r == NoResult
<1>1. ResultShape(r) /\ DOMAIN r.fold = Folded
  BY NoResultShape DEF NoResult
<1>2. /\ r.inline = <<>> /\ r.plugins = <<>> /\ r.pushed = <<>> /\ r.remotes = <<>>
      /\ r.extra = <<>> /\ r.static = FALSE
      /\ r.col["dh"] = Unset /\ r.col["device"] = Unset
  BY DEF NoResult, Columns
<1>3. LineSet(<<>>) = {}
  BY SetOfNone
<1>4. 1..0 = {}
  OBVIOUS
<1>5. Unset \notin DevTypes
  BY ConfAssumption DEF DevTypes
<1>. HIDE DEF r
<1>6. \A j : ~Latest(c, 0, j)
  BY <1>4 DEF Latest
<1>7. ReadBlocks(c, 0, r) /\ ReadPlugins(c, 0, r) /\ ReadPushes(c, 0, r) /\ ReadRemotes(c, 0, r)
  BY <1>2, <1>3, <1>4 DEF ReadBlocks, ReadPlugins, ReadPushes, ReadRemotes
<1>8. ReadStatic(c, 0, r) /\ ReadWords(c, 0, r) /\ ReadDh(c, 0, r) /\ ReadDev(c, 0, r)
  BY <1>2, <1>4, <1>5, <1>6 DEF ReadStatic, ReadWords, ReadDh, ReadDev
<1>9. ReadExtra(c, 0, r)
  BY <1>2, <1>3, <1>4, <1>6 DEF ReadExtra
<1>. QED
  BY <1>1, <1>7, <1>8, <1>9 DEF ReadSo, ReadShape, r

(* What a plain configuration is, by its lines.                              *)
LEMMA PlainLines ==
    ASSUME NEW c, AllDirectives(c), Plain(c)
    PROVE  /\ \A d \in LineSet(c) : PlainLine(d) /\ IsDirective(d)
           /\ \A d, e \in LineSet(c) : PlainPair(d, e)
           /\ \A k : Named(c, k) <=> \E d \in LineSet(c) : Names(d, k)
           /\ \A j \in 1..Len(c) : c[j] \in LineSet(c)
<1>1. /\ \A j \in DOMAIN c : c[j] \in LineSet(c)
      /\ \A d \in LineSet(c) : \E j \in DOMAIN c : c[j] = d
      /\ DOMAIN c = 1..Len(c)
  BY LineOf DEF AllDirectives
<1>2. \A d \in LineSet(c) : PlainLine(d) /\ IsDirective(d)
  BY <1>1 DEF Plain, AllDirectives
<1>3. \A d, e \in LineSet(c) : PlainPair(d, e)
  BY <1>1 DEF Plain
<1>4. \A k : Named(c, k) <=> \E d \in LineSet(c) : Names(d, k)
  BY <1>1 DEF Named
<1>. QED
  BY <1>1, <1>2, <1>3, <1>4

LEMMA OneWordOf ==
    ASSUME NEW v, ASeq(v), Len(v) = 1
    PROVE  v = <<v[1]>>
<1>1. PICK S : v \in Seq(S)
  BY DEF ASeq
<1>2. v \in [1..1 -> S]
  BY <1>1
<1>3. 1 \in 1..1 /\ v[1] \in S
  BY <1>2
<1>4. <<v[1]>> \in [1..1 -> S] /\ <<v[1]>>[1] = v[1]
  BY <1>3
<1>5. \A j \in 1..1 : v[j] = <<v[1]>>[j]
  BY <1>4
<1>. QED
  BY <1>2, <1>4, <1>5

(* A keyword with one word, that word.                                       *)
LEMMA WordOf ==
    ASSUME NEW d, PlainLine(d), IsDirective(d), d.k \in OneWord
    PROVE  d.v = <<d.v[1]>> /\ d.v[1] # Unset
<1>1. Len(d.v) = 1 /\ \A n \in 1..Len(d.v) : d.v[n] # Unset
  BY DEF PlainLine
<1>2. d.v = <<d.v[1]>>
  BY <1>1, OneWordOf DEF IsDirective
<1>3. 1 \in 1..1
  OBVIOUS
<1>. QED
  BY <1>1, <1>2, <1>3

(* What has been read stays true with the next line.                         *)
LEMMA ReadStep ==
    ASSUME NEW c, AllDirectives(c), Plain(c), NEW n \in Nat, n + 1 \in 1..Len(c),
           NEW r, ReadSo(c, n, r)
    PROVE  ReadSo(c, n + 1, ParseLine(r, c[n + 1]))
<1>. DEFINE d == c[n + 1]
            m == n + 1
            x == ParseLine(r, d)
<1>. SUFFICES ReadSo(c, m, x)
  OBVIOUS
<1>1. ReadShape(x) /\ ReadShape(r)
  BY ReadShapeStep DEF ReadSo
<1>2. Reads(r, d, x)
  BY LineReads DEF ReadSo
<1>3. d \in LineSet(c) /\ PlainLine(d) /\ IsDirective(d)
  BY PlainLines
<1>4. \A e, b \in LineSet(c) : PlainPair(e, b)
  BY PlainLines
<1>5. /\ \A k : Named(c, k) <=> \E e \in LineSet(c) : Names(e, k)
      /\ \A j \in 1..Len(c) : c[j] \in LineSet(c)
  BY PlainLines
<1>6. 1..m = 1..n \cup {m} /\ m \in 1..m /\ m \in Nat /\ 1..m \subseteq 1..Len(c)
  <2>1. Len(c) \in Nat
    BY Joined DEF AllDirectives
  <2>. QED
    BY <2>1, NextLine
<1>7. \A j : Latest(c, m, j) => j = m \/ (Latest(c, n, j) /\ d.k # c[j].k)
  BY LatestStep
<1>8. /\ ASeq(r.inline) /\ ASeq(r.plugins) /\ ASeq(r.pushed) /\ ASeq(r.dns) /\ ASeq(r.routes)
      /\ ASeq(r.remotes) /\ ASeq(r.extra)
  BY <1>1 DEF ReadShape, ResultShape
<1>9. \A s, e : ASeq(s) => LineSet(Append(s, e)) = LineSet(s) \cup {e}
  BY SetAppended
<1>10. c[m] = d
  OBVIOUS
<1>11. \A j : Latest(c, m, j) => j \in 1..m
  BY DEF Latest
<1>. HIDE DEF d, m, x
<1>b. ReadBlocks(c, m, x)
  <2>1. ReadBlocks(c, n, r)
    BY DEF ReadSo
  <2>2. CASE d.k = "<>"
    <3>1. LineSet(x.inline) = LineSet(r.inline) \cup {d}
      BY <1>2, <1>8, <1>9, <2>2 DEF Reads, LineSays
    <3>. QED
      BY <1>3, <1>6, <1>10, <2>1, <2>2, <3>1 DEF ReadBlocks
  <2>3. CASE d.k # "<>"
    <3>1. x.inline = r.inline
      BY <1>2, <2>3 DEF Reads, Keeps
    <3>. QED
      BY <1>6, <1>10, <2>1, <2>3, <3>1 DEF ReadBlocks
  <2>. QED
    BY <2>2, <2>3
<1>c. ReadPlugins(c, m, x)
  <2>1. ReadPlugins(c, n, r)
    BY DEF ReadSo
  <2>2. CASE d.k = "plugin"
    <3>1. LineSet(x.plugins) = LineSet(r.plugins) \cup {d}
      BY <1>2, <1>8, <1>9, <2>2 DEF Reads, LineSays
    <3>. QED
      BY <1>3, <1>6, <1>10, <2>1, <2>2, <3>1 DEF ReadPlugins
  <2>3. CASE d.k # "plugin"
    <3>1. x.plugins = r.plugins
      BY <1>2, <2>3 DEF Reads, Keeps
    <3>. QED
      BY <1>6, <1>10, <2>1, <2>3, <3>1 DEF ReadPlugins
  <2>. QED
    BY <2>2, <2>3
<1>d. ReadPushes(c, m, x)
  <2>1. ReadPushes(c, n, r)
    BY DEF ReadSo
  <2>2. CASE d.k = "push"
    <3>. DEFINE P == {"redirect-gateway", "DOMAIN", "DOMAIN-SEARCH"}
    <3>1. CASE d.v[1] = "DNS"
      <4>1. LineSet(x.dns) = LineSet(r.dns) \cup {d.v[2]} /\ x.routes = r.routes /\ x.pushed = r.pushed
        <5>1. x.dns = Append(r.dns, d.v[2]) /\ x.routes = r.routes /\ x.pushed = r.pushed
          BY <1>2, <2>2, <3>1 DEF Reads, LineSays
        <5>. QED
          BY <1>8, <1>9, <5>1
      <4>. QED
        BY <1>6, <1>10, <2>1, <3>1, <4>1 DEF ReadPushes, KeptPush
    <3>2. CASE d.v[1] = "route"
      <4>1. LineSet(x.routes) = LineSet(r.routes) \cup {d.v[2]} /\ x.dns = r.dns /\ x.pushed = r.pushed
        <5>1. x.routes = Append(r.routes, d.v[2]) /\ x.dns = r.dns /\ x.pushed = r.pushed
          BY <1>2, <2>2, <3>2 DEF Reads, LineSays
        <5>. QED
          BY <1>8, <1>9, <5>1
      <4>. QED
        BY <1>6, <1>10, <2>1, <3>2, <4>1 DEF ReadPushes, KeptPush
    <3>3. CASE d.v[1] \in P
      <4>1. x.routes = r.routes /\ x.dns = r.dns /\ x.pushed = r.pushed
        BY <1>2, <2>2, <3>3 DEF Reads, LineSays
      <4>. QED
        BY <1>6, <1>10, <2>1, <3>3, <4>1 DEF ReadPushes, KeptPush
    <3>4. CASE d.v[1] \notin P \cup {"DNS", "route"}
      <4>1. x.pushed = Append(r.pushed, D("push", d.v)) /\ x.routes = r.routes /\ x.dns = r.dns
        BY <1>2, <2>2, <3>4 DEF Reads, LineSays
      <4>2. D("push", d.v) = d
        BY <1>3, <2>2 DEF IsDirective
      <4>3. LineSet(x.pushed) = LineSet(r.pushed) \cup {d}
        BY <1>8, <1>9, <4>1, <4>2
      <4>. QED
        BY <1>3, <1>6, <1>10, <2>1, <2>2, <3>4, <4>1, <4>3 DEF ReadPushes, KeptPush
    <3>. QED
      BY <3>1, <3>2, <3>3, <3>4
  <2>3. CASE d.k # "push"
    <3>1. x.pushed = r.pushed /\ x.dns = r.dns /\ x.routes = r.routes
      BY <1>2, <2>3 DEF Reads, Keeps
    <3>. QED
      BY <1>6, <1>10, <2>1, <2>3, <3>1 DEF ReadPushes
  <2>. QED
    BY <2>2, <2>3
<1>e. ReadRemotes(c, m, x)
  <2>1. ReadRemotes(c, n, r)
    BY DEF ReadSo
  <2>2. CASE d.k = "remote"
    <3>1. LineSet(x.remotes) = LineSet(r.remotes) \cup {RemoteOf(d.v)}
      BY <1>2, <1>8, <1>9, <2>2 DEF Reads, LineSays
    <3>. QED
      BY <1>6, <1>10, <2>1, <2>2, <3>1 DEF ReadRemotes
  <2>3. CASE d.k # "remote"
    <3>1. x.remotes = r.remotes
      BY <1>2, <2>3 DEF Reads, Keeps
    <3>. QED
      BY <1>6, <1>10, <2>1, <2>3, <3>1 DEF ReadRemotes
  <2>. QED
    BY <2>2, <2>3
<1>f. ReadStatic(c, m, x)
  <2>1. ReadStatic(c, n, r)
    BY DEF ReadSo
  <2>2. CASE d.k = "secret"
    <3>1. x.static = TRUE
      BY <1>2, <2>2 DEF Reads, LineSays
    <3>. QED
      BY <1>6, <1>10, <2>2, <3>1 DEF ReadStatic
  <2>3. CASE d.k # "secret"
    <3>1. x.static = r.static
      BY <1>2, <2>3 DEF Reads, Keeps
    <3>. QED
      BY <1>6, <1>10, <2>1, <2>3, <3>1 DEF ReadStatic
  <2>. QED
    BY <2>2, <2>3
<1>g. ReadWords(c, m, x)
  <2>1. ReadWords(c, n, r)
    BY DEF ReadSo
  <2>. SUFFICES ASSUME NEW j, Latest(c, m, j)
                PROVE  /\ c[j].k \in Folded => x.fold[c[j].k] = c[j].v[1]
                       /\ c[j].k = "server" => x.network = c[j].v[1]
                       /\ c[j].k = "secret" /\ ~Named(c, "tls-auth") =>
                            x.col["tls-auth"] = c[j].v[1]
                       /\ OwnColumn(c, c[j].k) => x.col[c[j].k] = c[j].v[1]
    BY DEF ReadWords
  <2>2. CASE j = m
    <3>1. OwnColumn(c, d.k) => x.col[d.k] = d.v[1]
      BY <1>2 DEF Reads, LineSays, OwnColumn
    <3>. QED
      BY <1>2, <1>10, <2>2, <3>1 DEF Reads, LineSays
  <2>3. CASE Latest(c, n, j) /\ d.k # c[j].k
    <3>. DEFINE k == c[j].k
    <3>1. k \in Folded => x.fold[k] = c[j].v[1]
      BY <1>2, <2>1, <2>3 DEF Reads, KeepsFolded, ReadWords
    <3>2. k = "server" => x.network = c[j].v[1]
      BY <1>2, <2>1, <2>3 DEF Reads, Keeps, ReadWords
    <3>3. ASSUME k = "secret", ~Named(c, "tls-auth") PROVE x.col["tls-auth"] = c[j].v[1]
      <4>1. d.k # "tls-auth"
        BY <1>3, <1>5, <3>3 DEF Names
      <4>2. d.k \notin Setters("tls-auth") /\ "tls-auth" \in Columns
        BY <2>3, <3>3, <4>1 DEF Setters, Columns
      <4>3. x.col["tls-auth"] = r.col["tls-auth"]
        BY <1>2, <4>2 DEF Reads, KeepsColumns
      <4>. QED
        BY <2>1, <2>3, <3>3, <4>3 DEF ReadWords
    <3>4. ASSUME OwnColumn(c, k) PROVE x.col[k] = c[j].v[1]
      <4>1. r.col[k] = c[j].v[1]
        BY <2>1, <2>3, <3>4 DEF ReadWords
      <4>2. CASE k = "proto" /\ d.k = "remote"
        <5>1. c[j] \in LineSet(c) /\ PlainLine(c[j]) /\ IsDirective(c[j])
          BY <1>5, <1>6, <1>11, PlainLines
        <5>2. c[j].v[1] # Unset
          BY <4>2, <5>1, WordOf DEF OneWord, Columns
        <5>. QED
          BY <1>2, <4>1, <4>2, <5>2 DEF Reads, LineSays
      <4>3. CASE ~(k = "proto" /\ d.k = "remote")
        <5>1. k = "port" => d.k # "lport"
          BY <1>3, <1>5, <3>4 DEF Names, OwnColumn
        <5>2. k = "tls-auth" => d.k # "secret"
          BY <1>3, <1>5, <3>4 DEF Names, OwnColumn
        <5>3. k \in Columns /\ d.k \notin Setters(k)
          BY <2>3, <3>4, <4>3, <5>1, <5>2 DEF OwnColumn, Setters
        <5>. QED
          BY <1>2, <4>1, <5>3 DEF Reads, KeepsColumns
      <4>. QED
        BY <4>2, <4>3
    <3>. QED
      BY <3>1, <3>2, <3>3, <3>4
  <2>. QED
    BY <1>7, <2>2, <2>3
<1>h. ReadDh(c, m, x)
  <2>1. ReadDh(c, n, r)
    BY DEF ReadSo
  <2>2. d.k # "dh" => x.col["dh"] = r.col["dh"]
    <3>1. "dh" \in Columns /\ Setters("dh") = {"dh"}
      BY DEF Columns, Setters
    <3>. QED
      BY <1>2, <3>1 DEF Reads, KeepsColumns
  <2>3. d.k = "dh" => x.col["dh"] = IF d.v[1] = "none" THEN r.col["dh"] ELSE d.v[1]
    BY <1>2 DEF Reads, LineSays, Columns
  <2>4. ASSUME NEW j, Latest(c, m, j), c[j].k = "dh", c[j].v[1] # "none"
        PROVE  x.col["dh"] = c[j].v[1]
    BY <1>7, <1>10, <2>1, <2>2, <2>3, <2>4 DEF ReadDh
  <2>5. ASSUME \A j \in 1..m : c[j].k = "dh" => c[j].v[1] = "none"
        PROVE  x.col["dh"] = Unset
    <3>1. r.col["dh"] = Unset
      BY <1>6, <2>1, <2>5 DEF ReadDh
    <3>2. d.k = "dh" => d.v[1] = "none"
      BY <1>6, <1>10, <2>5
    <3>. QED
      BY <2>2, <2>3, <3>1, <3>2
  <2>. QED
    BY <2>4, <2>5 DEF ReadDh
<1>i. ReadDev(c, m, x)
  <2>1. ReadDev(c, n, r)
    BY DEF ReadSo
  <2>2. /\ d.k # "dev" => x.col["device"] = r.col["device"]
        /\ d.k # "dev" /\ d.k # "dev-type" => x.col["dev-type"] = r.col["dev-type"]
    <3>1. /\ "device" \in Columns /\ Setters("device") = {"dev"}
          /\ "dev-type" \in Columns /\ Setters("dev-type") = {"dev-type", "dev"}
      BY DEF Columns, Setters
    <3>. QED
      BY <1>2, <3>1 DEF Reads, KeepsColumns
  <2>3. CASE d.k = "dev"
    <3>1. \A j \in 1..m : c[j].k = "dev" => c[j].v = d.v
      <4>. SUFFICES ASSUME NEW j \in 1..m, c[j].k = "dev" PROVE c[j].v = d.v
        OBVIOUS
      <4>1. c[j] \in LineSet(c)
        BY <1>5, <1>6
      <4>. QED
        BY <1>3, <1>4, <2>3, <4>1 DEF PlainPair
    <3>2. CASE d.v[1] \in DevTypes
      <4>1. x.col["dev-type"] = d.v[1] /\ x.col["device"] = r.col["device"]
        BY <1>2, <2>3, <3>2 DEF Reads, LineSays
      <4>2. \A j \in 1..n : c[j].k = "dev" => c[j].v[1] \in DevTypes
        BY <1>6, <3>1, <3>2
      <4>. QED
        BY <2>1, <3>1, <3>2, <4>1, <4>2 DEF ReadDev
    <3>3. CASE d.v[1] \notin DevTypes
      <4>1. x.col["device"] = d.v[1]
        BY <1>2, <2>3, <3>3 DEF Reads, LineSays
      <4>. QED
        BY <1>6, <1>10, <2>3, <3>1, <3>3, <4>1 DEF ReadDev
    <3>. QED
      BY <3>2, <3>3
  <2>4. CASE d.k = "dev-type"
    <3>1. x.col["dev-type"] = d.v[1] /\ x.col["device"] = r.col["device"]
      BY <1>2, <2>2, <2>4 DEF Reads, LineSays, Columns
    <3>2. \A j \in 1..n : c[j].k = "dev" /\ c[j].v[1] \in DevTypes => c[j].v = d.v
      <4>. SUFFICES ASSUME NEW j \in 1..n, c[j].k = "dev", c[j].v[1] \in DevTypes
                    PROVE  c[j].v = d.v
        OBVIOUS
      <4>1. c[j] \in LineSet(c)
        BY <1>5, <1>6
      <4>. QED
        BY <1>3, <1>4, <2>4, <4>1 DEF PlainPair
    <3>. QED
      BY <1>6, <1>10, <2>1, <2>4, <3>1, <3>2 DEF ReadDev
  <2>5. CASE d.k # "dev" /\ d.k # "dev-type"
    BY <1>6, <1>10, <2>1, <2>2, <2>5 DEF ReadDev
  <2>. QED
    BY <2>3, <2>4, <2>5
<1>j. ReadExtra(c, m, x)
  <2>1. ReadExtra(c, n, r)
    BY DEF ReadSo
  <2>2. \A k : k # d.k => Value(Append(r.extra, d), k) = Value(r.extra, k)
    BY <1>8, ValueAppended
  <2>3. LineSet(Append(r.extra, d)) = LineSet(r.extra) \cup {d}
    BY <1>8, <1>9
  <2>4. CASE IsRest(d.k)
    <3>1. x.extra = Append(r.extra, d)
      BY <1>2, <2>4 DEF Reads, LineSays
    <3>2. Value(x.extra, d.k) = d.v
      BY <1>8, <3>1, ValueAppended
    <3>3. \A j : Latest(c, m, j) /\ IsRest(c[j].k) => Value(x.extra, c[j].k) = c[j].v
      BY <1>7, <1>10, <2>1, <2>2, <3>1, <3>2 DEF ReadExtra
    <3>. QED
      BY <1>3, <1>6, <1>10, <2>1, <2>3, <2>4, <3>1, <3>3 DEF ReadExtra
  <2>5. CASE d.k = "redirect-gateway"
    <3>0. ~IsRest(d.k)
      BY <2>5 DEF IsRest
    <3>1. x.extra \in {r.extra, Append(r.extra, d)}
      BY <1>2, <2>5 DEF Reads, LineSays
    <3>3. \A j : Latest(c, m, j) /\ IsRest(c[j].k) => Value(x.extra, c[j].k) = c[j].v
      BY <1>7, <1>10, <2>1, <2>2, <3>0, <3>1 DEF ReadExtra
    <3>. QED
      BY <1>3, <1>6, <1>10, <2>1, <2>3, <2>5, <3>0, <3>1, <3>3 DEF ReadExtra
  <2>6. CASE ~IsRest(d.k) /\ d.k # "redirect-gateway"
    <3>1. x.extra = r.extra
      BY <1>2, <2>6 DEF Reads, Keeps
    <3>3. \A j : Latest(c, m, j) /\ IsRest(c[j].k) => Value(x.extra, c[j].k) = c[j].v
      BY <1>7, <1>10, <2>1, <2>6, <3>1 DEF ReadExtra
    <3>. QED
      BY <1>6, <1>10, <2>1, <2>6, <3>1, <3>3 DEF ReadExtra
  <2>. QED
    BY <2>4, <2>5, <2>6
<1>. QED
  BY <1>1, <1>b, <1>c, <1>d, <1>e, <1>f, <1>g, <1>h, <1>i, <1>j DEF ReadSo

(* What Parse has read of a plain configuration.                             *)
LEMMA AllRead ==
    ASSUME NEW c, AllDirectives(c), Plain(c)
    PROVE  ReadSo(c, Len(c), FoldLeft(ParseLine, NoResult, c))
<1>. DEFINE n == Len(c)
            r == FoldLeft(ParseLine, NoResult, c)
<1>1. n \in Nat
  BY Joined DEF AllDirectives
<1>2. PICK g : IsChain(g, "line", NoResult, c, n) /\ r = g[n]
  BY LineChain DEF AllDirectives
<1>. DEFINE I == {i \in Nat : i <= n => ReadSo(c, i, g[i])}
<1>3. 0 \in I
  BY <1>2, NothingRead DEF IsChain
<1>4. ASSUME NEW i \in Nat, i \in I PROVE i + 1 \in I
  <2>. SUFFICES ASSUME i + 1 <= n PROVE ReadSo(c, i + 1, g[i + 1])
    OBVIOUS
  <2>. HIDE DEF n
  <2>1. i + 1 \in 1..n /\ (i + 1) - 1 = i /\ i <= n
    BY <1>1
  <2>2. g[i + 1] = ParseLine(g[i], c[i + 1])
    BY <1>2, <2>1 DEF IsChain, Step
  <2>3. ReadSo(c, i, g[i])
    BY <1>4, <2>1
  <2>. QED
    BY <2>1, <2>2, <2>3, ReadStep DEF n
<1>5. Nat \subseteq I
  <2>. HIDE DEF I
  <2>. QED
    BY <1>3, <1>4, NaturalsIn
<1>. QED
  BY <1>1, <1>2, <1>5

------------------------------------------------------------------------------
(* Blocks                                                                    *)

(* A block that becomes a column of its name, and one that becomes a line.   *)
ColumnTags == {"ca", "cert", "key", "tls-crypt", "tls-auth", "dh"}
LineTags == {"extra-certs", "tls-crypt-v2"}

SameBesides(p, m) ==
    /\ m.role = p.role /\ m.fold = p.fold /\ m.network = p.network /\ m.remotes = p.remotes
    /\ m.routes = p.routes /\ m.dns = p.dns /\ m.plugins = p.plugins

(* What the first n blocks of b make of p.                                   *)
FiledColumns(p, b, n, m) ==
    /\ \A l \in 1..n : b[l].v[1] \in ColumnTags => m.col[b[l].v[1]] = b[l].v[2]
    /\ \A l \in 1..n : b[l].v[1] = "secret" => m.col["tls-auth"] = b[l].v[2]
    /\ \A k \in Columns :
          (\A l \in 1..n : b[l].v[1] # k /\ (k = "tls-auth" => b[l].v[1] # "secret"))
          => m.col[k] = p.col[k]
FiledStatic(p, b, n, m) == m.static <=> p.static \/ \E l \in 1..n : b[l].v[1] = "secret"
BlockLine(b) == D(b.v[1], <<b.v[2]>>)
FiledExtra(p, b, n, m) ==
    /\ \A l \in 1..n : b[l].v[1] \in LineTags => BlockLine(b[l]) \in LineSet(m.extra)
    /\ LineSet(p.extra) \subseteq LineSet(m.extra)
    /\ \A d \in LineSet(m.extra) :
          d \in LineSet(p.extra) \/ \E l \in 1..n : b[l].v[1] \in LineTags /\ d = BlockLine(b[l])
    /\ \A k : (\A l \in 1..n : b[l].v[1] # k) => Value(m.extra, k) = Value(p.extra, k)
FiledSo(p, b, n, m) ==
    /\ ResultShape(m) /\ SameBesides(p, m)
    /\ FiledColumns(p, b, n, m) /\ FiledStatic(p, b, n, m) /\ FiledExtra(p, b, n, m)

(* Blocks of a tag are alike, and a secret leaves no other use of its file.  *)
PlainBlocks(b) ==
    /\ ASeq(b)
    /\ \A l \in 1..Len(b) : b[l].v[1] \in InlineTags
    /\ \A l, j \in 1..Len(b) : b[l].v[1] = b[j].v[1] => b[l].v[2] = b[j].v[2]
    /\ \A l, j \in 1..Len(b) : b[l].v[1] = "secret" => b[j].v[1] # "tls-auth"

(* What has been filed stays true with the next block.                       *)
LEMMA FileStep ==
    ASSUME NEW b, PlainBlocks(b), NEW n \in Nat, n + 1 \in 1..Len(b), NEW p, NEW r,
           FiledSo(p, b, n, r)
    PROVE  FiledSo(p, b, n + 1, Materialize1(r, b[n + 1]))
<1>. DEFINE d == b[n + 1]
            j == n + 1
            x == Materialize1(r, d)
            tag == d.v[1]
            body == d.v[2]
<1>1. ResultShape(r) /\ ResultShape(x)
  BY Materialize1Shape DEF FiledSo
<1>2. DOMAIN r = ResultFields /\ DOMAIN r.col = Columns /\ ASeq(r.extra)
  BY <1>1 DEF ResultShape
<1>3. 1..j = 1..n \cup {j} /\ j \in 1..j /\ j \in Nat /\ 1..j \subseteq 1..Len(b)
  <2>1. Len(b) \in Nat
    BY Joined DEF PlainBlocks
  <2>. QED
    BY <2>1, NextLine
<1>4. tag \in InlineTags /\ InlineTags = ColumnTags \cup LineTags \cup {"secret"}
  BY DEF PlainBlocks, InlineTags, ColumnTags, LineTags
<1>5. b[j] = d
  OBVIOUS
<1>6. /\ \A l \in 1..j : b[l].v[1] = tag => b[l].v[2] = body
      /\ \A l \in 1..j : b[l].v[1] = "secret" => tag # "tls-auth"
      /\ \A l \in 1..j : tag = "secret" => b[l].v[1] # "tls-auth"
  <2>1. j \in 1..Len(b)
    BY <1>3
  <2>. QED
    BY <1>3, <2>1 DEF PlainBlocks
<1>7. /\ SameBesides(p, r) /\ FiledColumns(p, b, n, r) /\ FiledStatic(p, b, n, r)
      /\ FiledExtra(p, b, n, r)
  BY DEF FiledSo
<1>8. ColumnTags \subseteq Columns /\ "tls-auth" \in Columns
  BY DEF ColumnTags, Columns
<1>9. LineSet(Append(r.extra, BlockLine(d))) = LineSet(r.extra) \cup {BlockLine(d)}
  BY <1>2, SetAppended
<1>a. \A k : k # tag => Value(Append(r.extra, BlockLine(d)), k) = Value(r.extra, k)
  <2>1. BlockLine(d).k = tag
    BY DEF BlockLine, D
  <2>. QED
    BY <1>2, <2>1, ValueAppended
<1>10. CASE tag = "secret"
  <2>1. x = [r EXCEPT !.col["tls-auth"] = body, !.static = TRUE]
    BY <1>10 DEF Materialize1
  <2>. HIDE DEF d, j, x, tag, body
  <2>2. /\ x.role = r.role /\ x.fold = r.fold /\ x.network = r.network /\ x.remotes = r.remotes
        /\ x.routes = r.routes /\ x.dns = r.dns /\ x.plugins = r.plugins
        /\ x.extra = r.extra /\ x.static = TRUE
        /\ x.col = [r.col EXCEPT !["tls-auth"] = body]
    BY <1>2, <2>1 DEF ResultFields
  <2>3. x.col["tls-auth"] = body /\ \A k \in Columns : k # "tls-auth" => x.col[k] = r.col[k]
    BY <1>2, <1>8, <2>2
  <2>4. FiledColumns(p, b, j, x)
    <3>1. ASSUME NEW l \in 1..j, b[l].v[1] \in ColumnTags PROVE x.col[b[l].v[1]] = b[l].v[2]
      <4>1. b[l].v[1] # "tls-auth" /\ l # j
        BY <1>4, <1>5, <1>6, <1>10, <3>1 DEF tag, ColumnTags
      <4>. QED
        BY <1>3, <1>7, <1>8, <2>3, <3>1, <4>1 DEF FiledColumns
    <3>2. ASSUME NEW l \in 1..j, b[l].v[1] = "secret" PROVE x.col["tls-auth"] = b[l].v[2]
      BY <1>6, <1>10, <2>3, <3>2
    <3>3. ASSUME NEW k \in Columns,
                 \A l \in 1..j : b[l].v[1] # k /\ (k = "tls-auth" => b[l].v[1] # "secret")
          PROVE  x.col[k] = p.col[k]
      <4>1. k # "tls-auth"
        BY <1>3, <1>5, <1>10, <3>3 DEF tag
      <4>. QED
        BY <1>3, <1>7, <2>3, <3>3, <4>1 DEF FiledColumns
    <3>. QED
      BY <3>1, <3>2, <3>3 DEF FiledColumns
  <2>5. FiledStatic(p, b, j, x)
    BY <1>3, <1>5, <1>10, <2>2 DEF FiledStatic, tag
  <2>6. FiledExtra(p, b, j, x)
    <3>1. tag \notin LineTags
      BY <1>10 DEF LineTags
    <3>. QED
      <4>1. ASSUME NEW k, \A l \in 1..j : b[l].v[1] # k PROVE Value(x.extra, k) = Value(p.extra, k)
        <5>1. \A l \in 1..n : b[l].v[1] # k
          BY <1>3, <4>1
        <5>. QED
          BY <1>7, <2>2, <5>1 DEF FiledExtra
      <4>2. ASSUME NEW l \in 1..j, b[l].v[1] \in LineTags PROVE BlockLine(b[l]) \in LineSet(x.extra)
        BY <1>3, <1>5, <1>7, <3>1, <2>2, <4>2 DEF FiledExtra, tag
      <4>3. ASSUME NEW e \in LineSet(x.extra)
            PROVE  e \in LineSet(p.extra)
                   \/ \E l \in 1..j : b[l].v[1] \in LineTags /\ e = BlockLine(b[l])
        BY <1>3, <1>7, <2>2, <4>3 DEF FiledExtra
      <4>4. LineSet(p.extra) \subseteq LineSet(x.extra)
        BY <1>7, <2>2 DEF FiledExtra
      <4>. QED
        BY <4>1, <4>2, <4>3, <4>4 DEF FiledExtra
  <2>7. SameBesides(p, x)
    BY <1>7, <2>2 DEF SameBesides
  <2>. QED
    BY <1>1, <2>4, <2>5, <2>6, <2>7 DEF FiledSo, x, j, d
<1>11. CASE tag \in LineTags
  <2>1. x = [r EXCEPT !.extra = Append(@, BlockLine(d))]
    <3>1. tag # "secret" /\ tag \in {"extra-certs", "tls-crypt-v2"}
      BY <1>11 DEF LineTags
    <3>. QED
      BY <3>1 DEF Materialize1, BlockLine
  <2>. HIDE DEF d, j, x, tag, body
  <2>2. /\ x.role = r.role /\ x.fold = r.fold /\ x.network = r.network /\ x.remotes = r.remotes
        /\ x.routes = r.routes /\ x.dns = r.dns /\ x.plugins = r.plugins
        /\ x.col = r.col /\ x.static = r.static
        /\ x.extra = Append(r.extra, BlockLine(d))
    BY <1>2, <2>1 DEF ResultFields
  <2>3. tag \notin ColumnTags /\ tag # "secret"
    BY <1>11 DEF LineTags, ColumnTags
  <2>4. FiledColumns(p, b, j, x)
    <3>1. ASSUME NEW l \in 1..j, b[l].v[1] \in ColumnTags PROVE x.col[b[l].v[1]] = b[l].v[2]
      BY <1>3, <1>5, <1>7, <2>2, <2>3, <3>1 DEF FiledColumns, tag
    <3>2. ASSUME NEW l \in 1..j, b[l].v[1] = "secret" PROVE x.col["tls-auth"] = b[l].v[2]
      BY <1>3, <1>5, <1>7, <2>2, <2>3, <3>2 DEF FiledColumns, tag
    <3>3. ASSUME NEW k \in Columns,
                 \A l \in 1..j : b[l].v[1] # k /\ (k = "tls-auth" => b[l].v[1] # "secret")
          PROVE  x.col[k] = p.col[k]
      <4>1. \A l \in 1..n : b[l].v[1] # k /\ (k = "tls-auth" => b[l].v[1] # "secret")
        BY <1>3, <3>3
      <4>. QED
        BY <1>7, <2>2, <4>1 DEF FiledColumns
    <3>. QED
      BY <3>1, <3>2, <3>3 DEF FiledColumns
  <2>5. FiledStatic(p, b, j, x)
    BY <1>3, <1>5, <1>7, <2>2, <2>3 DEF FiledStatic, tag
  <2>6. FiledExtra(p, b, j, x)
    <3>1. ASSUME NEW k, \A l \in 1..j : b[l].v[1] # k PROVE Value(x.extra, k) = Value(p.extra, k)
      BY <1>3, <1>5, <1>7, <1>a, <2>2, <3>1 DEF FiledExtra, tag
    <3>2. LineSet(x.extra) = LineSet(r.extra) \cup {BlockLine(d)}
      BY <1>9, <2>2
    <3>3. ASSUME NEW l \in 1..j, b[l].v[1] \in LineTags PROVE BlockLine(b[l]) \in LineSet(x.extra)
      BY <1>3, <1>5, <1>7, <3>2, <3>3 DEF FiledExtra
    <3>4. ASSUME NEW e \in LineSet(x.extra)
          PROVE  e \in LineSet(p.extra)
                 \/ \E l \in 1..j : b[l].v[1] \in LineTags /\ e = BlockLine(b[l])
      BY <1>3, <1>5, <1>7, <1>11, <3>2, <3>4 DEF FiledExtra, tag
    <3>5. LineSet(p.extra) \subseteq LineSet(x.extra)
      BY <1>7, <3>2 DEF FiledExtra
    <3>. QED
      BY <3>1, <3>3, <3>4, <3>5 DEF FiledExtra
  <2>7. SameBesides(p, x)
    BY <1>7, <2>2 DEF SameBesides
  <2>. QED
    BY <1>1, <2>4, <2>5, <2>6, <2>7 DEF FiledSo, x, j, d
<1>12. CASE tag \in ColumnTags
  <2>1. x = [r EXCEPT !.col[tag] = body]
    <3>1. tag # "secret" /\ tag \notin {"extra-certs", "tls-crypt-v2"}
      BY <1>12 DEF ColumnTags
    <3>. QED
      BY <3>1 DEF Materialize1
  <2>. HIDE DEF d, j, x, tag, body
  <2>2. /\ x.role = r.role /\ x.fold = r.fold /\ x.network = r.network /\ x.remotes = r.remotes
        /\ x.routes = r.routes /\ x.dns = r.dns /\ x.plugins = r.plugins
        /\ x.extra = r.extra /\ x.static = r.static
        /\ x.col = [r.col EXCEPT ![tag] = body]
    BY <1>2, <2>1 DEF ResultFields
  <2>3. x.col[tag] = body /\ \A k \in Columns : k # tag => x.col[k] = r.col[k]
    BY <1>2, <1>8, <1>12, <2>2
  <2>0. tag \notin LineTags /\ tag # "secret"
    BY <1>12 DEF LineTags, ColumnTags
  <2>4. FiledColumns(p, b, j, x)
    <3>1. ASSUME NEW l \in 1..j, b[l].v[1] \in ColumnTags PROVE x.col[b[l].v[1]] = b[l].v[2]
      <4>1. CASE b[l].v[1] = tag
        BY <1>6, <2>3, <4>1
      <4>2. CASE b[l].v[1] # tag
        <5>1. l \in 1..n
          BY <1>3, <1>5, <4>2 DEF tag
        <5>. QED
          BY <1>7, <1>8, <2>3, <3>1, <4>2, <5>1 DEF FiledColumns
      <4>. QED
        BY <4>1, <4>2
    <3>2. ASSUME NEW l \in 1..j, b[l].v[1] = "secret" PROVE x.col["tls-auth"] = b[l].v[2]
      <4>1. tag # "tls-auth" /\ l \in 1..n
        BY <1>3, <1>5, <1>6, <2>0, <3>2 DEF tag
      <4>. QED
        BY <1>7, <1>8, <2>3, <3>2, <4>1 DEF FiledColumns
    <3>3. ASSUME NEW k \in Columns,
                 \A l \in 1..j : b[l].v[1] # k /\ (k = "tls-auth" => b[l].v[1] # "secret")
          PROVE  x.col[k] = p.col[k]
      <4>1. k # tag
        BY <1>3, <1>5, <3>3 DEF tag
      <4>. QED
        BY <1>3, <1>7, <2>3, <3>3, <4>1 DEF FiledColumns
    <3>. QED
      BY <3>1, <3>2, <3>3 DEF FiledColumns
  <2>5. FiledStatic(p, b, j, x)
    BY <1>3, <1>5, <1>7, <2>0, <2>2 DEF FiledStatic, tag
  <2>6. FiledExtra(p, b, j, x)
    <3>1. ASSUME NEW k, \A l \in 1..j : b[l].v[1] # k PROVE Value(x.extra, k) = Value(p.extra, k)
      <4>1. \A l \in 1..n : b[l].v[1] # k
        BY <1>3, <3>1
      <4>. QED
        BY <1>7, <2>2, <4>1 DEF FiledExtra
    <3>2. ASSUME NEW l \in 1..j, b[l].v[1] \in LineTags PROVE BlockLine(b[l]) \in LineSet(x.extra)
      BY <1>3, <1>5, <1>7, <2>0, <2>2, <3>2 DEF FiledExtra, tag
    <3>3. ASSUME NEW e \in LineSet(x.extra)
          PROVE  e \in LineSet(p.extra)
                 \/ \E l \in 1..j : b[l].v[1] \in LineTags /\ e = BlockLine(b[l])
      BY <1>3, <1>7, <2>2, <3>3 DEF FiledExtra
    <3>4. LineSet(p.extra) \subseteq LineSet(x.extra)
      BY <1>7, <2>2 DEF FiledExtra
    <3>. QED
      BY <3>1, <3>2, <3>3, <3>4 DEF FiledExtra
  <2>7. SameBesides(p, x)
    BY <1>7, <2>2 DEF SameBesides
  <2>. QED
    BY <1>1, <2>4, <2>5, <2>6, <2>7 DEF FiledSo, x, j, d
<1>. QED
  BY <1>4, <1>10, <1>11, <1>12

(* What Materialize makes of all blocks.                                     *)
LEMMA AllFiled ==
    ASSUME NEW p, ResultShape(p), PlainBlocks(p.inline)
    PROVE  \E m : /\ FiledSo(p, p.inline, Len(p.inline), m)
                  /\ Materialize(p) = [m EXCEPT !.inline = <<>>]
<1>. DEFINE b == p.inline
            n == Len(b)
            m == FoldLeft(Materialize1, p, b)
<1>1. n \in Nat /\ ASeq(b)
  BY Joined DEF PlainBlocks
<1>2. PICK g : IsChain(g, "block", p, b, n) /\ m = g[n]
  BY <1>1, BlockChain
<1>. DEFINE I == {i \in Nat : i <= n => FiledSo(p, b, i, g[i])}
<1>3. 0 \in I
  <2>1. g[0] = p
    BY <1>2 DEF IsChain
  <2>2. 1..0 = {}
    OBVIOUS
  <2>. HIDE DEF b
  <2>3. FiledSo(p, b, 0, p)
    BY <2>2 DEF FiledSo, SameBesides, FiledColumns, FiledStatic, FiledExtra
  <2>. QED
    BY <2>1, <2>3
<1>4. ASSUME NEW i \in Nat, i \in I PROVE i + 1 \in I
  <2>. SUFFICES ASSUME i + 1 <= n PROVE FiledSo(p, b, i + 1, g[i + 1])
    OBVIOUS
  <2>. HIDE DEF n
  <2>1. i + 1 \in 1..n /\ (i + 1) - 1 = i /\ i <= n
    BY <1>1
  <2>2. g[i + 1] = Materialize1(g[i], b[i + 1])
    BY <1>2, <2>1 DEF IsChain, Step
  <2>3. FiledSo(p, b, i, g[i])
    BY <1>4, <2>1
  <2>. QED
    BY <2>1, <2>2, <2>3, FileStep DEF n
<1>5. Nat \subseteq I
  <2>. HIDE DEF I
  <2>. QED
    BY <1>3, <1>4, NaturalsIn
<1>6. FiledSo(p, b, n, m)
  BY <1>1, <1>2, <1>5
<1>7. Materialize(p) = [m EXCEPT !.inline = <<>>]
  BY DEF Materialize
<1>. QED
  BY <1>6, <1>7

------------------------------------------------------------------------------
(* The request                                                               *)

OneArg(k, v) == IF v = Unset THEN {} ELSE {D(k, <<v>>)}

LEMMA SetOfArg ==
    ASSUME NEW k, NEW v
    PROVE  ASeq(Arg(k, v)) /\ LineSet(Arg(k, v)) = OneArg(k, v)
<1>1. CASE v = Unset
  BY <1>1, SetOfNone DEF Arg, OneArg
<1>2. CASE v # Unset
  <2>1. Arg(k, v) = <<D(k, <<v>>)>>
    BY <1>2 DEF Arg
  <2>. QED
    BY <1>2, <2>1, SetOfOne DEF OneArg
<1>. QED
  BY <1>1, <1>2

(* The lines written of the folded columns: no number is written as none.    *)
Written(f, k) == f[k] # Unset /\ ~(k \in Numbers /\ f[k] = "0")
FoldedLines(f) == {D(k, <<f[k]>>) : k \in {l \in Folded : Written(f, l)}}

(* What ToCreateRequest adds for the folded columns, as a set of lines.      *)
LEMMA FoldedArgsLines ==
    ASSUME NEW f
    PROVE  ASeq(FoldedArgs(f)) /\ LineSet(FoldedArgs(f)) = FoldedLines(f)
<1>. DEFINE a1 == Number("max-clients", f["max-clients"])
            a2 == Arg("tls-version-min", f["tls-version-min"])
            a3 == Number("tun-mtu", f["tun-mtu"])
            a4 == Number("sndbuf", f["sndbuf"])
            a5 == Number("rcvbuf", f["rcvbuf"])
            a6 == Arg("server-ipv6", f["server-ipv6"])
            L(k) == IF Written(f, k) THEN {D(k, <<f[k]>>)} ELSE {}
<1>1. \A k \in Numbers : ASeq(Number(k, f[k])) /\ LineSet(Number(k, f[k])) = L(k)
  <2>. SUFFICES ASSUME NEW k \in Numbers
                PROVE  ASeq(Number(k, f[k])) /\ LineSet(Number(k, f[k])) = L(k)
    OBVIOUS
  <2>. DEFINE v == IF f[k] = "0" THEN Unset ELSE f[k]
  <2>1. ASeq(Arg(k, v)) /\ LineSet(Arg(k, v)) = OneArg(k, v)
    BY SetOfArg
  <2>2. Number(k, f[k]) = Arg(k, v)
    BY DEF Number
  <2>3. OneArg(k, v) = L(k)
    BY DEF OneArg, Written
  <2>. QED
    BY <2>1, <2>2, <2>3
<1>2. \A k : k \notin Numbers => ASeq(Arg(k, f[k])) /\ LineSet(Arg(k, f[k])) = L(k)
  BY SetOfArg DEF OneArg, Written
<1>3. /\ ASeq(a1) /\ LineSet(a1) = L("max-clients")
      /\ ASeq(a2) /\ LineSet(a2) = L("tls-version-min")
      /\ ASeq(a3) /\ LineSet(a3) = L("tun-mtu")
      /\ ASeq(a4) /\ LineSet(a4) = L("sndbuf")
      /\ ASeq(a5) /\ LineSet(a5) = L("rcvbuf")
      /\ ASeq(a6) /\ LineSet(a6) = L("server-ipv6")
  <2>1. /\ "max-clients" \in Numbers /\ "tun-mtu" \in Numbers /\ "sndbuf" \in Numbers
        /\ "rcvbuf" \in Numbers /\ "tls-version-min" \notin Numbers
        /\ "server-ipv6" \notin Numbers
    BY DEF Numbers
  <2>. HIDE DEF L
  <2>. QED
    BY <1>1, <1>2, <2>1
<1>4. FoldedArgs(f) = ((((a1 \o a2) \o a3) \o a4) \o a5) \o a6
  BY DEF FoldedArgs
<1>5. FoldedLines(f) = ((((L("max-clients") \cup L("tls-version-min")) \cup L("tun-mtu"))
                         \cup L("sndbuf")) \cup L("rcvbuf")) \cup L("server-ipv6")
  <2>. DEFINE R == ((((L("max-clients") \cup L("tls-version-min")) \cup L("tun-mtu"))
                    \cup L("sndbuf")) \cup L("rcvbuf")) \cup L("server-ipv6")
  <2>1. \A k : k \in Folded <=> k = "max-clients" \/ k = "tls-version-min" \/ k = "tun-mtu"
                                \/ k = "sndbuf" \/ k = "rcvbuf" \/ k = "server-ipv6"
    BY DEF Folded
  <2>2. \A d : d \in FoldedLines(f) <=> \E k \in Folded : d \in L(k)
    BY DEF FoldedLines
  <2>3. \A d : d \in R <=> \E k \in Folded : d \in L(k)
    <3>. HIDE DEF L
    <3>. QED
      BY <2>1
  <2>4. \A d : d \in R <=> d \in FoldedLines(f)
    BY <2>2, <2>3
  <2>. HIDE DEF R
  <2>5. R = FoldedLines(f)
    BY <2>4
  <2>. QED
    BY <2>5 DEF R
<1>. HIDE DEF a1, a2, a3, a4, a5, a6, L
<1>. DEFINE b2 == a1 \o a2
            b3 == b2 \o a3
            b4 == b3 \o a4
            b5 == b4 \o a5
            b6 == b5 \o a6
<1>6. ASeq(b2) /\ LineSet(b2) = L("max-clients") \cup L("tls-version-min")
  BY <1>3, SetJoined
<1>. HIDE DEF b2
<1>7. ASeq(b3) /\ LineSet(b3) = LineSet(b2) \cup L("tun-mtu")
  BY <1>3, <1>6, SetJoined
<1>. HIDE DEF b3
<1>8. ASeq(b4) /\ LineSet(b4) = LineSet(b3) \cup L("sndbuf")
  BY <1>3, <1>7, SetJoined
<1>. HIDE DEF b4
<1>9. ASeq(b5) /\ LineSet(b5) = LineSet(b4) \cup L("rcvbuf")
  BY <1>3, <1>8, SetJoined
<1>. HIDE DEF b5
<1>10. ASeq(b6) /\ LineSet(b6) = LineSet(b5) \cup L("server-ipv6")
  BY <1>3, <1>9, SetJoined
<1>11. FoldedArgs(f) = b6
  BY <1>4 DEF b2, b3, b4, b5
<1>. HIDE DEF b6
<1>. QED
  BY <1>5, <1>6, <1>7, <1>8, <1>9, <1>10, <1>11

(* A column or network of the request is the last word of its keyword.       *)
AsksColumns(c, q) ==
    /\ \A j : Latest(c, Len(c), j) =>
         /\ OwnColumn(c, c[j].k) /\ (c[j].k = "tls-auth" => Len(c[j].v) = 1) =>
              q.col[c[j].k] = c[j].v[1]
         /\ c[j].k = "secret" => q.col["tls-auth"] = c[j].v[1]
         /\ c[j].k = "server" => q.network = c[j].v[1]
         /\ c[j].k = "dh" => q.col["dh"] = IF c[j].v[1] = "none" THEN Unset ELSE c[j].v[1]
    /\ \A d \in LineSet(c) : d.k = "<>" =>
         /\ d.v[1] \in ColumnTags => q.col[d.v[1]] = d.v[2]
         /\ d.v[1] = "secret" => q.col["tls-auth"] = d.v[2]
    /\ \A d \in LineSet(c) : d.k = "dev" =>
         IF d.v[1] \in DevTypes THEN q.col["dev-type"] = d.v[1] /\ q.col["device"] = Unset
         ELSE q.col["device"] = d.v[1]
    /\ q.col["device"] \notin DevTypes
AsksLists(c, q) ==
    /\ \A d \in LineSet(c) :
         /\ d.k = "plugin" => d \in LineSet(q.plugins)
         /\ d.k = "push" /\ d.v[1] = "DNS" => d.v[2] \in LineSet(q.dns)
         /\ d.k = "push" /\ d.v[1] = "route" => d.v[2] \in LineSet(q.routes)
         /\ d.k = "remote" => RemoteOf(d.v) \in LineSet(q.remotes)
    /\ LineSet(q.plugins) \subseteq LineSet(c)
    /\ \A x \in LineSet(q.remotes) : \E d \in LineSet(c) : d.k = "remote" /\ x = RemoteOf(d.v)
OwnRest(d) == IsRest(d.k) \/ d.k = "redirect-gateway" \/ KeptPush(d)
AsksExtra(c, q, fold) ==
    /\ \A d \in LineSet(c) :
         /\ IsRest(d.k) \/ KeptPush(d) => d \in LineSet(q.extra)
         /\ d.k = "<>" /\ d.v[1] \in LineTags => BlockLine(d) \in LineSet(q.extra)
    /\ \A j : Latest(c, Len(c), j) =>
         /\ IsRest(c[j].k) => Value(q.extra, c[j].k) = c[j].v
         /\ c[j].k \in Folded => fold[c[j].k] = c[j].v[1]
    /\ FoldedLines(fold) \subseteq LineSet(q.extra)
    /\ \A d \in LineSet(q.extra) :
         \/ d \in LineSet(c) /\ OwnRest(d)
         \/ \E b \in LineSet(c) : b.k = "<>" /\ b.v[1] \in LineTags /\ d = BlockLine(b)
         \/ d \in FoldedLines(fold)
AsksStatic(c, q) == q.static <=> Named(c, "secret")

(* The request of a plain configuration, part by part.                       *)
LEMMA Asked ==
    ASSUME NEW c, AllDirectives(c), Plain(c)
    PROVE  LET q == Imported(c) IN
           /\ ResultShape(q) /\ AsksColumns(c, q) /\ AsksLists(c, q) /\ AsksStatic(c, q)
           /\ \E fold : AsksExtra(c, q, fold)
<1>. DEFINE r == FoldLeft(ParseLine, NoResult, c)
            p == Parse(c)
            q == Imported(c)
            n == Len(c)
<1>1. ReadSo(c, n, r)
  BY AllRead
<1>2. ResultShape(p) /\ ResultShape(q)
  BY ParseShape, ImportedShape DEF AllDirectives
<1>3. p = [r EXCEPT !.role = InferredRole(r), !.extra = r.pushed \o r.extra]
  BY DEF Parse
<1>. HIDE DEF r, p
<1>4. DOMAIN r = ResultFields /\ ASeq(r.pushed) /\ ASeq(r.extra) /\ ASeq(r.inline)
  BY <1>1 DEF ReadSo, ReadShape, ResultShape
<1>5. /\ p.inline = r.inline /\ p.plugins = r.plugins /\ p.remotes = r.remotes
      /\ p.dns = r.dns /\ p.routes = r.routes /\ p.network = r.network /\ p.col = r.col
      /\ p.fold = r.fold /\ p.static = r.static /\ p.extra = r.pushed \o r.extra
  BY <1>3, <1>4 DEF ResultFields
<1>6. /\ \A d \in LineSet(c) : PlainLine(d) /\ IsDirective(d)
      /\ \A d, e \in LineSet(c) : PlainPair(d, e)
      /\ \A k : Named(c, k) <=> \E d \in LineSet(c) : Names(d, k)
      /\ \A j \in 1..n : c[j] \in LineSet(c)
      /\ \A d \in LineSet(c) : \E j \in 1..n : c[j] = d
  BY PlainLines, LineOf DEF AllDirectives
<1>. DEFINE b == p.inline
            w == Len(b)
<1>7. /\ ASeq(b) /\ \A l \in 1..w : b[l] \in LineSet(b)
      /\ \A d \in LineSet(b) : \E l \in 1..w : b[l] = d
      /\ w \in Nat
  <2>1. ASeq(b)
    BY <1>4, <1>5
  <2>. HIDE DEF b
  <2>2. /\ \A j \in DOMAIN b : b[j] \in LineSet(b)
        /\ \A d \in LineSet(b) : \E j \in DOMAIN b : b[j] = d
        /\ DOMAIN b = 1..w /\ w \in Nat
    BY <2>1, LineOf
  <2>. QED
    BY <2>1, <2>2
<1>8. \A d : d \in LineSet(b) <=> d \in LineSet(c) /\ d.k = "<>"
  <2>1. ReadBlocks(c, n, r)
    BY <1>1 DEF ReadSo
  <2>2. ASSUME NEW d \in LineSet(c), d.k = "<>" PROVE d \in LineSet(b)
    <3>1. PICK j \in 1..n : c[j] = d
      BY <1>6
    <3>. QED
      BY <1>5, <2>1, <2>2, <3>1 DEF ReadBlocks
  <2>. QED
    BY <1>5, <2>1, <2>2 DEF ReadBlocks
<1>9. PlainBlocks(b)
  <2>1. ASSUME NEW l \in 1..w PROVE b[l].v[1] \in InlineTags
    BY <1>6, <1>7, <1>8 DEF PlainLine
  <2>2. ASSUME NEW l \in 1..w, NEW j \in 1..w, b[l].v[1] = b[j].v[1] PROVE b[l].v[2] = b[j].v[2]
    BY <1>6, <1>7, <1>8, <2>2 DEF PlainPair
  <2>3. ASSUME NEW l \in 1..w, NEW j \in 1..w, b[l].v[1] = "secret" PROVE b[j].v[1] # "tls-auth"
    <3>0. b[l] \in LineSet(c) /\ b[l].k = "<>"
      BY <1>7, <1>8
    <3>1. Named(c, "secret")
      BY <1>6, <2>3, <3>0 DEF Names
    <3>2. ~Named(c, "tls-auth")
      BY <3>1 DEF Plain
    <3>3. b[j] \in LineSet(c) /\ b[j].k = "<>"
      BY <1>7, <1>8
    <3>. HIDE DEF b
    <3>. QED
      BY <1>6, <3>2, <3>3 DEF Names
  <2>. QED
    BY <1>7, <2>1, <2>2, <2>3 DEF PlainBlocks
<1>10. PICK m : FiledSo(p, b, w, m) /\ Materialize(p) = [m EXCEPT !.inline = <<>>]
  BY <1>2, <1>9, AllFiled
<1>11. q = [[m EXCEPT !.inline = <<>>] EXCEPT !.extra = @ \o FoldedArgs([m EXCEPT !.inline = <<>>].fold),
                                             !.fold = NoResult.fold]
  BY <1>10 DEF Imported, ToCreateRequest, p
<1>. HIDE DEF q, b, w, n
<1>12. DOMAIN m = ResultFields /\ ASeq(m.extra)
  BY <1>10 DEF FiledSo, ResultShape
<1>13. /\ q.network = m.network /\ q.remotes = m.remotes /\ q.dns = m.dns /\ q.routes = m.routes
       /\ q.plugins = m.plugins /\ q.col = m.col /\ q.static = m.static
       /\ q.extra = m.extra \o FoldedArgs(m.fold)
  BY <1>11, <1>12 DEF ResultFields
<1>14. /\ SameBesides(p, m) /\ FiledColumns(p, b, w, m) /\ FiledStatic(p, b, w, m)
       /\ FiledExtra(p, b, w, m)
  BY <1>10 DEF FiledSo
<1>15. \A d : d \in LineSet(b) <=> \E l \in 1..w : b[l] = d
  BY <1>7
<1>16. AsksStatic(c, q)
  <2>1. r.static <=> \E j \in 1..n : c[j].k = "secret"
    BY <1>1 DEF ReadSo, ReadStatic
  <2>2. q.static <=> \/ \E j \in 1..n : c[j].k = "secret"
                     \/ \E l \in 1..w : b[l].v[1] = "secret"
    BY <1>5, <1>13, <1>14, <2>1 DEF FiledStatic
  <2>3. (\E j \in 1..n : c[j].k = "secret") <=> \E d \in LineSet(c) : d.k = "secret"
    BY <1>6
  <2>4. (\E l \in 1..w : b[l].v[1] = "secret")
        <=> \E d \in LineSet(c) : d.k = "<>" /\ d.v[1] = "secret"
    BY <1>8, <1>15
  <2>. QED
    BY <1>6, <2>2, <2>3, <2>4 DEF AsksStatic, Names
<1>17. AsksLists(c, q)
  <2>1. ReadPlugins(c, n, r) /\ ReadPushes(c, n, r) /\ ReadRemotes(c, n, r)
    BY <1>1 DEF ReadSo
  <2>2. q.plugins = r.plugins /\ q.dns = r.dns /\ q.routes = r.routes /\ q.remotes = r.remotes
    BY <1>5, <1>13, <1>14 DEF SameBesides
  <2>3. \A d \in LineSet(c) : d.k = "plugin" => d \in LineSet(q.plugins)
    BY <1>6, <2>1, <2>2 DEF ReadPlugins
  <2>4. \A d \in LineSet(c) :
          /\ d.k = "push" /\ d.v[1] = "DNS" => d.v[2] \in LineSet(q.dns)
          /\ d.k = "push" /\ d.v[1] = "route" => d.v[2] \in LineSet(q.routes)
    BY <1>6, <2>1, <2>2 DEF ReadPushes
  <2>5. \A d \in LineSet(c) : d.k = "remote" => RemoteOf(d.v) \in LineSet(q.remotes)
    BY <1>6, <2>1, <2>2 DEF ReadRemotes
  <2>6. LineSet(q.plugins) \subseteq LineSet(c)
    BY <2>1, <2>2 DEF ReadPlugins
  <2>7. \A x \in LineSet(q.remotes) : \E d \in LineSet(c) : d.k = "remote" /\ x = RemoteOf(d.v)
    BY <1>6, <2>1, <2>2 DEF ReadRemotes
  <2>. QED
    BY <2>3, <2>4, <2>5, <2>6, <2>7 DEF AsksLists
<1>18. AsksExtra(c, q, r.fold)
  <2>1. ReadExtra(c, n, r) /\ ReadPushes(c, n, r) /\ ReadWords(c, n, r)
    BY <1>1 DEF ReadSo
  <2>2. LineSet(p.extra) = LineSet(r.pushed) \cup LineSet(r.extra) /\ ASeq(p.extra)
    BY <1>4, <1>5, SetJoined
  <2>3. m.fold = r.fold
    BY <1>5, <1>14 DEF SameBesides
  <2>4. LineSet(q.extra) = LineSet(m.extra) \cup FoldedLines(r.fold)
    BY <1>12, <1>13, <2>3, FoldedArgsLines, SetJoined
  <2>5. \A d \in LineSet(c) : IsRest(d.k) \/ KeptPush(d) => d \in LineSet(q.extra)
    <3>1. \A d \in LineSet(c) : IsRest(d.k) => d \in LineSet(r.extra)
      BY <1>6, <2>1 DEF ReadExtra
    <3>2. \A d \in LineSet(c) : KeptPush(d) => d \in LineSet(r.pushed)
      BY <1>6, <2>1 DEF ReadPushes, KeptPush
    <3>. QED
      BY <1>14, <2>2, <2>4, <3>1, <3>2 DEF FiledExtra
  <2>6. \A d \in LineSet(c) : d.k = "<>" /\ d.v[1] \in LineTags => BlockLine(d) \in LineSet(q.extra)
    <3>. SUFFICES ASSUME NEW d \in LineSet(c), d.k = "<>", d.v[1] \in LineTags
                  PROVE  BlockLine(d) \in LineSet(m.extra)
      BY <2>4
    <3>1. PICK l \in 1..w : b[l] = d
      BY <1>8, <1>15
    <3>. QED
      BY <1>14, <3>1 DEF FiledExtra
  <2>7. ASSUME NEW j, Latest(c, n, j), IsRest(c[j].k)
        PROVE  Value(q.extra, c[j].k) = c[j].v
    <3>. DEFINE k == c[j].k
    <3>1. j \in 1..n /\ c[j] \in LineSet(c)
      BY <1>6, <2>7 DEF Latest
    <3>2. Value(r.extra, k) = c[j].v /\ c[j] \in LineSet(r.extra)
      BY <2>1, <2>7, <3>1 DEF ReadExtra
    <3>3. k \in Keywords(r.extra)
      BY <3>2 DEF LineSet, Keywords
    <3>4. Value(p.extra, k) = c[j].v
      BY <1>4, <1>5, <3>2, <3>3, ValueOfLater
    <3>5. \A l \in 1..w : b[l].v[1] # k
      <4>. SUFFICES ASSUME NEW l \in 1..w, b[l].v[1] = k PROVE FALSE
        OBVIOUS
      <4>1. b[l] \in LineSet(c) /\ b[l].k = "<>"
        BY <1>8, <1>15
      <4>2. k = "tls-auth"
        BY <1>6, <3>1, <4>1 DEF PlainPair
      <4>3. ~IsRest("tls-auth")
        BY DEF IsRest, WordKeys, Columns
      <4>. QED
        BY <2>7, <4>2, <4>3
    <3>6. Value(m.extra, k) = c[j].v
      BY <1>14, <3>4, <3>5 DEF FiledExtra
    <3>7. k \notin Folded
      BY <2>7 DEF IsRest, WordKeys
    <3>8. ASeq(FoldedArgs(m.fold)) /\ k \notin Keywords(FoldedArgs(m.fold))
      BY <3>7, FoldedArgsFacts
    <3>. QED
      BY <1>12, <1>13, <3>6, <3>8, ValueOfEarlier
  <2>8. ASSUME NEW j, Latest(c, n, j), c[j].k \in Folded
        PROVE  r.fold[c[j].k] = c[j].v[1]
    BY <2>1, <2>8 DEF ReadWords
  <2>9. FoldedLines(r.fold) \subseteq LineSet(q.extra)
    BY <2>4
  <2>10. ASSUME NEW d \in LineSet(q.extra)
         PROVE  \/ d \in LineSet(c) /\ OwnRest(d)
                \/ \E e \in LineSet(c) : e.k = "<>" /\ e.v[1] \in LineTags /\ d = BlockLine(e)
                \/ d \in FoldedLines(r.fold)
    <3>1. CASE d \in LineSet(r.pushed)
      BY <2>1, <3>1 DEF ReadPushes, OwnRest
    <3>2. CASE d \in LineSet(r.extra)
      BY <2>1, <3>2 DEF ReadExtra, OwnRest
    <3>3. CASE \E l \in 1..w : b[l].v[1] \in LineTags /\ d = BlockLine(b[l])
      BY <1>8, <1>15, <3>3
    <3>4. CASE d \in FoldedLines(r.fold)
      BY <3>4
    <3>. QED
      BY <1>14, <2>2, <2>4, <3>1, <3>2, <3>3, <3>4 DEF FiledExtra
  <2>. QED
    BY <2>5, <2>6, <2>7, <2>8, <2>9, <2>10 DEF AsksExtra, n
<1>19. AsksColumns(c, q)
  <2>1. ReadWords(c, n, r) /\ ReadDh(c, n, r) /\ ReadDev(c, n, r)
    BY <1>1 DEF ReadSo
  <2>2. \A l \in 1..w : b[l] \in LineSet(c) /\ b[l].k = "<>" /\ b[l].v[1] \in InlineTags
    BY <1>8, <1>9, <1>15 DEF PlainBlocks, w
  <2>3. \A k \in Columns :
          (\A l \in 1..w : b[l].v[1] # k /\ (k = "tls-auth" => b[l].v[1] # "secret"))
          => q.col[k] = r.col[k]
    BY <1>5, <1>13, <1>14 DEF FiledColumns
  <2>4. ASSUME NEW j, Latest(c, n, j), OwnColumn(c, c[j].k),
               c[j].k = "tls-auth" => Len(c[j].v) = 1
        PROVE  q.col[c[j].k] = c[j].v[1]
    <3>. DEFINE k == c[j].k
    <3>1. j \in 1..n /\ c[j] \in LineSet(c)
      BY <1>6, <2>4 DEF Latest
    <3>2. ASSUME NEW l \in 1..w PROVE b[l].v[1] # k /\ (k = "tls-auth" => b[l].v[1] # "secret")
      <4>1. b[l].v[1] # k
        <5>1. PlainPair(b[l], c[j]) /\ b[l].k = "<>"
          BY <1>6, <2>2, <3>1
        <5>. DEFINE e == c[j]
        <5>2. b[l].v[1] = e.k => e.k = "tls-auth" /\ Len(e.v) > 1
          BY <5>1 DEF PlainPair
        <5>3. e.k = "tls-auth" => Len(e.v) = 1
          BY <2>4
        <5>0. Len(e.v) \in Nat
          BY <1>6, <3>1, Joined DEF IsDirective
        <5>. HIDE DEF e
        <5>4. b[l].v[1] # e.k
          <6>0. \A x \in Nat : x = 1 => ~(x > 1)
            OBVIOUS
          <6>1. ~(Len(e.v) = 1 /\ Len(e.v) > 1)
            BY <5>0, <6>0
          <6>2. SUFFICES ASSUME b[l].v[1] = e.k PROVE FALSE
            OBVIOUS
          <6>3. e.k = "tls-auth" /\ Len(e.v) > 1
            BY <5>2, <6>2
          <6>. QED
            BY <5>3, <6>1, <6>3
        <5>. QED
          BY <5>4 DEF e
      <4>2. k = "tls-auth" => ~Named(c, "secret")
        BY <2>4 DEF OwnColumn
      <4>. QED
        BY <1>6, <2>2, <4>1, <4>2 DEF Names
    <3>3. k \in Columns
      BY <2>4 DEF OwnColumn
    <3>. QED
      BY <2>1, <2>3, <2>4, <3>2, <3>3 DEF ReadWords
  <2>5. ASSUME NEW j, Latest(c, n, j), c[j].k = "secret"
        PROVE  q.col["tls-auth"] = c[j].v[1]
    <3>1. j \in 1..n /\ c[j] \in LineSet(c)
      BY <1>6, <2>5 DEF Latest
    <3>2. Named(c, "secret")
      BY <1>6, <2>5, <3>1 DEF Names
    <3>3. ~Named(c, "tls-auth")
      BY <3>2 DEF Plain
    <3>4. r.col["tls-auth"] = c[j].v[1]
      BY <2>1, <2>5, <3>3 DEF ReadWords
    <3>5. ASSUME NEW l \in 1..w PROVE b[l].v[1] # "tls-auth" /\ b[l].v[1] # "secret"
      <4>1. b[l].v[1] # "tls-auth"
        BY <1>6, <2>2, <3>3 DEF Names
      <4>2. b[l].v[1] # "secret"
        BY <1>6, <2>2, <2>5, <3>1 DEF PlainPair
      <4>. QED
        BY <4>1, <4>2
    <3>. QED
      BY <2>3, <3>4, <3>5 DEF Columns
  <2>6. ASSUME NEW j, Latest(c, n, j), c[j].k = "server"
        PROVE  q.network = c[j].v[1]
    BY <1>5, <1>13, <1>14, <2>1, <2>6 DEF ReadWords, SameBesides
  <2>7. ASSUME NEW j, Latest(c, n, j), c[j].k = "dh"
        PROVE  q.col["dh"] = IF c[j].v[1] = "none" THEN Unset ELSE c[j].v[1]
    <3>1. j \in 1..n /\ c[j] \in LineSet(c)
      BY <1>6, <2>7 DEF Latest
    <3>2. \A l \in 1..w : b[l].v[1] # "dh"
      BY <1>6, <2>2, <2>7, <3>1 DEF PlainPair
    <3>3. q.col["dh"] = r.col["dh"]
      BY <2>3, <3>2 DEF Columns
    <3>4. CASE c[j].v[1] # "none"
      BY <2>1, <2>7, <3>3, <3>4 DEF ReadDh
    <3>5. CASE c[j].v[1] = "none"
      <4>1. \A i \in 1..n : c[i].k = "dh" => c[i].v[1] = "none"
        BY <1>6, <2>7, <3>1, <3>5 DEF PlainPair
      <4>. QED
        BY <2>1, <3>3, <3>5, <4>1 DEF ReadDh
    <3>. QED
      BY <3>4, <3>5
  <2>8. ASSUME NEW d \in LineSet(c), d.k = "<>"
        PROVE  /\ d.v[1] \in ColumnTags => q.col[d.v[1]] = d.v[2]
               /\ d.v[1] = "secret" => q.col["tls-auth"] = d.v[2]
    <3>1. PICK l \in 1..w : b[l] = d
      BY <1>8, <1>15, <2>8
    <3>. QED
      BY <1>13, <1>14, <3>1 DEF FiledColumns
  <2>9. q.col["device"] = r.col["device"] /\ q.col["dev-type"] = r.col["dev-type"]
    <3>1. "device" \notin InlineTags /\ "dev-type" \notin InlineTags
      BY DEF InlineTags
    <3>. QED
      BY <2>2, <2>3, <3>1 DEF Columns
  <2>10. ASSUME NEW d \in LineSet(c), d.k = "dev"
         PROVE  IF d.v[1] \in DevTypes THEN q.col["dev-type"] = d.v[1] /\ q.col["device"] = Unset
                ELSE q.col["device"] = d.v[1]
    <3>1. PICK j \in 1..n : c[j] = d
      BY <1>6
    <3>2. \A i \in 1..n : c[i].k = "dev" => c[i].v = d.v
      BY <1>6, <2>10 DEF PlainPair
    <3>. QED
      BY <2>1, <2>9, <2>10, <3>1, <3>2 DEF ReadDev
  <2>. QED
    BY <2>1, <2>4, <2>5, <2>6, <2>7, <2>8, <2>9, <2>10 DEF AsksColumns, ReadDev, n
<1>20. \E fold : AsksExtra(c, q, fold)
  BY <1>18
<1>. QED
  BY <1>2, <1>16, <1>17, <1>19, <1>20 DEF q

------------------------------------------------------------------------------
(* The row                                                                   *)

(* Certificates of the daemon's own take the place of those of the request.  *)
Issues(q) ==
    q.role = "server" /\ ~q.static /\ q.col["cert"] = Unset /\ q.col["key"] = Unset
OwnCertificate == {"ca", "cert", "key"}

(* What of a request Prepare leaves as it is.                                *)
RowAs(q, i) ==
    /\ i.role = q.role /\ i.static = q.static /\ i.remotes = q.remotes /\ i.routes = q.routes
    /\ i.dns = q.dns /\ i.plugins = q.plugins /\ i.extra = q.extra
    /\ i.features = <<>> /\ i.typed = NoResult.fold
    /\ i.role = "server" => i.network = Or(q.network, "net-auto")
    /\ \A k \in {"device", "local", "cipher", "dh", "tls-auth"} : i.col[k] = q.col[k]
    /\ i.col["dev-type"] = Or(q.col["dev-type"], "tun")
    /\ \A k \in Columns : q.col[k] # Unset =>
          i.col[k] = q.col[k] \/ (k \in OwnCertificate /\ Issues(q))
    /\ i.role = "server" /\ ~i.static => i.col["cert"] # Unset \/ i.col["key"] # Unset

(* The row of an accepted request, part by part.                             *)
LEMMA PreparedAs ==
    ASSUME NEW q, ResultShape(q), ~Rejected(q)
    PROVE  RowAs(q, Prepared(q))
<1>. DEFINE i == Prepared(q)
            server == q.role = "server"
            pki == server /\ ~q.static
            col == [q.col EXCEPT
                      !["proto"] = Or(@, "udp"), !["dev-type"] = Or(@, "tun"),
                      !["topology"] = IF server THEN Or(@, "subnet") ELSE @,
                      !["port"] = IF server THEN Or(@, "1194") ELSE @,
                      !["data-ciphers"] =
                          IF pki /\ q.col["cipher"] = Unset THEN Or(@, "GCM") ELSE @,
                      !["auth"] = IF pki THEN Or(@, "SHA256") ELSE @]
            issue == pki /\ col["cert"] = Unset /\ col["key"] = Unset
            own == [col EXCEPT !["ca"] = "ourCA", !["cert"] = "ourCert", !["key"] = "ourKey",
                               !["tls-crypt"] = Or(@, "ourTC")]
<1>1. /\ i.role = q.role /\ i.static = q.static /\ i.remotes = q.remotes /\ i.routes = q.routes
      /\ i.dns = q.dns /\ i.plugins = q.plugins /\ i.extra = q.extra
      /\ i.features = <<>> /\ i.typed = NoResult.fold
      /\ server => i.network = Or(q.network, "net-auto")
  BY DEF Prepared
<1>2. i.col = IF issue THEN own ELSE col
  <2>1. i = [role |-> q.role, static |-> q.static, remotes |-> q.remotes,
             network |-> IF server THEN Or(q.network, "net-auto") ELSE Unset,
             routes |-> q.routes, dns |-> q.dns, domain |-> q.domain, redirect |-> q.redirect,
             plugins |-> q.plugins, typed |-> NoResult.fold, features |-> <<>>, extra |-> q.extra,
             col |-> IF issue THEN own ELSE col]
    BY Zenon DEF Prepared
  <2>. HIDE DEF i, issue, own, col, server
  <2>. QED
    BY <2>1
<1>3. DOMAIN q.col = Columns
  BY DEF ResultShape
<1>4. {"device", "local", "cipher", "dh", "tls-auth", "dev-type", "proto", "topology", "port",
       "data-ciphers", "auth", "ca", "cert", "key", "tls-crypt"} \subseteq Columns
  BY DEF Columns
<1>. HIDE DEF i, server, pki
<1>5. /\ DOMAIN col = Columns
      /\ \A k \in Columns : k \notin {"proto", "dev-type", "topology", "port", "data-ciphers", "auth"}
            => col[k] = q.col[k]
      /\ col["dev-type"] = Or(q.col["dev-type"], "tun")
      /\ \A k \in Columns : q.col[k] # Unset => col[k] = q.col[k]
  <2>. HIDE DEF Columns
  <2>. QED
    BY <1>3, <1>4 DEF Or
<1>. HIDE DEF col
<1>6. /\ \A k \in Columns \ {"ca", "cert", "key", "tls-crypt"} : own[k] = col[k]
      /\ own["cert"] = "ourCert"
      /\ own["tls-crypt"] = Or(col["tls-crypt"], "ourTC")
  <2>. HIDE DEF Columns
  <2>. QED
    BY <1>4, <1>5
<1>. HIDE DEF own
<1>7. issue <=> Issues(q)
  BY <1>4, <1>5 DEF Issues, pki, server
<1>. HIDE DEF issue
<1>8. \A k \in {"device", "local", "cipher", "dh", "tls-auth"} : i.col[k] = q.col[k]
  BY <1>2, <1>4, <1>5, <1>6
<1>9. i.col["dev-type"] = Or(q.col["dev-type"], "tun")
  BY <1>2, <1>4, <1>5, <1>6
<1>10. ASSUME NEW k \in Columns, q.col[k] # Unset
       PROVE  i.col[k] = q.col[k] \/ (k \in OwnCertificate /\ Issues(q))
  <2>1. col[k] = q.col[k]
    BY <1>5, <1>10
  <2>2. CASE ~issue
    BY <1>2, <2>1, <2>2
  <2>3. CASE issue /\ k \notin OwnCertificate
    <3>1. own[k] = col[k]
      BY <1>6, <1>10, <2>1, <2>3 DEF OwnCertificate, Or
    <3>. QED
      BY <1>2, <2>1, <2>3, <3>1
  <2>. QED
    BY <1>7, <2>2, <2>3
<1>11. pki => i.col["cert"] # Unset \/ i.col["key"] # Unset
  <2>1. CASE issue
    BY <1>2, <1>6, <2>1, ConfAssumption
  <2>2. CASE ~issue
    BY <1>2, <2>2 DEF issue
  <2>. QED
    BY <2>1, <2>2
<1>. QED
  BY <1>1, <1>8, <1>9, <1>10, <1>11 DEF RowAs, i, server, pki

(* Which of the two a plain configuration becomes, and that it says how.     *)
RoleSo(c, q) ==
    /\ q.role \in {"server", "client"}
    /\ q.role = "client" <=> Named(c, "remote")
    /\ q.role = "client" => q.network = Unset
    /\ q.role = "client" => ~Named(c, "dh") /\ \A d \in LineSet(c) : ~Pushed(d)
    /\ q.role = "server" => (~Named(c, "port") \/ ~Named(c, "lport"))
                            /\ (Named(c, "ca") => Named(c, "cert") \/ Named(c, "key"))

LEMMA RoleOf ==
    ASSUME NEW c, AllDirectives(c), Plain(c), ~Rejected(Imported(c))
    PROVE  RoleSo(c, Imported(c))
<1>. DEFINE q == Imported(c)
<1>1. ResultShape(q) /\ AsksLists(c, q)
  BY Asked
<1>2. /\ q.role \in {"server", "client"}
      /\ q.role = "server" => q.remotes = <<>>
      /\ q.role = "client" => q.remotes # <<>> /\ q.network = Unset
  BY <1>1 DEF ResultShape, Roles, Rejected
<1>. HIDE DEF q
<1>3. /\ \A d \in LineSet(c) : PlainLine(d)
      /\ \A k : Named(c, k) <=> \E d \in LineSet(c) : Names(d, k)
  BY PlainLines
<1>4. Named(c, "remote") <=> \E d \in LineSet(c) : d.k = "remote"
  <2>1. "remote" \notin InlineTags
    BY DEF InlineTags
  <2>. QED
    BY <1>3, <2>1 DEF Names, PlainLine
<1>5. q.remotes = <<>> => LineSet(q.remotes) = {}
  BY SetOfNone
<1>6. LineSet(q.remotes) = {} => q.remotes = <<>>
  <2>. DEFINE s == q.remotes
  <2>1. PICK S : s \in Seq(S)
    BY <1>1 DEF ResultShape, ASeq
  <2>2. ASSUME s # <<>> PROVE s[1] \in LineSet(s)
    <3>1. 1 \in DOMAIN s
      BY <2>1, <2>2
    <3>. QED
      BY <3>1 DEF LineSet
  <2>. QED
    BY <2>2
<1>7. LineSet(q.remotes) # {} <=> Named(c, "remote")
  BY <1>1, <1>4 DEF AsksLists
<1>8. q.role = "client" <=> Named(c, "remote")
  BY <1>2, <1>5, <1>6, <1>7
<1>9. \/ /\ Named(c, "remote") /\ ~Named(c, "dh")
         /\ \A d \in LineSet(c) : ~Pushed(d)
      \/ /\ ~Named(c, "remote") /\ (~Named(c, "port") \/ ~Named(c, "lport"))
         /\ Named(c, "ca") => Named(c, "cert") \/ Named(c, "key")
  BY DEF Plain, LineSet
<1>. QED
  BY <1>2, <1>8, <1>9 DEF q, RoleSo

------------------------------------------------------------------------------
(* The lines of a rendered file                                              *)

(* A sequence and the set of its lines.                                      *)
Holds(s, S) == ASeq(s) /\ LineSet(s) = S

LEMMA HoldsJoined ==
    ASSUME NEW s, NEW t, NEW S, NEW T, Holds(s, S), Holds(t, T)
    PROVE  Holds(s \o t, S \cup T)
BY SetJoined DEF Holds

LEMMA HoldsArg ==
    ASSUME NEW k, NEW v
    PROVE  Holds(Arg(k, v), OneArg(k, v)) /\ Holds(Flag(k), {D(k, <<>>)})
<1>1. Flag(k) = <<D(k, <<>>)>>
  BY DEF Flag
<1>. QED
  BY <1>1, SetOfArg, SetOfOne DEF Holds

LEMMA HoldsEach ==
    ASSUME NEW s, ASeq(s), NEW f, f = [j \in DOMAIN s |-> f[j]]
    PROVE  Holds(f, {f[j] : j \in DOMAIN s})
BY FunctionIsSeq DEF Holds, LineSet

LEMMA HoldsNone == Holds(<<>>, {})
BY SetOfNone DEF Holds

DevLines(i) ==
    IF i.col["device"] # Unset
    THEN OneArg("dev", i.col["device"]) \cup OneArg("dev-type", Or(i.col["dev-type"], "tun"))
    ELSE OneArg("dev", Or(i.col["dev-type"], "tun"))
Multihomed(i) == i.role = "server" /\ Or(i.col["proto"], "udp") \in {"udp", "udp4", "udp6"}
LocalLines(i) ==
    IF i.col["local"] # Unset THEN OneArg("local", i.col["local"])
    ELSE IF Multihomed(i) THEN {D("multihome", <<>>)} ELSE {}
HeadLines(i) ==
    ((LineSet(i.plugins) \cup DevLines(i)) \cup OneArg("proto", Or(i.col["proto"], "udp")))
    \cup LocalLines(i)

LEMMA HeadHolds ==
    ASSUME NEW i, RowParts(i)
    PROVE  Holds(RenderHead(i), HeadLines(i))
<1>. DEFINE dev == IF i.col["device"] # Unset
                   THEN Arg("dev", i.col["device"]) \o Arg("dev-type", Or(i.col["dev-type"], "tun"))
                   ELSE Arg("dev", Or(i.col["dev-type"], "tun"))
            proto == Arg("proto", Or(i.col["proto"], "udp"))
            local == IF i.col["local"] # Unset THEN Arg("local", i.col["local"])
                     ELSE IF i.role = "server" /\ Or(i.col["proto"], "udp") \in {"udp", "udp4", "udp6"}
                     THEN Flag("multihome") ELSE <<>>
<1>1. Holds(i.plugins, LineSet(i.plugins))
  BY DEF RowParts, Holds
<1>2. Holds(dev, DevLines(i))
  <2>1. CASE i.col["device"] # Unset
    BY <2>1, HoldsArg, HoldsJoined DEF DevLines
  <2>2. CASE i.col["device"] = Unset
    BY <2>2, HoldsArg DEF DevLines
  <2>. QED
    BY <2>1, <2>2
<1>3. Holds(proto, OneArg("proto", Or(i.col["proto"], "udp")))
  BY HoldsArg
<1>4. Holds(local, LocalLines(i))
  BY HoldsArg, HoldsNone DEF LocalLines, Multihomed
<1>5. RenderHead(i) = ((i.plugins \o dev) \o proto) \o local
  BY DEF RenderHead
<1>. HIDE DEF dev, proto, local
<1>6. Holds((i.plugins \o dev) \o proto,
            (LineSet(i.plugins) \cup DevLines(i)) \cup OneArg("proto", Or(i.col["proto"], "udp")))
  BY <1>1, <1>2, <1>3, HoldsJoined
<1>. QED
  BY <1>4, <1>5, <1>6, HoldsJoined DEF HeadLines

PushLines(i) ==
    (({D("push", <<"route", i.routes[j]>>) : j \in DOMAIN i.routes}
      \cup {D("push", <<"DNS", i.dns[j]>>) : j \in DOMAIN i.dns})
     \cup (IF i.domain = Unset THEN {} ELSE {D("push", <<"DOMAIN", i.domain>>)}))
    \cup (IF i.redirect THEN {D("push", <<"redirect-gateway", "def1">>)} ELSE {})
ListenLines(i) ==
    ((((((OneArg("port", Or(i.col["port"], "1194")) \cup OneArg("mode", "server"))
         \cup {D("tls-server", <<>>)}) \cup OneArg("server", i.network))
       \cup OneArg("topology", Or(i.col["topology"], "subnet")))
      \cup OneArg("client-config-dir", "ours")) \cup {D("ccd-exclusive", <<>>)})
ServerLines(i) == (ListenLines(i) \cup PushLines(i)) \cup {D("duplicate-cn", <<>>)}

LEMMA ServerHolds ==
    ASSUME NEW i, RowParts(i)
    PROVE  Holds(RenderServer(i), ServerLines(i))
<1>. DEFINE port == Arg("port", Or(i.col["port"], "1194"))
            mode == Arg("mode", "server")
            tls == Flag("tls-server")
            server == Arg("server", i.network)
            topology == Arg("topology", Or(i.col["topology"], "subnet"))
            ccd == Arg("client-config-dir", "ours")
            exclusive == Flag("ccd-exclusive")
            routes == Each(i.routes, LAMBDA n : D("push", <<"route", n>>))
            dns == Each(i.dns, LAMBDA a : D("push", <<"DNS", a>>))
            domain == IF i.domain = Unset THEN <<>> ELSE <<D("push", <<"DOMAIN", i.domain>>)>>
            redirect == IF i.redirect THEN <<D("push", <<"redirect-gateway", "def1">>)>> ELSE <<>>
            duplicate == Flag("duplicate-cn")
            Routes == {D("push", <<"route", i.routes[j]>>) : j \in DOMAIN i.routes}
            Dns == {D("push", <<"DNS", i.dns[j]>>) : j \in DOMAIN i.dns}
            Domain == IF i.domain = Unset THEN {} ELSE {D("push", <<"DOMAIN", i.domain>>)}
            Redirect == IF i.redirect THEN {D("push", <<"redirect-gateway", "def1">>)} ELSE {}
<1>1. /\ Holds(port, OneArg("port", Or(i.col["port"], "1194")))
      /\ Holds(mode, OneArg("mode", "server")) /\ Holds(tls, {D("tls-server", <<>>)})
      /\ Holds(server, OneArg("server", i.network))
      /\ Holds(topology, OneArg("topology", Or(i.col["topology"], "subnet")))
      /\ Holds(ccd, OneArg("client-config-dir", "ours"))
      /\ Holds(exclusive, {D("ccd-exclusive", <<>>)})
      /\ Holds(duplicate, {D("duplicate-cn", <<>>)})
  BY HoldsArg
<1>2. Holds(routes, Routes)
  <2>1. routes = [j \in DOMAIN i.routes |-> D("push", <<"route", i.routes[j]>>)]
    BY DEF Each
  <2>. HIDE DEF routes
  <2>2. /\ ASeq(i.routes) /\ routes = [j \in DOMAIN i.routes |-> routes[j]]
        /\ {routes[j] : j \in DOMAIN i.routes} = Routes
    BY <2>1 DEF RowParts
  <2>. HIDE DEF Routes
  <2>3. Holds(routes, {routes[j] : j \in DOMAIN i.routes})
    BY <2>2, HoldsEach
  <2>. QED
    BY <2>2, <2>3
<1>3. Holds(dns, Dns)
  <2>1. dns = [j \in DOMAIN i.dns |-> D("push", <<"DNS", i.dns[j]>>)]
    BY DEF Each
  <2>. HIDE DEF dns
  <2>2. /\ ASeq(i.dns) /\ dns = [j \in DOMAIN i.dns |-> dns[j]]
        /\ {dns[j] : j \in DOMAIN i.dns} = Dns
    BY <2>1 DEF RowParts
  <2>. HIDE DEF Dns
  <2>3. Holds(dns, {dns[j] : j \in DOMAIN i.dns})
    BY <2>2, HoldsEach
  <2>. QED
    BY <2>2, <2>3
<1>4. Holds(domain, Domain) /\ Holds(redirect, Redirect)
  BY HoldsNone, SetOfOne DEF Holds
<1>5. RenderServer(i) =
        ((((((((((port \o mode) \o tls) \o server) \o topology) \o ccd) \o exclusive)
            \o routes) \o dns) \o domain) \o redirect) \o duplicate
  BY DEF RenderServer
<1>. DEFINE s7 == (((((port \o mode) \o tls) \o server) \o topology) \o ccd) \o exclusive
<1>6. Holds(s7, ListenLines(i))
  <2>. DEFINE s3 == (port \o mode) \o tls
              S3 == (OneArg("port", Or(i.col["port"], "1194")) \cup OneArg("mode", "server"))
                    \cup {D("tls-server", <<>>)}
              s5 == (s3 \o server) \o topology
              S5 == (S3 \cup OneArg("server", i.network))
                    \cup OneArg("topology", Or(i.col["topology"], "subnet"))
  <2>. HIDE DEF port, mode, tls, server, topology, ccd, exclusive
  <2>1. Holds(s3, S3)
    BY <1>1, HoldsJoined
  <2>. HIDE DEF s3, S3
  <2>2. Holds(s5, S5)
    BY <1>1, <2>1, HoldsJoined
  <2>. HIDE DEF s5, S5
  <2>3. Holds((s5 \o ccd) \o exclusive,
              (S5 \cup OneArg("client-config-dir", "ours")) \cup {D("ccd-exclusive", <<>>)})
    BY <1>1, <2>2, HoldsJoined
  <2>. QED
    BY <2>3 DEF s3, S3, s5, S5, ListenLines
<1>7. PushLines(i) = ((Routes \cup Dns) \cup Domain) \cup Redirect
  BY DEF PushLines
<1>. HIDE DEF s7, Routes, Dns, Domain, Redirect, routes, dns, domain, redirect, duplicate
<1>8. Holds((s7 \o routes) \o dns, (ListenLines(i) \cup Routes) \cup Dns)
  BY <1>2, <1>3, <1>6, HoldsJoined
<1>9. Holds((((s7 \o routes) \o dns) \o domain) \o redirect,
            (((ListenLines(i) \cup Routes) \cup Dns) \cup Domain) \cup Redirect)
  BY <1>4, <1>8, HoldsJoined
<1>10. Holds(((((s7 \o routes) \o dns) \o domain) \o redirect) \o duplicate,
             ((((ListenLines(i) \cup Routes) \cup Dns) \cup Domain) \cup Redirect)
             \cup {D("duplicate-cn", <<>>)})
  BY <1>1, <1>9, HoldsJoined
<1>11. ServerLines(i) = ((((ListenLines(i) \cup Routes) \cup Dns) \cup Domain) \cup Redirect)
                        \cup {D("duplicate-cn", <<>>)}
  BY <1>7 DEF ServerLines
<1>12. RenderServer(i) = ((((s7 \o routes) \o dns) \o domain) \o redirect) \o duplicate
  BY <1>5 DEF s7
<1>. QED
  BY <1>10, <1>11, <1>12

RemoteLine(r) ==
    D("remote", IF r.proto = Unset THEN <<r.host, r.port>> ELSE <<r.host, r.port, r.proto>>)
RemoteLines(i) == {RemoteLine(i.remotes[j]) : j \in DOMAIN i.remotes}
ConnectLines ==
    ((({D("client", <<>>)} \cup {D("tls-client", <<>>)}) \cup {D("nobind", <<>>)})
     \cup OneArg("remote-cert-tls", "server")) \cup OneArg("resolv-retry", "infinite")
ClientLines(i) == ConnectLines \cup RemoteLines(i)

LEMMA ClientHolds ==
    ASSUME NEW i, RowParts(i)
    PROVE  Holds(RenderClient(i), ClientLines(i))
<1>. DEFINE a == Flag("client") b == Flag("tls-client") c == Flag("nobind")
            d == Arg("remote-cert-tls", "server") e == Arg("resolv-retry", "infinite")
            remotes == Each(i.remotes, LAMBDA r :
                D("remote", IF r.proto = Unset THEN <<r.host, r.port>>
                            ELSE <<r.host, r.port, r.proto>>))
<1>1. RenderClient(i) = ((((a \o b) \o c) \o d) \o e) \o remotes
  BY DEF RenderClient
<1>2. Holds(remotes, RemoteLines(i))
  <2>1. remotes = [j \in DOMAIN i.remotes |-> RemoteLine(i.remotes[j])]
    BY DEF Each, RemoteLine
  <2>. HIDE DEF remotes
  <2>2. /\ ASeq(i.remotes) /\ remotes = [j \in DOMAIN i.remotes |-> remotes[j]]
        /\ {remotes[j] : j \in DOMAIN i.remotes} = RemoteLines(i)
    BY <2>1 DEF RowParts, RemoteLines
  <2>. QED
    BY <2>2, HoldsEach
<1>3. /\ Holds(a, {D("client", <<>>)}) /\ Holds(b, {D("tls-client", <<>>)})
      /\ Holds(c, {D("nobind", <<>>)}) /\ Holds(d, OneArg("remote-cert-tls", "server"))
      /\ Holds(e, OneArg("resolv-retry", "infinite"))
  BY HoldsArg
<1>. HIDE DEF a, b, c, d, e, remotes
<1>4. Holds((a \o b) \o c, ({D("client", <<>>)} \cup {D("tls-client", <<>>)}) \cup {D("nobind", <<>>)})
  BY <1>3, HoldsJoined
<1>5. Holds((((a \o b) \o c) \o d) \o e, ConnectLines)
  BY <1>3, <1>4, HoldsJoined DEF ConnectLines
<1>. QED
  BY <1>1, <1>2, <1>5, HoldsJoined DEF ClientLines

CertLines(i) ==
    (OneArg("ca", i.col["ca"]) \cup OneArg("cert", i.col["cert"])) \cup OneArg("key", i.col["key"])
DhLines(i) == IF i.role = "server" THEN OneArg("dh", Or(i.col["dh"], "none")) ELSE {}
CryptoLines(i) ==
    IF i.static THEN OneArg("secret", i.col["tls-auth"])
    ELSE ((CertLines(i) \cup DhLines(i)) \cup OneArg("tls-crypt", i.col["tls-crypt"]))
         \cup OneArg("tls-auth", i.col["tls-auth"])

LEMMA CryptoHolds ==
    ASSUME NEW i
    PROVE  Holds(RenderCrypto(i), CryptoLines(i))
<1>1. CASE i.static
  BY <1>1, HoldsArg DEF RenderCrypto, CryptoLines
<1>2. CASE ~i.static
  <2>. DEFINE a == Arg("ca", i.col["ca"]) b == Arg("cert", i.col["cert"])
              c == Arg("key", i.col["key"])
              d == IF i.role = "server" THEN Arg("dh", Or(i.col["dh"], "none")) ELSE <<>>
              e == Arg("tls-crypt", i.col["tls-crypt"]) f == Arg("tls-auth", i.col["tls-auth"])
  <2>1. RenderCrypto(i) = ((((a \o b) \o c) \o d) \o e) \o f
    BY <1>2 DEF RenderCrypto
  <2>2. /\ Holds(a, OneArg("ca", i.col["ca"])) /\ Holds(b, OneArg("cert", i.col["cert"]))
        /\ Holds(c, OneArg("key", i.col["key"]))
        /\ Holds(e, OneArg("tls-crypt", i.col["tls-crypt"]))
        /\ Holds(f, OneArg("tls-auth", i.col["tls-auth"]))
    BY HoldsArg
  <2>3. Holds(d, DhLines(i))
    BY HoldsArg, HoldsNone DEF DhLines
  <2>. HIDE DEF a, b, c, d, e, f
  <2>4. Holds((a \o b) \o c, CertLines(i))
    BY <2>2, HoldsJoined DEF CertLines
  <2>5. Holds((((a \o b) \o c) \o d) \o e,
              (CertLines(i) \cup DhLines(i)) \cup OneArg("tls-crypt", i.col["tls-crypt"]))
    BY <2>2, <2>3, <2>4, HoldsJoined
  <2>6. Holds(((((a \o b) \o c) \o d) \o e) \o f, CryptoLines(i))
    BY <1>2, <2>2, <2>5, HoldsJoined DEF CryptoLines
  <2>. QED
    BY <2>1, <2>6
<1>. QED
  BY <1>1, <1>2

CipherLines(i) ==
    (OneArg("cipher", i.col["cipher"]) \cup OneArg("data-ciphers", i.col["data-ciphers"]))
    \cup OneArg("auth", i.col["auth"])

LEMMA CiphersHold ==
    ASSUME NEW i
    PROVE  Holds(RenderCiphers(i), CipherLines(i))
<1>. DEFINE a == Arg("cipher", i.col["cipher"]) b == Arg("data-ciphers", i.col["data-ciphers"])
            c == Arg("auth", i.col["auth"])
<1>1. RenderCiphers(i) = (a \o b) \o c
  BY DEF RenderCiphers
<1>2. /\ Holds(a, OneArg("cipher", i.col["cipher"]))
      /\ Holds(b, OneArg("data-ciphers", i.col["data-ciphers"]))
      /\ Holds(c, OneArg("auth", i.col["auth"]))
  BY HoldsArg
<1>. HIDE DEF a, b, c
<1>3. Holds(a \o b, OneArg("cipher", i.col["cipher"])
                    \cup OneArg("data-ciphers", i.col["data-ciphers"]))
  BY <1>2, HoldsJoined
<1>. QED
  BY <1>1, <1>2, <1>3, HoldsJoined DEF CipherLines

OwnedLines ==
    (((((((OneArg("keepalive", "10 60") \cup {D("persist-key", <<>>)}) \cup {D("persist-tun", <<>>)})
         \cup OneArg("tmp-dir", "ours")) \cup OneArg("writepid", "ours"))
       \cup OneArg("status", "ours")) \cup OneArg("management", "ours"))
     \cup OneArg("management-client-user", "root")) \cup OneArg("verb", "2")

LEMMA OwnedHolds == Holds(RenderOwned, OwnedLines)
<1>. DEFINE a == Arg("keepalive", "10 60") b == Flag("persist-key") c == Flag("persist-tun")
            d == Arg("tmp-dir", "ours") e == Arg("writepid", "ours") f == Arg("status", "ours")
            g == Arg("management", "ours") h == Arg("management-client-user", "root")
            l == Arg("verb", "2")
            A == OneArg("keepalive", "10 60") B == {D("persist-key", <<>>)}
            C == {D("persist-tun", <<>>)} DD == OneArg("tmp-dir", "ours")
            E == OneArg("writepid", "ours") F == OneArg("status", "ours")
            G == OneArg("management", "ours") H == OneArg("management-client-user", "root")
            L == OneArg("verb", "2")
<1>1. RenderOwned = (((((((a \o b) \o c) \o d) \o e) \o f) \o g) \o h) \o l
  BY DEF RenderOwned
<1>2. OwnedLines = (((((((A \cup B) \cup C) \cup DD) \cup E) \cup F) \cup G) \cup H) \cup L
  BY DEF OwnedLines
<1>3. \A k, v : Holds(Arg(k, v), OneArg(k, v)) /\ Holds(Flag(k), {D(k, <<>>)})
  BY HoldsArg
<1>4. /\ Holds(a, A) /\ Holds(b, B) /\ Holds(c, C) /\ Holds(d, DD) /\ Holds(e, E)
      /\ Holds(f, F) /\ Holds(g, G) /\ Holds(h, H) /\ Holds(l, L)
  <2>1. Holds(a, A) /\ Holds(b, B) /\ Holds(c, C)
    BY <1>3, Zenon
  <2>2. Holds(d, DD) /\ Holds(e, E) /\ Holds(f, F)
    BY <1>3
  <2>3. Holds(g, G) /\ Holds(h, H) /\ Holds(l, L)
    BY <1>3
  <2>. HIDE DEF a, b, c, d, e, f, g, h, l, A, B, C, DD, E, F, G, H, L
  <2>. QED
    BY <2>1, <2>2, <2>3
<1>. HIDE DEF a, b, c, d, e, f, g, h, l, A, B, C, DD, E, F, G, H, L
<1>5. Holds((a \o b) \o c, (A \cup B) \cup C)
  BY <1>4, HoldsJoined
<1>. DEFINE s3 == (a \o b) \o c
            S3 == (A \cup B) \cup C
<1>6. Holds(s3, S3)
  BY <1>5
<1>. HIDE DEF s3, S3
<1>. DEFINE s6 == ((s3 \o d) \o e) \o f
            S6 == ((S3 \cup DD) \cup E) \cup F
<1>7. Holds(s6, S6)
  BY <1>4, <1>6, HoldsJoined
<1>. HIDE DEF s6, S6
<1>8. Holds(((s6 \o g) \o h) \o l, ((S6 \cup G) \cup H) \cup L)
  BY <1>4, <1>7, HoldsJoined
<1>. QED
  BY <1>1, <1>2, <1>8 DEF s3, s6, S3, S6

BodyLines(i) == IF i.role = "server" THEN ServerLines(i) ELSE ClientLines(i)
DaemonLines(i) ==
    ((((HeadLines(i) \cup BodyLines(i)) \cup CryptoLines(i)) \cup CipherLines(i))
     \cup FoldedLines(i.typed)) \cup OwnedLines
Upper(i) ==
    RenderHead(i) \o (IF i.role = "server" THEN RenderServer(i) ELSE RenderClient(i))
    \o RenderCrypto(i) \o RenderCiphers(i) \o RenderTyped(i) \o RenderOwned

(* A file has the lines of the daemon and those of the row and its features. *)
LEMMA FileHolds ==
    ASSUME NEW i, RowParts(i)
    PROVE  /\ Holds(Upper(i), DaemonLines(i))
           /\ RenderInstance(i) = Upper(i) \o Expand(i)
           /\ Holds(RenderInstance(i),
                    DaemonLines(i) \cup (LineSet(i.extra) \cup LineSet(i.features)))
<1>. DEFINE body == IF i.role = "server" THEN RenderServer(i) ELSE RenderClient(i)
            head == RenderHead(i)
            crypto == RenderCrypto(i)
            ciphers == RenderCiphers(i)
            typed == RenderTyped(i)
            owned == RenderOwned
            s2 == head \o body
            s4 == (s2 \o crypto) \o ciphers
            s6 == (s4 \o typed) \o owned
<1>1. /\ Holds(head, HeadLines(i)) /\ Holds(crypto, CryptoLines(i))
      /\ Holds(ciphers, CipherLines(i)) /\ Holds(owned, OwnedLines)
  BY HeadHolds, CryptoHolds, CiphersHold, OwnedHolds
<1>2. Holds(body, BodyLines(i))
  BY ServerHolds, ClientHolds DEF BodyLines
<1>3. Holds(typed, FoldedLines(i.typed))
  BY FoldedArgsLines DEF RenderTyped, Holds
<1>4. Upper(i) = s6 /\ RenderInstance(i) = s6 \o Expand(i)
  BY DEF Upper, RenderInstance
<1>. HIDE DEF body, head, crypto, ciphers, typed, owned
<1>5. Holds(s2, HeadLines(i) \cup BodyLines(i))
  BY <1>1, <1>2, HoldsJoined
<1>. HIDE DEF s2
<1>6. Holds(s4, ((HeadLines(i) \cup BodyLines(i)) \cup CryptoLines(i)) \cup CipherLines(i))
  BY <1>1, <1>5, HoldsJoined
<1>. HIDE DEF s4
<1>7. Holds(s6, DaemonLines(i))
  BY <1>1, <1>3, <1>6, HoldsJoined DEF DaemonLines
<1>. HIDE DEF s6
<1>8. Holds(Expand(i), LineSet(i.extra) \cup LineSet(i.features))
  BY SetJoined DEF Expand, RowParts, Holds
<1>. QED
  BY <1>4, <1>7, <1>8, HoldsJoined

LEMMA OfOneArg ==
    ASSUME NEW k, NEW v, NEW d \in OneArg(k, v)
    PROVE  d = D(k, <<v>>) /\ d.k = k /\ d.v = <<v>> /\ d.v[1] = v /\ v # Unset /\ IsDirective(d)
<1>1. d = D(k, <<v>>) /\ v # Unset
  BY DEF OneArg
<1>2. d.k = k /\ d.v = <<v>>
  BY <1>1 DEF D
<1>3. <<v>> \in Seq({v}) /\ <<v>>[1] = v
  OBVIOUS
<1>. QED
  BY <1>1, <1>2, <1>3 DEF IsDirective, ASeq

LEMMA OfFlag ==
    ASSUME NEW k
    PROVE  D(k, <<>>).k = k /\ IsDirective(D(k, <<>>))
<1>1. D(k, <<>>).k = k /\ D(k, <<>>).v = <<>>
  BY DEF D
<1>. QED
  BY <1>1, EmptyIsSeq DEF IsDirective

LEMMA OfTwo ==
    ASSUME NEW k, NEW v, NEW w
    PROVE  LET d == D(k, <<v, w>>) IN
           d.k = k /\ d.v = <<v, w>> /\ IsDirective(d) /\ Len(d.v) = 2 /\ d.v[1] = v /\ d.v[2] = w
<1>. DEFINE d == D(k, <<v, w>>)
<1>1. d.k = k /\ d.v = <<v, w>>
  BY DEF D
<1>2. <<v, w>> \in Seq({v, w}) /\ Len(<<v, w>>) = 2 /\ <<v, w>>[1] = v /\ <<v, w>>[2] = w
  OBVIOUS
<1>. QED
  BY <1>1, <1>2 DEF IsDirective, ASeq

(* The lines of which a row has one or none, and what each is told.          *)
Certified == {"ca", "cert", "key", "tls-crypt", "tls-auth"}
ToldKeys ==
    {"dev", "dev-type", "proto", "local", "port", "server", "topology", "secret", "dh", "cipher",
     "data-ciphers", "auth"} \cup Certified
Told(i, k) ==
    CASE k = "dev" -> IF i.col["device"] # Unset THEN i.col["device"] ELSE Or(i.col["dev-type"], "tun")
      [] k = "dev-type" -> IF i.col["device"] # Unset THEN Or(i.col["dev-type"], "tun") ELSE Unset
      [] k = "proto" -> Or(i.col["proto"], "udp")
      [] k = "port" -> IF i.role = "server" THEN Or(i.col["port"], "1194") ELSE Unset
      [] k = "topology" -> IF i.role = "server" THEN Or(i.col["topology"], "subnet") ELSE Unset
      [] k = "server" -> IF i.role = "server" THEN i.network ELSE Unset
      [] k = "secret" -> IF i.static THEN i.col["tls-auth"] ELSE Unset
      [] k = "dh" -> IF i.role = "server" /\ ~i.static THEN Or(i.col["dh"], "none") ELSE Unset
      [] k \in Certified -> IF i.static THEN Unset ELSE i.col[k]
      [] OTHER -> i.col[k]

(* Told, keyword by keyword.                                                 *)
LEMMA ToldIs ==
    ASSUME NEW i
    PROVE  /\ Told(i, "dev") = IF i.col["device"] # Unset THEN i.col["device"]
                               ELSE Or(i.col["dev-type"], "tun")
           /\ Told(i, "dev-type") = IF i.col["device"] # Unset THEN Or(i.col["dev-type"], "tun")
                                    ELSE Unset
           /\ Told(i, "proto") = Or(i.col["proto"], "udp")
           /\ Told(i, "port") = IF i.role = "server" THEN Or(i.col["port"], "1194") ELSE Unset
           /\ Told(i, "topology") = IF i.role = "server" THEN Or(i.col["topology"], "subnet")
                                    ELSE Unset
           /\ Told(i, "server") = IF i.role = "server" THEN i.network ELSE Unset
           /\ Told(i, "secret") = IF i.static THEN i.col["tls-auth"] ELSE Unset
           /\ Told(i, "dh") = IF i.role = "server" /\ ~i.static THEN Or(i.col["dh"], "none")
                              ELSE Unset
           /\ \A k \in Certified : Told(i, k) = IF i.static THEN Unset ELSE i.col[k]
           /\ \A k \in {"local", "cipher", "data-ciphers", "auth"} : Told(i, k) = i.col[k]
BY DEF Told, Certified

FixedKeys ==
    {"multihome", "mode", "tls-server", "client-config-dir", "ccd-exclusive", "duplicate-cn",
     "client", "tls-client", "nobind", "remote-cert-tls", "resolv-retry"} \cup OwnedKeys
ToldLine(i, d) == d.k \in ToldKeys /\ d \in OneArg(d.k, Told(i, d.k))
FixedLine(d) == d.k \in FixedKeys /\ IsDirective(d)
PushLine(d) == d.k = "push" /\ IsDirective(d) /\ Len(d.v) = 2

(* Every line of the daemon's part of a file, by where it comes from.        *)
DaemonLine(i, d) ==
    \/ ToldLine(i, d)
    \/ d \in LineSet(i.plugins)
    \/ FixedLine(d)
    \/ i.role = "server" /\ PushLine(d)
    \/ i.role # "server" /\ d \in RemoteLines(i)
    \/ d \in FoldedLines(i.typed)

LEMMA ArgIsTold ==
    ASSUME NEW i, NEW k \in ToldKeys, NEW v, v = Told(i, k), NEW d \in OneArg(k, v)
    PROVE  ToldLine(i, d)
BY OfOneArg DEF ToldLine

LEMMA ArgIsFixed ==
    ASSUME NEW k \in FixedKeys, NEW v, NEW d \in OneArg(k, v) \cup {D(k, <<>>)}
    PROVE  FixedLine(d)
<1>1. CASE d \in OneArg(k, v)
  <2>1. d.k = k /\ IsDirective(d)
    BY <1>1, OfOneArg
  <2>. QED
    BY <2>1 DEF FixedLine
<1>2. CASE d \in {D(k, <<>>)}
  <2>. DEFINE e == D(k, <<>>)
  <2>1. e.k = k /\ IsDirective(e) /\ d = e
    BY <1>2, OfFlag
  <2>. HIDE DEF e
  <2>. QED
    BY <2>1 DEF FixedLine
<1>. QED
  BY <1>1, <1>2

(* Where the lines of the daemon come from.                                  *)
LEMMA DaemonLineIs ==
    ASSUME NEW i, NEW d \in DaemonLines(i)
    PROVE  DaemonLine(i, d)
<1>1. {"dev", "dev-type", "proto", "local", "port", "server", "topology", "secret", "dh", "cipher",
       "data-ciphers", "auth", "ca", "cert", "key", "tls-crypt", "tls-auth"} \subseteq ToldKeys
  BY DEF ToldKeys, Certified
<1>2. /\ {"multihome", "mode", "tls-server", "client-config-dir", "ccd-exclusive", "duplicate-cn",
          "client", "tls-client", "nobind", "remote-cert-tls", "resolv-retry"} \subseteq FixedKeys
      /\ {"keepalive", "persist-key", "persist-tun", "tmp-dir", "writepid", "status",
          "management", "management-client-user", "verb"} \subseteq FixedKeys
  BY DEF FixedKeys, OwnedKeys
<1>3. {"ca", "cert", "key", "tls-crypt", "tls-auth"} \subseteq Certified
  BY DEF Certified
<1>. HIDE DEF ToldKeys, FixedKeys, Certified
<1>4. \A k \in ToldKeys : \A v : v = Told(i, k) => \A e \in OneArg(k, v) : ToldLine(i, e)
  BY ArgIsTold
<1>5. \A k \in FixedKeys : \A v : \A e \in OneArg(k, v) \cup {D(k, <<>>)} : FixedLine(e)
  BY ArgIsFixed
<1>6. CASE d \in HeadLines(i)
  <2>1. d \in DevLines(i) => ToldLine(i, d)
    BY <1>1, <1>4, ToldIs DEF DevLines
  <2>2. d \in OneArg("proto", Or(i.col["proto"], "udp")) => ToldLine(i, d)
    BY <1>1, <1>4, ToldIs
  <2>3. d \in LocalLines(i) => ToldLine(i, d) \/ FixedLine(d)
    BY <1>1, <1>2, <1>4, <1>5, ToldIs DEF LocalLines
  <2>. QED
    BY <1>6, <2>1, <2>2, <2>3 DEF HeadLines, DaemonLine
<1>7. CASE i.role = "server" /\ d \in ServerLines(i)
  <2>1. d \in ListenLines(i) => ToldLine(i, d) \/ FixedLine(d)
    <3>1. \A e \in OneArg("port", Or(i.col["port"], "1194")) \cup OneArg("server", i.network)
                   \cup OneArg("topology", Or(i.col["topology"], "subnet")) : ToldLine(i, e)
      BY <1>1, <1>4, <1>7, ToldIs
    <3>2. \A e \in OneArg("mode", "server") \cup OneArg("client-config-dir", "ours")
                   \cup {D("tls-server", <<>>)} \cup {D("ccd-exclusive", <<>>)} : FixedLine(e)
      BY <1>2, <1>5
    <3>. QED
      BY <3>1, <3>2 DEF ListenLines
  <2>2. d \in PushLines(i) => PushLine(d)
    <3>1. ASSUME NEW v, NEW w PROVE PushLine(D("push", <<v, w>>))
      <4>. DEFINE e == D("push", <<v, w>>)
      <4>1. e.k = "push" /\ IsDirective(e) /\ Len(e.v) = 2
        BY OfTwo
      <4>. HIDE DEF e
      <4>2. PushLine(e)
        BY <4>1 DEF PushLine
      <4>. QED
        BY <4>2 DEF e
    <3>. QED
      BY <3>1 DEF PushLines
  <2>3. d \in {D("duplicate-cn", <<>>)} => FixedLine(d)
    BY <1>2, <1>5
  <2>. QED
    BY <1>7, <2>1, <2>2, <2>3 DEF ServerLines, DaemonLine
<1>8. CASE i.role # "server" /\ d \in ClientLines(i)
  <2>1. d \in ConnectLines => FixedLine(d)
    <3>1. \A e \in OneArg("remote-cert-tls", "server") \cup OneArg("resolv-retry", "infinite") :
            FixedLine(e)
      BY <1>2, <1>5
    <3>2. \A e \in {D("client", <<>>)} \cup {D("tls-client", <<>>)} \cup {D("nobind", <<>>)} :
            FixedLine(e)
      BY <1>2, <1>5
    <3>. QED
      BY <3>1, <3>2 DEF ConnectLines
  <2>. QED
    BY <1>8, <2>1 DEF ClientLines, DaemonLine
<1>9. CASE d \in CryptoLines(i)
  <2>1. ~i.static => \A k \in Certified : Told(i, k) = i.col[k]
    BY ToldIs
  <2>2. CASE i.static
    BY <1>1, <1>4, <1>9, <2>2, ToldIs DEF CryptoLines, DaemonLine
  <2>3. CASE ~i.static
    <3>1. d \in CertLines(i) => ToldLine(i, d)
      BY <1>1, <1>3, <1>4, <2>1, <2>3 DEF CertLines
    <3>2. d \in DhLines(i) => ToldLine(i, d)
      BY <1>1, <1>4, <2>3, ToldIs DEF DhLines
    <3>3. d \in OneArg("tls-crypt", i.col["tls-crypt"]) \cup OneArg("tls-auth", i.col["tls-auth"])
          => ToldLine(i, d)
      BY <1>1, <1>3, <1>4, <2>1, <2>3
    <3>. QED
      BY <1>9, <2>3, <3>1, <3>2, <3>3 DEF CryptoLines, DaemonLine
  <2>. QED
    BY <2>2, <2>3
<1>10. CASE d \in CipherLines(i)
  BY <1>1, <1>4, <1>10, ToldIs DEF CipherLines, DaemonLine
<1>11. CASE d \in FoldedLines(i.typed)
  BY <1>11 DEF DaemonLine
<1>12. CASE d \in OwnedLines
  <2>1. /\ d \in OneArg("keepalive", "10 60") => FixedLine(d)
        /\ d \in {D("persist-key", <<>>)} => FixedLine(d)
        /\ d \in {D("persist-tun", <<>>)} => FixedLine(d)
    <3>1. \A k \in FixedKeys : (\A v : d \in OneArg(k, v) => FixedLine(d))
                              /\ (d \in {D(k, <<>>)} => FixedLine(d))
      BY <1>5
    <3>2. "keepalive" \in FixedKeys /\ "persist-key" \in FixedKeys /\ "persist-tun" \in FixedKeys
      BY <1>2
    <3>. QED
      BY <3>1, <3>2, Zenon
  <2>2. /\ d \in OneArg("tmp-dir", "ours") => FixedLine(d)
        /\ d \in OneArg("writepid", "ours") => FixedLine(d)
        /\ d \in OneArg("status", "ours") => FixedLine(d)
    BY <1>2, <1>5
  <2>3. /\ d \in OneArg("management", "ours") => FixedLine(d)
        /\ d \in OneArg("management-client-user", "root") => FixedLine(d)
        /\ d \in OneArg("verb", "2") => FixedLine(d)
    BY <1>2, <1>5
  <2>. HIDE DEF FixedLine
  <2>4. FixedLine(d)
    BY <1>12, <2>1, <2>2, <2>3, Zenon DEF OwnedLines
  <2>. QED
    BY <2>4 DEF DaemonLine
<1>. QED
  BY <1>6, <1>7, <1>8, <1>9, <1>10, <1>11, <1>12 DEF DaemonLines, BodyLines

(* The lines that a row's columns and lists make are there.                  *)
LEMMA DaemonHas ==
    ASSUME NEW i
    PROVE  /\ \A k \in ToldKeys : OneArg(k, Told(i, k)) \subseteq DaemonLines(i)
           /\ LineSet(i.plugins) \subseteq DaemonLines(i)
           /\ i.role = "server" => PushLines(i) \subseteq DaemonLines(i)
           /\ i.role # "server" => RemoteLines(i) \subseteq DaemonLines(i)
<1>1. /\ OneArg("dev", Told(i, "dev")) \subseteq HeadLines(i)
      /\ OneArg("dev-type", Told(i, "dev-type")) \subseteq HeadLines(i)
      /\ OneArg("proto", Told(i, "proto")) \subseteq HeadLines(i)
      /\ OneArg("local", Told(i, "local")) \subseteq HeadLines(i)
  <2>1. OneArg("dev-type", Unset) = {} /\ OneArg("local", Unset) = {}
    BY DEF OneArg
  <2>. QED
    BY <2>1, ToldIs DEF HeadLines, DevLines, LocalLines
<1>2. /\ OneArg("port", Told(i, "port")) \subseteq BodyLines(i)
      /\ OneArg("topology", Told(i, "topology")) \subseteq BodyLines(i)
      /\ OneArg("server", Told(i, "server")) \subseteq BodyLines(i)
  <2>1. \A k : OneArg(k, Unset) = {}
    BY DEF OneArg
  <2>2. CASE i.role = "server"
    BY <2>2, ToldIs DEF BodyLines, ServerLines, ListenLines
  <2>3. CASE i.role # "server"
    BY <2>1, <2>3, ToldIs
  <2>. QED
    BY <2>2, <2>3
<1>3. /\ OneArg("secret", Told(i, "secret")) \subseteq CryptoLines(i)
      /\ OneArg("dh", Told(i, "dh")) \subseteq CryptoLines(i)
      /\ \A k \in Certified : OneArg(k, Told(i, k)) \subseteq CryptoLines(i)
  <2>1. \A k : OneArg(k, Unset) = {}
    BY DEF OneArg
  <2>2. OneArg("secret", Told(i, "secret")) \subseteq CryptoLines(i)
    BY <2>1, ToldIs DEF CryptoLines
  <2>3. OneArg("dh", Told(i, "dh")) \subseteq CryptoLines(i)
    BY <2>1, ToldIs DEF CryptoLines, DhLines
  <2>4. ASSUME NEW k \in Certified PROVE OneArg(k, Told(i, k)) \subseteq CryptoLines(i)
    <3>1. Told(i, k) = IF i.static THEN Unset ELSE i.col[k]
      BY ToldIs
    <3>2. CASE i.static
      BY <2>1, <3>1, <3>2
    <3>3. CASE ~i.static
      <4>1. CryptoLines(i) = ((CertLines(i) \cup DhLines(i)) \cup OneArg("tls-crypt", i.col["tls-crypt"]))
                             \cup OneArg("tls-auth", i.col["tls-auth"])
        BY <3>3 DEF CryptoLines
      <4>2. k = "ca" \/ k = "cert" \/ k = "key" \/ k = "tls-crypt" \/ k = "tls-auth"
        BY DEF Certified
      <4>3. OneArg(k, i.col[k]) \subseteq CryptoLines(i)
        BY <4>1, <4>2 DEF CertLines
      <4>. QED
        BY <3>1, <3>3, <4>3
    <3>. QED
      BY <3>2, <3>3
  <2>. QED
    BY <2>2, <2>3, <2>4
<1>4. \A k \in {"cipher", "data-ciphers", "auth"} : OneArg(k, Told(i, k)) \subseteq CipherLines(i)
  BY ToldIs DEF CipherLines
<1>5. ASSUME NEW k \in ToldKeys PROVE OneArg(k, Told(i, k)) \subseteq DaemonLines(i)
  <2>1. \/ k \in Certified \/ k \in {"cipher", "data-ciphers", "auth"}
        \/ k \in {"dev", "dev-type", "proto", "local"} \/ k \in {"port", "topology", "server"}
        \/ k \in {"secret", "dh"}
    BY DEF ToldKeys
  <2>2. /\ HeadLines(i) \subseteq DaemonLines(i) /\ BodyLines(i) \subseteq DaemonLines(i)
        /\ CryptoLines(i) \subseteq DaemonLines(i) /\ CipherLines(i) \subseteq DaemonLines(i)
    BY DEF DaemonLines
  <2>3. OneArg(k, Told(i, k)) \subseteq HeadLines(i) \/ OneArg(k, Told(i, k)) \subseteq BodyLines(i)
        \/ OneArg(k, Told(i, k)) \subseteq CryptoLines(i) \/ OneArg(k, Told(i, k)) \subseteq CipherLines(i)
    BY <1>1, <1>2, <1>3, <1>4, <2>1
  <2>. QED
    BY <2>2, <2>3
<1>. QED
  BY <1>5 DEF DaemonLines, HeadLines, BodyLines, ServerLines, ClientLines

------------------------------------------------------------------------------
(* What is said is kept                                                      *)

LEMMA NoLineNoValue ==
    ASSUME NEW s, NEW k, \A d \in LineSet(s) : d.k # k
    PROVE  Value(s, k) = Unset
BY DEF Value, Lines, LineSet

(* A keyword whose lines are alike has their words as its value.             *)
LEMMA OnlyValue ==
    ASSUME NEW s, ASeq(s), NEW d \in LineSet(s), NEW v,
           \A e \in LineSet(s) : e.k = d.k => e.v = v
    PROVE  Value(s, d.k) = v
<1>1. PICK j \in DOMAIN s : s[j] = d
  BY LineOf
<1>2. PICK m : Latest(s, Len(s), m) /\ s[m].k = s[j].k /\ m \in DOMAIN s
  BY LatestExists
<1>3. Value(s, s[m].k) = s[m].v
  BY <1>2, LatestIsLast
<1>4. s[m] \in LineSet(s)
  BY <1>2, LineOf
<1>. QED
  BY <1>1, <1>2, <1>3, <1>4

LEMMA NoneFolded == FoldedLines(NoResult.fold) = {}
<1>1. \A k \in Folded : NoResult.fold[k] = Unset
  BY DEF NoResult
<1>. QED
  BY <1>1 DEF FoldedLines, Written

(* A row Prepare made and its file, by its lines; X are its extra ones.      *)
FileSo(i, f, X) ==
    /\ ASeq(f)
    /\ \A d \in LineSet(f) :
         \/ ToldLine(i, d)
         \/ d.k \in {"plugin", "remote", "push"} \cup FixedKeys
         \/ d \in X
    /\ \A k \in ToldKeys : OneArg(k, Told(i, k)) \subseteq LineSet(f)
    /\ LineSet(i.plugins) \subseteq LineSet(f)
    /\ i.role = "server" => PushLines(i) \subseteq LineSet(f)
    /\ i.role # "server" => RemoteLines(i) \subseteq LineSet(f)
    /\ X \subseteq LineSet(f)
    /\ \A k \in Keywords(i.extra) : Value(f, k) = Value(i.extra, k)

(* The file of a row that was just made of a request.                        *)
LEMMA PreparedFile ==
    ASSUME NEW q, ResultShape(q), ~Rejected(q)
    PROVE  FileSo(Prepared(q), RenderInstance(Prepared(q)), LineSet(q.extra))
<1>. DEFINE i == Prepared(q)
            f == RenderInstance(i)
<1>1. RowAs(q, i) /\ RowParts(i)
  BY PreparedAs, PreparedShape, PartsOfRows
<1>. HIDE DEF i
<1>2. i.features = <<>> /\ i.typed = NoResult.fold /\ i.extra = q.extra
  BY <1>1 DEF RowAs
<1>3. /\ Holds(Upper(i), DaemonLines(i)) /\ f = Upper(i) \o Expand(i)
      /\ Holds(f, DaemonLines(i) \cup (LineSet(i.extra) \cup LineSet(i.features)))
  BY <1>1, FileHolds
<1>. HIDE DEF f
<1>4. ASeq(f) /\ LineSet(f) = DaemonLines(i) \cup LineSet(q.extra)
  BY <1>2, <1>3, SetOfNone DEF Holds
<1>5. FoldedLines(i.typed) = {}
  BY <1>2, NoneFolded
<1>6. \A d \in LineSet(i.plugins) : d.k = "plugin"
  BY <1>1 DEF RowParts, Keywords, LineSet
<1>7. \A d \in RemoteLines(i) : d.k = "remote"
  BY DEF RemoteLines, RemoteLine, D
<1>8. ASSUME NEW d \in LineSet(f)
      PROVE  \/ ToldLine(i, d)
             \/ d.k \in {"plugin", "remote", "push"} \cup FixedKeys
             \/ d \in LineSet(q.extra)
  <2>1. CASE d \in DaemonLines(i)
    <3>1. DaemonLine(i, d)
      BY <2>1, DaemonLineIs
    <3>. QED
      BY <1>5, <1>6, <1>7, <3>1 DEF DaemonLine, FixedLine, PushLine
  <2>. QED
    BY <1>4, <2>1
<1>9. ASSUME NEW k \in Keywords(i.extra) PROVE Value(f, k) = Value(i.extra, k)
  <2>1. ASeq(i.extra) /\ ASeq(i.features) /\ Keywords(i.features) = {} /\ ASeq(Expand(i))
        /\ ASeq(Upper(i))
    BY <1>1, <1>2, <1>3, EmptyHasNone, KeywordsJoined DEF RowParts, Expand, Holds
  <2>2. Value(Expand(i), k) = Value(i.extra, k)
    BY <2>1, ValueOfEarlier DEF Expand
  <2>3. k \in Keywords(Expand(i))
    BY <2>1, KeywordsJoined DEF Expand
  <2>. QED
    BY <1>3, <2>1, <2>2, <2>3, ValueOfLater
<1>10. /\ \A k \in ToldKeys : OneArg(k, Told(i, k)) \subseteq LineSet(f)
       /\ LineSet(i.plugins) \subseteq LineSet(f)
       /\ i.role = "server" => PushLines(i) \subseteq LineSet(f)
       /\ i.role # "server" => RemoteLines(i) \subseteq LineSet(f)
  BY <1>4, DaemonHas
<1>11. LineSet(q.extra) \subseteq LineSet(f)
  BY <1>4
<1>12. FileSo(i, f, LineSet(q.extra))
  BY <1>4, <1>8, <1>9, <1>10, <1>11 DEF FileSo
<1>. QED
  BY <1>12 DEF f, i

(* The lines an import leaves to the row are of no keyword it has a place    *)
(* for elsewhere.                                                            *)
LEMMA ExtraElsewhere ==
    ASSUME NEW c, NEW q, NEW fold, AsksExtra(c, q, fold), NEW d \in LineSet(q.extra)
    PROVE  d.k \notin ToldKeys \cup {"remote", "plugin", "<>", "lport"} /\ ~Pushed(d)
<1>1. CASE OwnRest(d)
  <2>1. CASE IsRest(d.k)
    <3>1. d.k \notin ToldKeys \cup {"remote", "plugin", "<>", "lport", "push"}
      BY <2>1 DEF IsRest, ToldKeys, Certified, WordKeys, Columns, RoleKeys
    <3>. QED
      BY <3>1 DEF Pushed
  <2>2. CASE d.k = "redirect-gateway"
    BY <2>2 DEF ToldKeys, Certified, Pushed
  <2>3. CASE KeptPush(d)
    BY <2>3 DEF KeptPush, ToldKeys, Certified, Pushed
  <2>. QED
    BY <1>1, <2>1, <2>2, <2>3 DEF OwnRest
<1>2. CASE \E b \in LineSet(c) : b.k = "<>" /\ b.v[1] \in LineTags /\ d = BlockLine(b)
  <2>1. d.k \in LineTags
    BY <1>2 DEF BlockLine, D
  <2>. QED
    BY <2>1 DEF LineTags, ToldKeys, Certified, Pushed
<1>3. CASE d \in FoldedLines(fold)
  <2>1. d.k \in Folded
    BY <1>3 DEF FoldedLines, D
  <2>. QED
    BY <2>1 DEF Folded, ToldKeys, Certified, Pushed
<1>. QED
  BY <1>1, <1>2, <1>3 DEF AsksExtra

(* What a row has a column for, its file says.                               *)
LEMMA ToldCounts ==
    ASSUME NEW i, NEW f, NEW X, FileSo(i, f, X), \A d \in X : d.k \notin ToldKeys,
           NEW k \in ToldKeys, NEW w, Told(i, k) = w, w # Unset
    PROVE  Value(f, k) = <<w>>
<1>. DEFINE d == D(k, <<w>>)
<1>1. d \in LineSet(f)
  BY DEF FileSo, OneArg
<1>2. d.k = k
  BY DEF D
<1>3. k \notin {"plugin", "remote", "push"} \cup FixedKeys
  BY DEF ToldKeys, Certified, FixedKeys, OwnedKeys
<1>. HIDE DEF d
<1>4. ASSUME NEW e \in LineSet(f), e.k = k PROVE e.v = <<w>>
  <2>1. ToldLine(i, e)
    BY <1>3, <1>4 DEF FileSo
  <2>2. e \in OneArg(k, w)
    BY <1>4, <2>1 DEF ToldLine
  <2>. QED
    BY <2>2 DEF OneArg, D
<1>5. ASeq(f) /\ \A e \in LineSet(f) : e.k = d.k => e.v = <<w>>
  BY <1>2, <1>4 DEF FileSo
<1>6. Value(f, d.k) = <<w>>
  BY <1>1, <1>5, OnlyValue
<1>. QED
  BY <1>2, <1>6

(* A plain configuration c, what is asked, the row and the file it becomes.  *)
AdoptedSo(c, q, i, f, fold) ==
    /\ AllDirectives(c) /\ Plain(c) /\ AsksColumns(c, q) /\ AsksLists(c, q) /\ AsksStatic(c, q)
    /\ AsksExtra(c, q, fold) /\ ResultShape(q) /\ RoleSo(c, q) /\ RowAs(q, i)
    /\ FileSo(i, f, LineSet(q.extra))

(* The line of a keyword that counts.                                        *)
LEMMA CountingLine ==
    ASSUME NEW c, AllDirectives(c), NEW d \in LineSet(c)
    PROVE  \E m : /\ Latest(c, Len(c), m) /\ c[m].k = d.k /\ c[m] \in LineSet(c)
                  /\ Value(c, d.k) = c[m].v
<1>1. ASeq(c)
  BY DEF AllDirectives
<1>2. PICK j \in DOMAIN c : c[j] = d
  BY <1>1, LineOf
<1>3. PICK m : Latest(c, Len(c), m) /\ c[m].k = c[j].k /\ m \in DOMAIN c
  BY <1>1, LatestExists
<1>4. Value(c, c[m].k) = c[m].v /\ c[m] \in LineSet(c)
  BY <1>1, <1>3, LatestIsLast, LineOf
<1>. QED
  BY <1>2, <1>3, <1>4

LEMMA ToldKept ==
    ASSUME NEW c, NEW q, NEW i, NEW f, NEW fold, AdoptedSo(c, q, i, f, fold),
           NEW k \in ToldKeys, NEW w, Told(i, k) = w, w # Unset
    PROVE  Value(f, k) = <<w>>
<1>1. \A d \in LineSet(q.extra) : d.k \notin ToldKeys
  BY ExtraElsewhere DEF AdoptedSo
<1>2. FileSo(i, f, LineSet(q.extra))
  BY DEF AdoptedSo
<1>. QED
  BY <1>1, <1>2, ToldCounts

LEMMA NamedColumn ==
    ASSUME NEW c, NEW q, NEW i, NEW f, NEW fold, AdoptedSo(c, q, i, f, fold),
           NEW k \in {"cert", "key"}, Named(c, k)
    PROVE  q.col[k] # Unset
<1>1. /\ \A d \in LineSet(c) : PlainLine(d) /\ IsDirective(d)
      /\ \A l : Named(c, l) <=> \E d \in LineSet(c) : Names(d, l)
  BY PlainLines DEF AdoptedSo
<1>2. PICK d \in LineSet(c) : Names(d, k)
  BY <1>1
<1>3. CASE d.k = k
  <2>1. PICK m : Latest(c, Len(c), m) /\ c[m].k = k /\ c[m] \in LineSet(c)
    BY <1>3, CountingLine DEF AdoptedSo
  <2>2. OwnColumn(c, c[m].k) /\ c[m].k # "tls-auth" /\ c[m].k \in OneWord
    BY <2>1 DEF OwnColumn, Columns, OneWord
  <2>3. q.col[k] = c[m].v[1]
    BY <2>1, <2>2 DEF AdoptedSo, AsksColumns
  <2>4. c[m].v[1] # Unset
    BY <1>1, <2>1, <2>2, WordOf
  <2>. QED
    BY <2>3, <2>4
<1>4. CASE d.k = "<>" /\ d.v[1] = k
  <2>1. q.col[k] = d.v[2]
    BY <1>4 DEF AdoptedSo, AsksColumns, ColumnTags
  <2>2. Len(d.v) = 2 /\ \A n \in 1..Len(d.v) : d.v[n] # Unset
    BY <1>1, <1>4 DEF PlainLine
  <2>3. d.v[2] # Unset
    BY <2>2
  <2>. QED
    BY <2>1, <2>3
<1>. QED
  BY <1>2, <1>3, <1>4 DEF Names

(* Certificates that are named are those of the row.                         *)
LEMMA NotIssued ==
    ASSUME NEW c, NEW q, NEW i, NEW f, NEW fold, AdoptedSo(c, q, i, f, fold),
           NEW k \in OwnCertificate, Named(c, k)
    PROVE  ~Issues(q)
<1>. SUFFICES ASSUME Issues(q) PROVE FALSE
  OBVIOUS
<1>1. q.role = "server" /\ q.col["cert"] = Unset /\ q.col["key"] = Unset
  BY DEF Issues
<1>2. Named(c, "cert") \/ Named(c, "key")
  BY <1>1 DEF OwnCertificate, AdoptedSo, RoleSo
<1>3. \A l \in {"cert", "key"} : Named(c, l) => q.col[l] # Unset
  BY NamedColumn
<1>. QED
  BY <1>1, <1>2, <1>3

LEMMA NotStatic ==
    ASSUME NEW c, NEW q, NEW i, NEW f, NEW fold, AdoptedSo(c, q, i, f, fold),
           NEW k \in Certified \cup {"dh"}, Named(c, k)
    PROVE  ~i.static /\ ~Named(c, "secret")
<1>1. ~Named(c, "secret")
  BY DEF AdoptedSo, Plain, Certified
<1>2. i.static = q.static /\ ~q.static
  BY <1>1 DEF AdoptedSo, AsksStatic, RowAs
<1>. QED
  BY <1>1, <1>2

LEMMA NamedByLine ==
    ASSUME NEW c, AllDirectives(c), Plain(c), NEW d \in LineSet(c)
    PROVE  Named(c, d.k) /\ (d.k = "<>" => Named(c, d.v[1]))
BY PlainLines DEF Names

(* The row has what is said of a column, and so has the file.                *)
LEMMA ColumnKept ==
    ASSUME NEW c, NEW q, NEW i, NEW f, NEW fold, AdoptedSo(c, q, i, f, fold),
           NEW k \in Columns \ {"device", "dev-type"}, NEW w, w # Unset,
           q.col[k] = w, Named(c, k),
           k \in {"port", "topology"} => q.role # "client"
    PROVE  Value(f, k) = <<w>>
<1>1. i.col[k] = w
  <2>1. i.col[k] = q.col[k] \/ (k \in OwnCertificate /\ Issues(q))
    BY DEF AdoptedSo, RowAs
  <2>. QED
    BY <2>1, NotIssued
<1>2. i.role = q.role /\ q.role \in {"server", "client"}
  BY DEF AdoptedSo, RowAs, RoleSo
<1>3. k \in ToldKeys
  BY DEF ToldKeys, Certified, Columns
<1>4. Told(i, k) = w
  <2>1. CASE k \in Certified
    <3>1. ~i.static
      BY <2>1, NotStatic
    <3>. QED
      BY <1>1, <2>1, <3>1, ToldIs
  <2>2. CASE k = "dh"
    <3>1. ~i.static
      BY <2>2, NotStatic
    <3>2. q.role = "server"
      BY <1>2, <2>2 DEF AdoptedSo, RoleSo
    <3>. QED
      BY <1>1, <1>2, <2>2, <3>1, <3>2, ToldIs DEF Or
  <2>3. CASE k \in {"port", "topology"}
    BY <1>1, <1>2, <2>3, ToldIs DEF Or
  <2>4. CASE k = "proto"
    BY <1>1, <2>4, ToldIs DEF Or
  <2>5. CASE k \in {"local", "cipher", "data-ciphers", "auth"}
    BY <1>1, <2>5, ToldIs
  <2>. QED
    BY <2>1, <2>2, <2>3, <2>4, <2>5 DEF Columns, Certified
<1>. QED
  BY <1>3, <1>4, ToldKept

(* A line with one word of a column, of a device, a network or a key.        *)
LEMMA WordKept ==
    ASSUME NEW c, NEW q, NEW i, NEW f, NEW fold, AdoptedSo(c, q, i, f, fold),
           NEW m, Latest(c, Len(c), m), c[m] \in LineSet(c),
           c[m].k \in (Columns \ {"device", "dev-type"}) \cup {"dev", "server", "secret"},
           c[m].k \in {"port", "topology"} => q.role # "client",
           c[m].k = "tls-auth" => Len(c[m].v) = 1
    PROVE  Value(f, c[m].k) = c[m].v
<1>. DEFINE d == c[m]
            w == d.v[1]
<1>1. PlainLine(d) /\ IsDirective(d) /\ Named(c, d.k)
  BY PlainLines, NamedByLine DEF AdoptedSo
<1>2. d.v = <<w>> /\ w # Unset
  <2>1. CASE d.k = "tls-auth"
    <3>1. Len(d.v) = 1
      BY <2>1
    <3>2. \A n \in 1..Len(d.v) : d.v[n] # Unset
      BY <1>1, <2>1 DEF PlainLine
    <3>3. d.v = <<w>>
      BY <1>1, <3>1, OneWordOf DEF IsDirective
    <3>4. 1 \in 1..1
      OBVIOUS
    <3>. QED
      BY <3>1, <3>2, <3>3, <3>4
  <2>2. CASE d.k # "tls-auth"
    <3>1. d.k \in OneWord
      BY <2>2 DEF OneWord
    <3>. QED
      BY <1>1, <3>1, WordOf
  <2>. QED
    BY <2>1, <2>2
<1>3. AsksColumns(c, q) /\ RowAs(q, i) /\ RoleSo(c, q)
  BY DEF AdoptedSo
<1>4. CASE d.k \in Columns \ {"device", "dev-type", "dh"}
  <2>1. OwnColumn(c, d.k)
    <3>1. d.k = "port" => ~Named(c, "lport")
      BY <1>1, <1>3 DEF RoleSo
    <3>2. d.k = "tls-auth" => ~Named(c, "secret")
      BY <1>1, NotStatic DEF Certified
    <3>. QED
      BY <1>4, <3>1, <3>2 DEF OwnColumn
  <2>2. q.col[d.k] = w
    BY <1>3, <2>1 DEF AsksColumns
  <2>3. Value(f, d.k) = <<w>>
    <3>. HIDE DEF d, w
    <3>1. d.k \in {"port", "topology"} => q.role # "client"
      BY DEF d
    <3>. QED
      BY <1>1, <1>2, <1>4, <2>2, <3>1, ColumnKept
  <2>. QED
    BY <1>2, <2>3
<1>5. CASE d.k = "dh"
  <2>1. q.col["dh"] = IF w = "none" THEN Unset ELSE w
    BY <1>3, <1>5 DEF AsksColumns
  <2>2. CASE w # "none"
    <3>1. q.col["dh"] = w
      BY <2>1, <2>2
    <3>2. Named(c, "dh")
      BY <1>1, <1>5
    <3>. HIDE DEF w, d
    <3>3. Value(f, "dh") = <<w>>
      BY <1>2, <3>1, <3>2, ColumnKept DEF Columns
    <3>. QED
      BY <1>2, <1>5, <3>3 DEF d
  <2>3. CASE w = "none"
    <3>1. i.col["dh"] = Unset
      BY <1>3, <2>1, <2>3 DEF RowAs
    <3>2. ~i.static
      BY <1>1, <1>5, NotStatic
    <3>3. i.role = "server"
      BY <1>1, <1>3, <1>5 DEF RoleSo, RowAs
    <3>4. Told(i, "dh") = w
      BY <2>3, <3>1, <3>2, <3>3, ToldIs DEF Or
    <3>. HIDE DEF w, d
    <3>5. Value(f, "dh") = <<w>>
      BY <1>2, <3>4, ToldKept DEF ToldKeys
    <3>. QED
      BY <1>2, <1>5, <3>5 DEF d
  <2>. QED
    BY <2>2, <2>3
<1>6. CASE d.k = "dev"
  <2>1. IF w \in DevTypes THEN q.col["dev-type"] = w /\ q.col["device"] = Unset
        ELSE q.col["device"] = w
    BY <1>3, <1>6 DEF AsksColumns
  <2>2. i.col["device"] = q.col["device"] /\ i.col["dev-type"] = Or(q.col["dev-type"], "tun")
    BY <1>3 DEF RowAs
  <2>. HIDE DEF w, d
  <2>3. Told(i, "dev") = w
    BY <1>2, <2>1, <2>2, ToldIs DEF Or
  <2>4. Value(f, "dev") = <<w>>
    BY <1>2, <2>3, ToldKept DEF ToldKeys
  <2>. QED
    BY <1>2, <1>6, <2>4 DEF d
<1>7. CASE d.k = "server"
  <2>1. q.network = w
    BY <1>3, <1>7 DEF AsksColumns
  <2>2. q.role = "server" /\ i.role = "server" /\ i.network = Or(q.network, "net-auto")
    BY <1>2, <1>3, <2>1 DEF RoleSo, RowAs
  <2>. HIDE DEF w, d
  <2>3. Told(i, "server") = w
    BY <1>2, <2>1, <2>2, ToldIs DEF Or
  <2>4. Value(f, "server") = <<w>>
    BY <1>2, <2>3, ToldKept DEF ToldKeys
  <2>. QED
    BY <1>2, <1>7, <2>4 DEF d
<1>8. CASE d.k = "secret"
  <2>1. q.col["tls-auth"] = w
    BY <1>3, <1>8 DEF AsksColumns
  <2>2. q.static
    BY <1>1, <1>8 DEF AdoptedSo, AsksStatic
  <2>3. i.static /\ i.col["tls-auth"] = w
    BY <1>3, <2>1, <2>2 DEF RowAs
  <2>. HIDE DEF w, d
  <2>4. Told(i, "secret") = w
    BY <2>3, ToldIs
  <2>5. Value(f, "secret") = <<w>>
    BY <1>2, <2>4, ToldKept DEF ToldKeys
  <2>. QED
    BY <1>2, <1>8, <2>5 DEF d
<1>. QED
  BY <1>4, <1>5, <1>6, <1>7, <1>8

(* The words of a folded column, in the extra directives.                    *)
LEMMA FoldedKept ==
    ASSUME NEW c, NEW q, NEW i, NEW f, NEW fold, AdoptedSo(c, q, i, f, fold),
           NEW m, Latest(c, Len(c), m), c[m] \in LineSet(c), c[m].k \in Folded
    PROVE  \/ Value(f, c[m].k) = c[m].v
           \/ c[m].k \in Numbers /\ c[m].v = <<"0">> /\ Value(f, c[m].k) = Unset
<1>. DEFINE k == c[m].k
            w == c[m].v[1]
            X == LineSet(q.extra)
<1>1. PlainLine(c[m]) /\ IsDirective(c[m]) /\ k \in OneWord
  BY PlainLines DEF AdoptedSo, OneWord
<1>2. c[m].v = <<w>> /\ w # Unset
  BY <1>1, WordOf
<1>3. /\ fold[k] = w /\ FoldedLines(fold) \subseteq X
      /\ \A d \in X : \/ d \in LineSet(c) /\ OwnRest(d)
                      \/ \E b \in LineSet(c) : b.k = "<>" /\ b.v[1] \in LineTags /\ d = BlockLine(b)
                      \/ d \in FoldedLines(fold)
  BY DEF AdoptedSo, AsksExtra
<1>4. k \in Folded
  OBVIOUS
<1>5. FileSo(i, f, X)
  BY DEF AdoptedSo
<1>. HIDE DEF k, w, X
<1>6. ASSUME NEW d \in X, d.k = k PROVE d \in FoldedLines(fold)
  <2>1. ~OwnRest(d)
    BY <1>4, <1>6 DEF OwnRest, IsRest, WordKeys, KeptPush, Folded
  <2>2. ~\E b \in LineSet(c) : b.k = "<>" /\ b.v[1] \in LineTags /\ d = BlockLine(b)
    BY <1>4, <1>6 DEF LineTags, BlockLine, D, Folded
  <2>. QED
    BY <1>3, <2>1, <2>2
<1>7. ASSUME NEW d \in LineSet(f), d.k = k PROVE d \in FoldedLines(fold)
  <2>1. k \notin ToldKeys /\ k \notin {"plugin", "remote", "push"} \cup FixedKeys
    BY <1>4 DEF Folded, ToldKeys, Certified, FixedKeys, OwnedKeys
  <2>2. d \in X
    BY <1>5, <1>7, <2>1 DEF FileSo, ToldLine
  <2>. QED
    BY <1>6, <1>7, <2>2
<1>8. ASSUME NEW d \in FoldedLines(fold), d.k = k PROVE Written(fold, k) /\ d.v = <<w>>
  <2>1. PICK l \in Folded : Written(fold, l) /\ d = D(l, <<fold[l]>>)
    BY DEF FoldedLines
  <2>2. d.k = l /\ d.v = <<fold[l]>>
    BY <2>1 DEF D
  <2>. QED
    BY <1>3, <1>8, <2>1, <2>2
<1>9. CASE Written(fold, k)
  <2>. DEFINE d == D(k, <<w>>)
  <2>1. d \in FoldedLines(fold) /\ d.k = k
    BY <1>3, <1>4, <1>9 DEF FoldedLines, D
  <2>2. d \in LineSet(f)
    BY <1>3, <1>5, <2>1 DEF FileSo
  <2>. HIDE DEF d
  <2>. DEFINE v == <<w>>
  <2>3. ASeq(f) /\ \A e \in LineSet(f) : e.k = d.k => e.v = v
    BY <1>5, <1>7, <1>8, <2>1 DEF FileSo
  <2>. HIDE DEF v
  <2>4. Value(f, d.k) = v
    BY <2>2, <2>3, OnlyValue
  <2>. QED
    BY <1>2, <2>1, <2>4 DEF k, v
<1>10. CASE ~Written(fold, k)
  <2>1. k \in Numbers /\ w = "0"
    BY <1>2, <1>3, <1>10 DEF Written
  <2>2. \A d \in LineSet(f) : d.k # k
    BY <1>7, <1>8, <1>10
  <2>3. Value(f, k) = Unset
    BY <2>2, NoLineNoValue
  <2>. QED
    BY <1>2, <2>1, <2>3 DEF k
<1>. QED
  BY <1>9, <1>10

(* What an import has no place for stays as it is.                           *)
LEMMA RestKept ==
    ASSUME NEW c, NEW q, NEW i, NEW f, NEW fold, AdoptedSo(c, q, i, f, fold),
           NEW m, Latest(c, Len(c), m), c[m] \in LineSet(c), IsRest(c[m].k)
    PROVE  Value(f, c[m].k) = c[m].v
<1>1. Value(q.extra, c[m].k) = c[m].v /\ c[m] \in LineSet(q.extra)
  BY DEF AdoptedSo, AsksExtra
<1>2. c[m].k \in Keywords(q.extra) /\ i.extra = q.extra
  BY <1>1 DEF LineSet, Keywords, AdoptedSo, RowAs
<1>. QED
  BY <1>1, <1>2 DEF AdoptedSo, FileSo

LEMMA SaidByLine ==
    ASSUME NEW f, ASeq(f), NEW d \in LineSet(f)
    PROVE  Normal(d) \in Said(f, d.k)
BY DEF Said, Lines, LineSet

LEMMA TwoWordsOf ==
    ASSUME NEW v, ASeq(v), Len(v) = 2
    PROVE  v = <<v[1], v[2]>>
<1>1. PICK S : v \in Seq(S)
  BY DEF ASeq
<1>2. v \in [1..2 -> S]
  <2>1. \A u \in Seq(S) : u \in [1..Len(u) -> S]
    OBVIOUS
  <2>2. v \in [1..Len(v) -> S]
    BY <1>1, <2>1
  <2>. QED
    BY <2>2
<1>3. v[1] \in S /\ v[2] \in S
  BY <1>2
<1>. DEFINE t == <<v[1], v[2]>>
<1>4. t \in [1..2 -> S] /\ t[1] = v[1] /\ t[2] = v[2]
  BY <1>3
<1>. HIDE DEF t
<1>5. \A j \in 1..2 : v[j] = t[j]
  BY <1>4
<1>. QED
  BY <1>2, <1>4, <1>5 DEF t

LEMMA ThreeWordsOf ==
    ASSUME NEW v, ASeq(v), Len(v) = 3
    PROVE  v = <<v[1], v[2], v[3]>>
<1>1. PICK S : v \in Seq(S)
  BY DEF ASeq
<1>2. v \in [1..3 -> S]
  <2>1. \A u \in Seq(S) : u \in [1..Len(u) -> S]
    OBVIOUS
  <2>2. v \in [1..Len(v) -> S]
    BY <1>1, <2>1
  <2>. QED
    BY <2>2
<1>3. v[1] \in S /\ v[2] \in S /\ v[3] \in S
  BY <1>2
<1>. DEFINE t == <<v[1], v[2], v[3]>>
<1>4. t \in [1..3 -> S] /\ t[1] = v[1] /\ t[2] = v[2] /\ t[3] = v[3]
  BY <1>3
<1>. HIDE DEF t
<1>5. \A j \in 1..3 : v[j] = t[j]
  BY <1>4
<1>. QED
  BY <1>2, <1>4, <1>5 DEF t

LEMMA AppendedWord ==
    ASSUME NEW x, NEW y
    PROVE  Append(<<x>>, y) = <<x, y>>
<1>. DEFINE s == <<x>>
            t == Append(s, y)
<1>1. s \in Seq({x, y}) /\ Len(s) = 1 /\ s[1] = x
  OBVIOUS
<1>. HIDE DEF s
<1>2. t \in Seq({x, y}) /\ Len(t) = 2 /\ t[1] = x /\ t[2] = y
  <2>1. \A u \in Seq({x, y}) :
          LET a == Append(u, y) IN
          /\ a \in Seq({x, y}) /\ Len(a) = Len(u) + 1 /\ a[Len(u) + 1] = y
          /\ \A j \in 1..Len(u) : a[j] = u[j]
    OBVIOUS
  <2>2. /\ t \in Seq({x, y}) /\ Len(t) = Len(s) + 1 /\ t[Len(s) + 1] = y
        /\ \A j \in 1..Len(s) : t[j] = s[j]
    BY <1>1, <2>1
  <2>. HIDE DEF t
  <2>. QED
    BY <1>1, <2>2
<1>. HIDE DEF t
<1>3. t = <<t[1], t[2]>>
  BY <1>2, TwoWordsOf DEF ASeq
<1>. QED
  BY <1>2, <1>3 DEF s, t

(* A remote is written as it was read, its port spelt out.                   *)
LEMMA RemoteKept ==
    ASSUME NEW c, NEW q, NEW i, NEW f, NEW fold, AdoptedSo(c, q, i, f, fold),
           NEW d \in LineSet(c), d.k = "remote"
    PROVE  Normal(d) \in Said(f, d.k)
<1>1. PlainLine(d) /\ IsDirective(d) /\ Named(c, "remote")
  BY PlainLines, NamedByLine DEF AdoptedSo
<1>. DEFINE r == RemoteOf(d.v)
            e == RemoteLine(r)
<1>2. Len(d.v) \in 1..3 /\ \A n \in 1..Len(d.v) : d.v[n] # Unset
  BY <1>1 DEF PlainLine
<1>3. r \in LineSet(q.remotes)
  BY DEF AdoptedSo, AsksLists
<1>4. i.remotes = q.remotes /\ i.role # "server"
  BY <1>1 DEF AdoptedSo, RoleSo, RowAs
<1>5. RemoteLines(i) \subseteq LineSet(f) /\ ASeq(f)
  BY <1>4 DEF AdoptedSo, FileSo
<1>6. e \in LineSet(f)
  <2>. HIDE DEF r
  <2>. QED
    BY <1>3, <1>4, <1>5 DEF RemoteLines, LineSet
<1>7. /\ r.host = d.v[1] /\ r.port = IF Len(d.v) > 1 THEN d.v[2] ELSE "1194"
      /\ r.proto = IF Len(d.v) > 2 THEN d.v[3] ELSE Unset
  BY DEF RemoteOf
<1>. HIDE DEF r
<1>8. e.k = "remote" /\ e.v = IF r.proto = Unset THEN <<r.host, r.port>>
                              ELSE <<r.host, r.port, r.proto>>
  BY DEF RemoteLine, D
<1>9. e = D("remote", e.v)
  BY <1>8 DEF RemoteLine, D
<1>10. ASeq(d.v) /\ d = D("remote", d.v)
  BY <1>1 DEF IsDirective
<1>11. Len(e.v) # 1
  BY <1>8
<1>. HIDE DEF e
<1>12. Normal(e) = e
  BY <1>11 DEF Normal
<1>13. CASE Len(d.v) = 1
  <2>1. d.v = <<d.v[1]>>
    BY <1>10, <1>13, OneWordOf
  <2>2. e.v = <<d.v[1], "1194">>
    BY <1>7, <1>8, <1>13
  <2>3. \A x : Append(<<x>>, "1194") = <<x, "1194">>
    BY AppendedWord
  <2>4. Append(d.v, "1194") = <<d.v[1], "1194">>
    BY <2>1, <2>3
  <2>5. Normal(d) = e
    BY <1>9, <1>10, <1>13, <2>2, <2>4 DEF Normal
  <2>. QED
    BY <1>5, <1>6, <1>8, <1>12, <2>5, SaidByLine
<1>14. CASE Len(d.v) = 2
  <2>1. d.v = <<d.v[1], d.v[2]>>
    BY <1>10, <1>14, TwoWordsOf
  <2>2. e.v = <<d.v[1], d.v[2]>>
    BY <1>7, <1>8, <1>14
  <2>3. Normal(d) = d /\ d = e
    BY <1>9, <1>10, <1>14, <2>1, <2>2 DEF Normal
  <2>. QED
    BY <1>5, <1>6, <1>8, <1>12, <2>3, SaidByLine
<1>15. CASE Len(d.v) = 3
  <2>1. d.v = <<d.v[1], d.v[2], d.v[3]>>
    BY <1>10, <1>15, ThreeWordsOf
  <2>2. d.v[3] # Unset
    BY <1>2, <1>15
  <2>3. e.v = <<d.v[1], d.v[2], d.v[3]>>
    BY <1>7, <1>8, <1>15, <2>2
  <2>4. Normal(d) = d /\ d = e
    BY <1>9, <1>10, <1>15, <2>1, <2>3 DEF Normal
  <2>. QED
    BY <1>5, <1>6, <1>8, <1>12, <2>4, SaidByLine
<1>. QED
  BY <1>2, <1>13, <1>14, <1>15

(* Lines that count each for itself.                                         *)
LEMMA RepeatedKept ==
    ASSUME NEW c, NEW q, NEW i, NEW f, NEW fold, AdoptedSo(c, q, i, f, fold),
           NEW d \in LineSet(c), d.k \in Repeated, ~Lost(d, i)
    PROVE  Normal(d) \in Said(f, d.k)
<1>1. PlainLine(d) /\ IsDirective(d)
  BY PlainLines DEF AdoptedSo
<1>2. CASE d.k = "remote"
  BY <1>2, RemoteKept
<1>3. ASSUME d \in LineSet(f) PROVE Normal(d) \in Said(f, d.k)
  BY <1>3, SaidByLine DEF AdoptedSo, FileSo
<1>4. LineSet(q.extra) \subseteq LineSet(f) /\ LineSet(q.plugins) \subseteq LineSet(f)
  BY DEF AdoptedSo, FileSo, RowAs
<1>5. CASE d.k = "plugin"
  BY <1>3, <1>4, <1>5 DEF AdoptedSo, AsksLists
<1>6. CASE d.k \in {"route", "setenv"}
  <2>1. IsRest(d.k)
    BY <1>6 DEF IsRest, Ignored, RoleKeys, WordKeys, Columns, Folded
  <2>. QED
    BY <1>3, <1>4, <2>1 DEF AdoptedSo, AsksExtra
<1>7. CASE d.k = "push"
  <2>1. d.v[1] \notin {"DOMAIN-SEARCH", "DOMAIN", "redirect-gateway"}
    BY <1>7 DEF Lost
  <2>2. CASE KeptPush(d)
    BY <1>3, <1>4, <2>2 DEF AdoptedSo, AsksExtra
  <2>3. CASE Pushed(d)
    <3>1. d = D("push", <<d.v[1], d.v[2]>>)
      <4>1. Len(d.v) = 2
        BY <1>1, <2>3 DEF PlainLine
      <4>2. d.v = <<d.v[1], d.v[2]>>
        BY <1>1, <4>1, TwoWordsOf DEF IsDirective
      <4>. QED
        BY <1>1, <1>7, <4>2 DEF IsDirective
    <3>2. i.role = "server" /\ i.dns = q.dns /\ i.routes = q.routes
      BY <2>3 DEF AdoptedSo, RoleSo, RowAs
    <3>3. PushLines(i) \subseteq LineSet(f)
      BY <3>2 DEF AdoptedSo, FileSo
    <3>4. d \in PushLines(i)
      <4>1. CASE d.v[1] = "DNS"
        <5>1. d.v[2] \in LineSet(i.dns)
          BY <1>7, <3>2, <4>1 DEF AdoptedSo, AsksLists
        <5>2. PICK j \in DOMAIN i.dns : i.dns[j] = d.v[2]
          BY <5>1 DEF LineSet
        <5>3. d = D("push", <<"DNS", i.dns[j]>>)
          BY <3>1, <4>1, <5>2
        <5>. QED
          BY <5>3 DEF PushLines
      <4>2. CASE d.v[1] = "route"
        <5>1. d.v[2] \in LineSet(i.routes)
          BY <1>7, <3>2, <4>2 DEF AdoptedSo, AsksLists
        <5>2. PICK j \in DOMAIN i.routes : i.routes[j] = d.v[2]
          BY <5>1 DEF LineSet
        <5>3. d = D("push", <<"route", i.routes[j]>>)
          BY <3>1, <4>2, <5>2
        <5>. QED
          BY <5>3 DEF PushLines
      <4>. QED
        BY <2>3, <4>1, <4>2 DEF Pushed
    <3>. QED
      BY <1>3, <3>3, <3>4
  <2>. QED
    BY <1>7, <2>1, <2>2, <2>3 DEF KeptPush, Pushed
<1>. QED
  BY <1>2, <1>5, <1>6, <1>7 DEF Repeated

(* A line that is not lost is said by the file.                              *)
LEMMA LineIsKept ==
    ASSUME NEW c, NEW q, NEW i, NEW f, NEW fold, AdoptedSo(c, q, i, f, fold),
           NEW d \in LineSet(c), ~Lost(d, i)
    PROVE  SaidIn(c, f, d)
<1>1. CASE d.k \in Repeated
  BY <1>1, RepeatedKept DEF SaidIn
<1>2. CASE d.k \notin Repeated
  <2>1. PICK m : /\ Latest(c, Len(c), m) /\ c[m].k = d.k /\ c[m] \in LineSet(c)
                 /\ Value(c, d.k) = c[m].v
    BY CountingLine DEF AdoptedSo
  <2>2. CASE d.k \in Folded
    <3>1. \/ Value(f, d.k) = c[m].v
          \/ d.k \in Numbers /\ c[m].v = <<"0">> /\ Value(f, d.k) = Unset
      BY <2>1, <2>2, FoldedKept
    <3>. QED
      BY <1>2, <2>1, <3>1 DEF SaidIn
  <2>3. CASE IsRest(d.k)
    <3>1. Value(f, d.k) = c[m].v
      BY <2>1, <2>3, RestKept
    <3>. QED
      BY <1>2, <2>1, <3>1 DEF SaidIn
  <2>4. CASE d.k \in (Columns \ {"device", "dev-type"}) \cup {"dev", "server", "secret"}
    <3>1. d.k \in {"port", "topology"} => q.role # "client"
      BY DEF Lost, AdoptedSo, RowAs
    <3>2. d.k = "tls-auth" => Len(c[m].v) = 1
      <4>. SUFFICES ASSUME d.k = "tls-auth" PROVE Len(c[m].v) = 1
        OBVIOUS
      <4>1. PlainLine(d) /\ IsDirective(d) /\ PlainPair(d, c[m])
        BY <2>1, PlainLines DEF AdoptedSo
      <4>2. Len(d.v) > 0 /\ ~(Len(d.v) > 1) /\ Len(d.v) \in Nat
        BY <4>1, Joined DEF PlainLine, Lost, IsDirective
      <4>3. \A x \in Nat : x > 0 /\ ~(x > 1) => x = 1
        OBVIOUS
      <4>4. Len(d.v) = 1
        BY <4>2, <4>3
      <4>. QED
        BY <2>1, <4>1, <4>4 DEF PlainPair
    <3>3. Value(f, c[m].k) = c[m].v
      BY <2>1, <2>4, <3>1, <3>2, WordKept
    <3>. QED
      BY <1>2, <2>1, <3>3 DEF SaidIn
  <2>5. d.k \notin Ignored \cup {"client", "mode", "tls-server", "tls-client", "dev-type", "lport",
                                 "redirect-gateway", "<>"}
    BY DEF Lost
  <2>. QED
    BY <1>2, <2>2, <2>3, <2>4, <2>5 DEF Repeated, IsRest, RoleKeys, WordKeys
<1>. QED
  BY <1>1, <1>2

(* A block is said by the file under the keyword of its tag.                 *)
LEMMA BlockIsKept ==
    ASSUME NEW c, NEW q, NEW i, NEW f, NEW fold, AdoptedSo(c, q, i, f, fold),
           NEW d \in LineSet(c), d.k = "<>"
    PROVE  Value(f, d.v[1]) = <<d.v[2]>>
<1>. DEFINE k == d.v[1]
            w == d.v[2]
<1>1. PlainLine(d) /\ Named(c, k)
  BY PlainLines, NamedByLine DEF AdoptedSo
<1>2. Len(d.v) = 2 /\ k \in InlineTags /\ \A n \in 1..Len(d.v) : d.v[n] # Unset
  BY <1>1 DEF PlainLine
<1>3. w # Unset
  BY <1>2
<1>4. CASE k \in ColumnTags
  <2>1. q.col[k] = w
    BY <1>4 DEF AdoptedSo, AsksColumns
  <2>2. k \in Columns \ {"device", "dev-type"} /\ k \notin {"port", "topology"}
    BY <1>4 DEF ColumnTags, Columns
  <2>. HIDE DEF k, w
  <2>3. Value(f, k) = <<w>>
    BY <1>1, <1>3, <2>1, <2>2, ColumnKept
  <2>. QED
    BY <2>3 DEF k, w
<1>5. CASE k = "secret"
  <2>1. q.col["tls-auth"] = w /\ q.static
    BY <1>1, <1>5 DEF AdoptedSo, AsksColumns, AsksStatic
  <2>2. i.static /\ i.col["tls-auth"] = w
    BY <2>1 DEF AdoptedSo, RowAs
  <2>3. Told(i, "secret") = w
    BY <2>2, ToldIs
  <2>. HIDE DEF k, w
  <2>4. Value(f, "secret") = <<w>>
    BY <1>3, <2>3, ToldKept DEF ToldKeys
  <2>. QED
    BY <1>5, <2>4 DEF k, w
<1>6. CASE k \in LineTags
  <2>. DEFINE e == BlockLine(d)
              X == LineSet(q.extra)
  <2>1. e \in X
    BY <1>6 DEF AdoptedSo, AsksExtra
  <2>2. FileSo(i, f, X)
    BY DEF AdoptedSo
  <2>3. e.k = k /\ e.v = <<w>>
    BY DEF BlockLine, D
  <2>4. ASSUME NEW x \in LineSet(c) PROVE x.k # k
    <3>1. PlainPair(d, x)
      BY PlainLines DEF AdoptedSo
    <3>. QED
      BY <1>6, <3>1 DEF PlainPair, LineTags
  <2>5. ASSUME NEW b \in LineSet(c), b.k = "<>", b.v[1] = k PROVE b.v[2] = w
    <3>1. PlainPair(d, b)
      BY PlainLines DEF AdoptedSo
    <3>. QED
      BY <2>5, <3>1 DEF PlainPair
  <2>6. \A x \in X : \/ x \in LineSet(c)
                     \/ \E b \in LineSet(c) : b.k = "<>" /\ x = BlockLine(b)
                     \/ x \in FoldedLines(fold)
    BY DEF AdoptedSo, AsksExtra
  <2>. HIDE DEF k, w, e, X
  <2>7. ASSUME NEW x \in X, x.k = k PROVE x.v = <<w>>
    <3>1. x \notin LineSet(c)
      BY <2>4, <2>7
    <3>2. x \notin FoldedLines(fold)
      BY <1>6, <2>7 DEF FoldedLines, D, Folded, LineTags
    <3>3. PICK b \in LineSet(c) : b.k = "<>" /\ x = BlockLine(b)
      BY <2>6, <3>1, <3>2
    <3>4. x.k = b.v[1] /\ x.v = <<b.v[2]>>
      BY <3>3 DEF BlockLine, D
    <3>. QED
      BY <2>5, <2>7, <3>3, <3>4
  <2>8. ASSUME NEW x \in LineSet(f), x.k = k PROVE x.v = <<w>>
    <3>1. k \notin ToldKeys /\ k \notin {"plugin", "remote", "push"} \cup FixedKeys
      BY <1>6 DEF LineTags, ToldKeys, Certified, FixedKeys, OwnedKeys
    <3>2. x \in X
      BY <2>2, <2>8, <3>1 DEF FileSo, ToldLine
    <3>. QED
      BY <2>7, <2>8, <3>2
  <2>9. ASeq(f) /\ e \in LineSet(f)
    BY <2>1, <2>2 DEF FileSo
  <2>. DEFINE v == <<w>>
  <2>10. \A x \in LineSet(f) : x.k = e.k => x.v = v
    BY <2>3, <2>8
  <2>. HIDE DEF v
  <2>11. Value(f, e.k) = v
    BY <2>9, <2>10, OnlyValue
  <2>. QED
    BY <2>3, <2>11 DEF k, w, v
<1>. QED
  BY <1>2, <1>4, <1>5, <1>6 DEF InlineTags, ColumnTags, LineTags

(* All of it, of one adoption.                                               *)
LEMMA Kept1 ==
    ASSUME NEW c, AllDirectives(c), Plain(c), ~Rejected(Imported(c))
    PROVE  LET i == Prepared(Imported(c))
               f == RenderInstance(i) IN
           /\ \A d \in LineSet(c) : ~Lost(d, i) => SaidIn(c, f, d)
           /\ \A d \in LineSet(c) : d.k = "<>" => Value(f, d.v[1]) = <<d.v[2]>>
<1>. DEFINE q == Imported(c)
            i == Prepared(q)
            f == RenderInstance(i)
<1>1. /\ ResultShape(q) /\ AsksColumns(c, q) /\ AsksLists(c, q) /\ AsksStatic(c, q)
      /\ \E fold : AsksExtra(c, q, fold)
  BY Asked
<1>2. RoleSo(c, q)
  BY RoleOf
<1>3. ~Rejected(q)
  OBVIOUS
<1>. HIDE DEF q
<1>4. RowAs(q, i) /\ FileSo(i, f, LineSet(q.extra))
  BY <1>1, <1>3, PreparedAs, PreparedFile
<1>5. PICK fold : AsksExtra(c, q, fold)
  BY <1>1
<1>. HIDE DEF i, f
<1>6. AdoptedSo(c, q, i, f, fold)
  BY <1>1, <1>2, <1>4, <1>5 DEF AdoptedSo
<1>7. /\ \A d \in LineSet(c) : ~Lost(d, i) => SaidIn(c, f, d)
      /\ \A d \in LineSet(c) : d.k = "<>" => Value(f, d.v[1]) = <<d.v[2]>>
  BY <1>6, LineIsKept, BlockIsKept
<1>. QED
  BY <1>7 DEF q, i, f

------------------------------------------------------------------------------
(* Rows whose files are plain again                                          *)

PlainRow(i) ==
    /\ \A d \in LineSet(i.extra) \cup LineSet(i.features) : OwnLine(d) /\ IsDirective(d)
    /\ \A d \in LineSet(i.plugins) : IsDirective(d)
    /\ \A r \in LineSet(i.remotes) : r.host # Unset /\ r.port # Unset
    /\ i.col["device"] \notin DevTypes
    /\ i.role = "server" /\ ~i.static => i.col["cert"] # Unset \/ i.col["key"] # Unset

LEMMA FoldedIsPlain ==
    ASSUME NEW fold, NEW d \in FoldedLines(fold)
    PROVE  d.k \in Folded /\ IsDirective(d) /\ PlainLine(d)
<1>1. PICK k \in Folded : Written(fold, k) /\ d = D(k, <<fold[k]>>)
  BY DEF FoldedLines
<1>2. d \in OneArg(k, fold[k]) /\ fold[k] # Unset
  BY <1>1 DEF OneArg, Written
<1>. DEFINE w == fold[k]
<1>. HIDE DEF w
<1>3. d.k = k /\ d.v = <<w>> /\ d.v[1] # Unset /\ IsDirective(d)
  <2>1. d \in OneArg(k, w) /\ w # Unset
    BY <1>2 DEF w
  <2>2. d.k = k /\ d.v = <<w>> /\ IsDirective(d)
    BY <2>1, OfOneArg
  <2>. QED
    BY <2>1, <2>2
<1>4. Len(d.v) = 1
  BY <1>3
<1>5. PlainLine(d)
  <2>1. \A n \in 1..Len(d.v) : d.v[n] # Unset
    BY <1>3, <1>4
  <2>. QED
    BY <1>3, <1>4, <2>1 DEF PlainLine, Folded, Pushed
<1>. QED
  BY <1>1, <1>3, <1>5

(* The row of an adopted plain configuration is one.                         *)
LEMMA PreparedIsPlain ==
    ASSUME NEW c, AllDirectives(c), Plain(c), ~Rejected(Imported(c))
    PROVE  PlainRow(Prepared(Imported(c)))
<1>. DEFINE q == Imported(c)
            i == Prepared(q)
<1>1. /\ ResultShape(q) /\ AsksColumns(c, q) /\ AsksLists(c, q)
      /\ \E fold : AsksExtra(c, q, fold)
  BY Asked
<1>2. ~Rejected(q)
  OBVIOUS
<1>. HIDE DEF q
<1>3. RowAs(q, i)
  BY <1>1, <1>2, PreparedAs
<1>. HIDE DEF i
<1>4. PICK fold : AsksExtra(c, q, fold)
  BY <1>1
<1>5. \A d \in LineSet(c) : PlainLine(d) /\ IsDirective(d)
  BY PlainLines
<1>6. ASSUME NEW d \in LineSet(q.extra) PROVE OwnLine(d) /\ IsDirective(d)
  <2>1. d.k \notin ToldKeys \cup {"remote", "plugin", "<>", "lport"} /\ ~Pushed(d)
    BY <1>4, ExtraElsewhere
  <2>2. d.k \notin Elsewhere
    <3>1. Elsewhere \subseteq ToldKeys \cup {"remote", "plugin", "<>", "lport"}
      BY DEF Elsewhere, ToldKeys, Certified, Columns
    <3>. QED
      BY <2>1, <3>1
  <2>3. PlainLine(d) /\ IsDirective(d)
    <3>1. CASE d \in LineSet(c)
      BY <1>5, <3>1
    <3>2. CASE \E b \in LineSet(c) : b.k = "<>" /\ b.v[1] \in LineTags /\ d = BlockLine(b)
      <4>1. PICK b \in LineSet(c) : b.k = "<>" /\ b.v[1] \in LineTags /\ d = BlockLine(b)
        BY <3>2
      <4>2. b.v[2] # Unset
        <5>1. Len(b.v) = 2 /\ \A n \in 1..Len(b.v) : b.v[n] # Unset
          BY <1>5, <4>1 DEF PlainLine
        <5>. QED
          BY <5>1
      <4>3. d \in OneArg(b.v[1], b.v[2])
        BY <4>1, <4>2 DEF BlockLine, OneArg
      <4>4. d.k \in LineTags /\ IsDirective(d)
        <5>. DEFINE k == b.v[1]
                    w == b.v[2]
        <5>1. d \in OneArg(k, w) /\ k \in LineTags
          BY <4>1, <4>3
        <5>. HIDE DEF k, w
        <5>2. d.k = k /\ IsDirective(d)
          BY <5>1, OfOneArg
        <5>. QED
          BY <5>1, <5>2
      <4>. QED
        BY <4>4 DEF LineTags, PlainLine, OneWord, Columns, Folded, Pushed
    <3>3. CASE d \in FoldedLines(fold)
      BY <3>3, FoldedIsPlain
    <3>. QED
      BY <1>4, <3>1, <3>2, <3>3 DEF AsksExtra
  <2>. QED
    BY <2>1, <2>2, <2>3 DEF OwnLine
<1>7. \A d \in LineSet(i.extra) \cup LineSet(i.features) : OwnLine(d) /\ IsDirective(d)
  <2>1. i.extra = q.extra /\ LineSet(i.features) = {}
    BY <1>3, SetOfNone DEF RowAs
  <2>. QED
    BY <1>6, <2>1
<1>8. \A d \in LineSet(i.plugins) : IsDirective(d)
  BY <1>1, <1>3, <1>5 DEF AsksLists, RowAs
<1>9. ASSUME NEW r \in LineSet(i.remotes) PROVE r.host # Unset /\ r.port # Unset
  <2>1. PICK d \in LineSet(c) : d.k = "remote" /\ r = RemoteOf(d.v)
    BY <1>1, <1>3 DEF AsksLists, RowAs
  <2>2. Len(d.v) \in 1..3 /\ \A n \in 1..Len(d.v) : d.v[n] # Unset
    BY <1>5, <2>1 DEF PlainLine
  <2>3. r.host = d.v[1] /\ r.port = IF Len(d.v) > 1 THEN d.v[2] ELSE "1194"
    BY <2>1 DEF RemoteOf
  <2>4. "1194" # Unset
    BY ConfAssumption
  <2>. QED
    BY <2>2, <2>3, <2>4
<1>10. i.col["device"] \notin DevTypes
  BY <1>1, <1>3 DEF AsksColumns, RowAs
<1>11. i.role = "server" /\ ~i.static => i.col["cert"] # Unset \/ i.col["key"] # Unset
  BY <1>3 DEF RowAs
<1>12. PlainRow(i)
  BY <1>7, <1>8, <1>9, <1>10, <1>11 DEF PlainRow
<1>. QED
  BY <1>12 DEF i, q

(* The lines of the file of such a row.                                      *)
FileLine(i, d) ==
    /\ IsDirective(d) /\ PlainLine(d)
    /\ \/ ToldLine(i, d)
       \/ i.role # "server" /\ d.k = "remote"
       \/ i.role = "server" /\ d.k = "push"
       \/ d.k \notin ToldKeys \cup {"remote", "<>", "lport"} /\ ~Pushed(d)

LEMMA ToldHas ==
    ASSUME NEW i, NEW d, ToldLine(i, d)
    PROVE  /\ d.k \in ToldKeys /\ Told(i, d.k) # Unset /\ IsDirective(d)
           /\ d.v = <<Told(i, d.k)>> /\ Len(d.v) = 1 /\ d.v[1] = Told(i, d.k) /\ d.v[1] # Unset
<1>. DEFINE k == d.k
            w == Told(i, k)
<1>1. k \in ToldKeys /\ d \in OneArg(k, w)
  BY DEF ToldLine
<1>. HIDE DEF k, w, ToldKeys
<1>2. d.v = <<w>> /\ w # Unset /\ IsDirective(d)
  BY <1>1, OfOneArg
<1>3. Len(<<w>>) = 1 /\ <<w>>[1] = w
  OBVIOUS
<1>. QED
  BY <1>1, <1>2, <1>3 DEF k, w

(* What a row is told by its columns is one plain line each.                 *)
LEMMA ToldIsPlain ==
    ASSUME NEW i, NEW d, ToldLine(i, d)
    PROVE  IsDirective(d) /\ PlainLine(d)
<1>1. d.k \in ToldKeys /\ d.v[1] # Unset /\ Len(d.v) = 1 /\ IsDirective(d)
  BY ToldHas
<1>2. Len(d.v) = 1
  BY <1>1
<1>3. \A n \in 1..Len(d.v) : d.v[n] # Unset
  BY <1>1
<1>4. d.k # "remote" /\ d.k # "<>" /\ ~Pushed(d)
  BY <1>1 DEF ToldKeys, Certified, Pushed
<1>. HIDE DEF ToldKeys
<1>5. PlainLine(d)
  BY <1>2, <1>3, <1>4 DEF PlainLine
<1>. QED
  BY <1>1, <1>5

(* Every line of the file of a plain row is plain.                           *)
LEMMA FileLines ==
    ASSUME NEW i, RowShape(i), PlainRow(i), NEW d \in LineSet(RenderInstance(i))
    PROVE  FileLine(i, d)
<1>. DEFINE f == RenderInstance(i)
            Elsewhere1 == ToldKeys \cup {"remote", "<>", "lport"}
<1>1. RowParts(i) /\ Holds(f, DaemonLines(i) \cup (LineSet(i.extra) \cup LineSet(i.features)))
  BY PartsOfRows, FileHolds
<1>2. d \in DaemonLines(i) \/ d \in LineSet(i.extra) \cup LineSet(i.features)
  BY <1>1 DEF Holds
<1>3. ASSUME d.k \notin Elsewhere1 \cup OneWord, ~Pushed(d), IsDirective(d)
      PROVE  FileLine(i, d)
  <2>1. d.k # "tls-auth" /\ d.k # "remote" /\ d.k # "<>"
    BY <1>3 DEF ToldKeys, Certified
  <2>2. PlainLine(d)
    BY <1>3, <2>1 DEF PlainLine
  <2>. QED
    BY <1>3, <2>2 DEF FileLine
<1>4. CASE d \in LineSet(i.extra) \cup LineSet(i.features)
  <2>1. OwnLine(d) /\ IsDirective(d)
    BY <1>4 DEF PlainRow
  <2>2. Elsewhere1 \subseteq Elsewhere
    BY DEF Elsewhere, ToldKeys, Certified, Columns
  <2>. QED
    BY <2>1, <2>2 DEF OwnLine, FileLine
<1>5. CASE ToldLine(i, d)
  BY <1>5, ToldIsPlain DEF FileLine
<1>6. CASE d \in LineSet(i.plugins)
  <2>1. d.k = "plugin" /\ IsDirective(d)
    BY <1>1, <1>6 DEF PlainRow, RowParts, Keywords, LineSet
  <2>2. d.k \notin Elsewhere1 \cup OneWord /\ ~Pushed(d)
    BY <2>1 DEF ToldKeys, Certified, OneWord, Columns, Folded, Pushed
  <2>. QED
    BY <1>3, <2>1, <2>2
<1>7. CASE FixedLine(d)
  <2>1. d.k \in FixedKeys /\ IsDirective(d)
    BY <1>7 DEF FixedLine
  <2>2. d.k \notin Elsewhere1 \cup OneWord /\ ~Pushed(d)
    BY <2>1 DEF FixedKeys, OwnedKeys, ToldKeys, Certified, OneWord, Columns, Folded, Pushed
  <2>. QED
    BY <1>3, <2>1, <2>2
<1>8. CASE i.role = "server" /\ PushLine(d)
  <2>1. d.k = "push" /\ IsDirective(d) /\ Len(d.v) = 2
    BY <1>8 DEF PushLine
  <2>2. "push" \notin OneWord
    BY DEF OneWord, Columns, Folded
  <2>3. PlainLine(d)
    BY <2>1, <2>2 DEF PlainLine
  <2>. QED
    BY <1>8, <2>1, <2>3 DEF FileLine
<1>9. CASE i.role # "server" /\ d \in RemoteLines(i)
  <2>1. PICK j \in DOMAIN i.remotes : d = RemoteLine(i.remotes[j])
    BY <1>9 DEF RemoteLines
  <2>. DEFINE r == i.remotes[j]
  <2>2. r.host # Unset /\ r.port # Unset
    BY DEF PlainRow, LineSet
  <2>. HIDE DEF r
  <2>3. d.k = "remote" /\ d = D(d.k, d.v)
        /\ d.v = IF r.proto = Unset THEN <<r.host, r.port>> ELSE <<r.host, r.port, r.proto>>
    BY <2>1 DEF RemoteLine, D, r
  <2>4. ASeq(d.v) /\ Len(d.v) \in 1..3 /\ \A n \in 1..Len(d.v) : d.v[n] # Unset
    <3>1. CASE r.proto = Unset
      <4>. DEFINE t == <<r.host, r.port>>
      <4>1. t \in Seq({r.host, r.port}) /\ Len(t) = 2 /\ t[1] = r.host /\ t[2] = r.port
        OBVIOUS
      <4>2. d.v = t
        BY <2>3, <3>1
      <4>. HIDE DEF t
      <4>3. ASeq(t)
        BY <4>1 DEF ASeq
      <4>4. \A n \in 1..2 : t[n] # Unset
        BY <2>2, <4>1
      <4>5. Len(t) \in 1..3 /\ \A n \in 1..Len(t) : t[n] # Unset
        BY <4>1, <4>4
      <4>. QED
        BY <4>2, <4>3, <4>5
    <3>2. CASE r.proto # Unset
      <4>. DEFINE t == <<r.host, r.port, r.proto>>
      <4>1. t \in Seq({r.host, r.port, r.proto}) /\ Len(t) = 3 /\ t[1] = r.host /\ t[2] = r.port
            /\ t[3] = r.proto
        OBVIOUS
      <4>2. d.v = t
        BY <2>3, <3>2
      <4>. HIDE DEF t
      <4>3. ASeq(t)
        BY <4>1 DEF ASeq
      <4>4. \A n \in 1..3 : t[n] # Unset
        BY <2>2, <3>2, <4>1
      <4>5. Len(t) \in 1..3 /\ \A n \in 1..Len(t) : t[n] # Unset
        BY <4>1, <4>4
      <4>. QED
        BY <4>2, <4>3, <4>5
    <3>. QED
      BY <3>1, <3>2
  <2>5. "remote" \notin OneWord
    BY DEF OneWord, Columns, Folded
  <2>6. PlainLine(d)
    BY <2>3, <2>4, <2>5 DEF PlainLine, Pushed
  <2>. QED
    BY <1>9, <2>3, <2>4, <2>6 DEF FileLine, IsDirective
<1>10. CASE d \in FoldedLines(i.typed)
  <2>1. d.k \in Folded /\ IsDirective(d) /\ PlainLine(d)
    BY <1>10, FoldedIsPlain
  <2>2. d.k \notin Elsewhere1 /\ ~Pushed(d)
    BY <2>1 DEF ToldKeys, Certified, Folded, Pushed
  <2>. QED
    BY <2>1, <2>2 DEF FileLine
<1>. QED
  BY <1>2, <1>4, <1>5, <1>6, <1>7, <1>8, <1>9, <1>10, DaemonLineIs DEF DaemonLine

(* The file of a plain row is a plain configuration.                         *)
LEMMA FileIsPlain ==
    ASSUME NEW i, RowShape(i), PlainRow(i)
    PROVE  AllDirectives(RenderInstance(i)) /\ Plain(RenderInstance(i))
<1>. DEFINE f == RenderInstance(i)
            S == LineSet(f)
<1>1. RowParts(i) /\ Holds(f, DaemonLines(i) \cup (LineSet(i.extra) \cup LineSet(i.features)))
  BY PartsOfRows, FileHolds
<1>2. ASeq(f) /\ DaemonLines(i) \subseteq S
  BY <1>1 DEF Holds
<1>3. \A d \in S : FileLine(i, d)
  BY FileLines
<1>. HIDE DEF f
<1>4. AllDirectives(f)
  BY <1>2, <1>3 DEF AllDirectives, FileLine
<1>5. \A j \in DOMAIN f : f[j] \in S
  BY DEF LineSet
<1>6. \A k : Named(f, k) <=> \E d \in S : Names(d, k)
  BY DEF Named, LineSet
<1>. HIDE DEF S
<1>7. \A d \in S : d.k # "<>" /\ d.k # "lport"
  <2>1. "<>" \notin ToldKeys /\ "lport" \notin ToldKeys
    BY DEF ToldKeys, Certified
  <2>. HIDE DEF ToldKeys
  <2>. QED
    BY <1>3, <2>1 DEF FileLine, ToldLine
<1>8. \A d \in S : d.k \in ToldKeys => d.v = <<Told(i, d.k)>> /\ d.v[1] = Told(i, d.k)
                                       /\ Told(i, d.k) # Unset
  <2>. SUFFICES ASSUME NEW d \in S, d.k \in ToldKeys
                PROVE  d.v = <<Told(i, d.k)>> /\ d.v[1] = Told(i, d.k) /\ Told(i, d.k) # Unset
    OBVIOUS
  <2>1. "remote" \notin ToldKeys /\ "push" \notin ToldKeys
    BY DEF ToldKeys, Certified
  <2>2. ToldLine(i, d)
    <3>. HIDE DEF ToldKeys
    <3>. QED
      BY <1>3, <2>1 DEF FileLine
  <2>. QED
    BY <2>2, ToldHas
<1>9. \A k : Named(f, k) <=> \E d \in S : d.k = k
  BY <1>6, <1>7 DEF Names
<1>10. \A k \in ToldKeys : Named(f, k) <=> Told(i, k) # Unset
  <2>. SUFFICES ASSUME NEW k \in ToldKeys PROVE Named(f, k) <=> Told(i, k) # Unset
    OBVIOUS
  <2>1. Named(f, k) => Told(i, k) # Unset
    BY <1>8, <1>9
  <2>2. ASSUME Told(i, k) # Unset PROVE Named(f, k)
    <3>1. D(k, <<Told(i, k)>>) \in S /\ D(k, <<Told(i, k)>>).k = k
      BY <1>2, <2>2, DaemonHas DEF OneArg, D
    <3>. QED
      BY <1>9, <3>1
  <2>. QED
    BY <2>1, <2>2
<1>11. /\ {"dev", "dev-type", "secret", "dh", "ca", "cert", "key", "tls-crypt", "tls-auth"}
          \subseteq ToldKeys
       /\ {"ca", "cert", "key", "tls-crypt", "tls-auth"} \subseteq Certified
       /\ "remote" \notin ToldKeys
  BY DEF ToldKeys, Certified
<1>. HIDE DEF ToldKeys, Certified
<1>12. ASSUME NEW d \in S, NEW e \in S PROVE PlainPair(d, e)
  <2>1. \A k \in {"dev", "dh", "tls-auth"} : d.k = k /\ e.k = k => d.v = e.v
    BY <1>8, <1>11
  <2>2. d.k = "dev" /\ e.k = "dev-type" => d.v[1] \notin DevTypes
    <3>. SUFFICES ASSUME d.k = "dev", e.k = "dev-type" PROVE d.v[1] \notin DevTypes
      OBVIOUS
    <3>1. d.v[1] = Told(i, "dev") /\ Told(i, "dev-type") # Unset
      BY <1>8, <1>11
    <3>2. i.col["device"] # Unset /\ Told(i, "dev") = i.col["device"]
      BY <3>1, ToldIs
    <3>. QED
      BY <3>1, <3>2 DEF PlainRow
  <2>. QED
    BY <1>7, <2>1, <2>2 DEF PlainPair
<1>13. \/ ~Named(f, "secret")
       \/ \A k \in {"ca", "cert", "key", "dh", "tls-crypt", "tls-auth"} : ~Named(f, k)
  <2>1. CASE i.static
    <3>1. \A k \in {"ca", "cert", "key", "dh", "tls-crypt", "tls-auth"} : Told(i, k) = Unset
      BY <1>11, <2>1, ToldIs
    <3>. QED
      BY <1>10, <1>11, <3>1
  <2>2. CASE ~i.static
    BY <1>10, <1>11, <2>2, ToldIs
  <2>. QED
    BY <2>1, <2>2
<1>14. CASE i.role # "server"
  <2>1. i.role = "client" /\ i.remotes # <<>>
    BY <1>14 DEF RowShape
  <2>2. Named(f, "remote")
    <3>1. PICK T : i.remotes \in Seq(T)
      BY <1>1 DEF RowParts, ASeq
    <3>2. 1 \in DOMAIN i.remotes
      BY <2>1, <3>1
    <3>3. RemoteLine(i.remotes[1]) \in S
      BY <1>2, <1>14, <3>2, DaemonHas DEF RemoteLines
    <3>4. RemoteLine(i.remotes[1]).k = "remote"
      BY DEF RemoteLine, D
    <3>. QED
      BY <1>9, <3>3, <3>4
  <2>3. ~Named(f, "dh")
    BY <1>10, <1>11, <1>14, ToldIs
  <2>4. \A d \in S : ~Pushed(d)
    <3>. SUFFICES ASSUME NEW d \in S, d.k = "push" PROVE ~Pushed(d)
      BY DEF Pushed
    <3>1. "push" \notin ToldKeys
      BY DEF ToldKeys, Certified
    <3>. QED
      BY <1>3, <1>14, <3>1 DEF FileLine, ToldLine
  <2>. QED
    BY <1>3, <1>5, <1>12, <1>13, <1>4, <2>2, <2>3, <2>4 DEF Plain, FileLine, f
<1>15. CASE i.role = "server"
  <2>1. ~Named(f, "remote")
    <3>1. \A d \in S : d.k # "remote"
      BY <1>3, <1>11, <1>15 DEF FileLine, ToldLine
    <3>. QED
      BY <1>9, <3>1
  <2>2. ~Named(f, "lport")
    BY <1>7, <1>9
  <2>3. Named(f, "ca") => Named(f, "cert") \/ Named(f, "key")
    <3>. SUFFICES ASSUME Named(f, "ca") PROVE Named(f, "cert") \/ Named(f, "key")
      OBVIOUS
    <3>1. Told(i, "ca") # Unset
      BY <1>10, <1>11
    <3>2. ~i.static
      BY <1>11, <3>1, ToldIs
    <3>3. i.col["cert"] # Unset \/ i.col["key"] # Unset
      BY <1>15, <3>2 DEF PlainRow
    <3>4. Told(i, "cert") # Unset \/ Told(i, "key") # Unset
      BY <1>11, <3>2, <3>3, ToldIs
    <3>. QED
      BY <1>10, <1>11, <3>4
  <2>. QED
    BY <1>3, <1>5, <1>12, <1>13, <1>4, <2>1, <2>2, <2>3 DEF Plain, FileLine, f
<1>. QED
  BY <1>4, <1>14, <1>15 DEF f

------------------------------------------------------------------------------
(* What there is to adopt is plain wherever it comes from, so is a row, and  *)
(* until a row is changed it is what the import made of its configuration.   *)
ConfSays == conf # NoConf => AllDirectives(conf) /\ (Plain(conf) \/ Rejected(Imported(conf)))
RowSays == row # NoRow => PlainRow(row)
RowOfConf ==
    conf # NoConf /\ row # NoRow => row = Prepared(Imported(conf)) /\ ~Rejected(Imported(conf))
SaidInv == ConfSays /\ RowSays /\ RowOfConf

LEMMA FoundAreDirectives == \A c \in Confs \cup Features : AllDirectives(c)
<1>. SUFFICES ASSUME NEW c \in Confs \cup Features PROVE AllDirectives(c)
  OBVIOUS
<1>1. c \in Seq(Directives) /\ ASeq(c)
  BY ConfAssumption DEF ASeq
<1>2. ASSUME NEW d \in LineSet(c) PROVE IsDirective(d)
  <2>1. d \in Directives
    BY <1>1, <1>2 DEF LineSet
  <2>2. d = [k |-> d.k, v |-> d.v] /\ d.v \in Seq(STRING)
    BY <2>1 DEF Directives
  <2>. QED
    BY <2>2 DEF IsDirective, D, ASeq
<1>. QED
  BY <1>1, <1>2 DEF AllDirectives

(* A plain configuration becomes a plain row.                                *)
LEMMA AdoptSaid ==
    ASSUME SaidInv, Adopt
    PROVE  SaidInv'
<1>1. /\ conf # NoConf /\ ~Rejected(Imported(conf)) /\ row' = Prepared(Imported(conf))
      /\ conf' = conf
  BY DEF Adopt
<1>2. AllDirectives(conf) /\ Plain(conf)
  BY <1>1 DEF SaidInv, ConfSays
<1>3. PlainRow(row')
  BY <1>1, <1>2, PreparedIsPlain
<1>. QED
  BY <1>1, <1>2, <1>3 DEF SaidInv, ConfSays, RowSays, RowOfConf

(* A change of a row that is plain leaves it plain.                          *)
LEMMA PatchSaid ==
    ASSUME PatchesArePlain, ConfInv, SaidInv, NEW p \in Patches, Patch(p)
    PROVE  SaidInv'
<1>1. /\ row # NoRow /\ conf' = NoConf
      /\ row' = IF p.k \in Columns THEN [row EXCEPT !.col[p.k] = p.v]
                ELSE [row EXCEPT !.typed[p.k] = p.v]
  BY DEF Patch
<1>2. DOMAIN row = RowFields /\ DOMAIN row.col = Columns /\ PlainRow(row)
  BY <1>1 DEF ConfInv, RowOK, RowShape, SaidInv, RowSays
<1>3. /\ row'.role = row.role /\ row'.static = row.static /\ row'.features = row.features
      /\ row'.extra = row.extra /\ row'.plugins = row.plugins /\ row'.remotes = row.remotes
      /\ row'.col = IF p.k \in Columns THEN [row.col EXCEPT ![p.k] = p.v] ELSE row.col
  BY <1>1, <1>2 DEF RowFields
<1>4. \A k \in Columns : row'.col[k] = row.col[k] \/ (k = p.k /\ row'.col[k] = p.v)
  <2>. HIDE DEF Columns
  <2>. QED
    BY <1>2, <1>3
<1>5. {"device", "cert", "key"} \subseteq Columns
  BY DEF Columns
<1>. HIDE DEF Columns, DevTypes
<1>6. row'.col["device"] \notin DevTypes
  <2>1. row'.col["device"] = row.col["device"]
        \/ ("device" = p.k /\ row'.col["device"] = p.v)
    BY <1>4, <1>5
  <2>. QED
    BY <1>2, <2>1 DEF PlainRow, PatchesArePlain
<1>7. ASSUME NEW k \in {"cert", "key"}, row.col[k] # Unset PROVE row'.col[k] # Unset
  <2>1. row'.col[k] = row.col[k] \/ (k = p.k /\ row'.col[k] = p.v)
    BY <1>4, <1>5
  <2>. QED
    BY <1>7, <2>1 DEF PatchesArePlain
<1>8. PlainRow(row')
  BY <1>2, <1>3, <1>6, <1>7 DEF PlainRow
<1>. QED
  BY <1>1, <1>8 DEF SaidInv, ConfSays, RowSays, RowOfConf

(* Features add lines of keywords the import has no column for.              *)
LEMMA FeatureSaid ==
    ASSUME FeaturesArePlain, ConfInv, SaidInv, NEW f \in Features, AddFeature(f)
    PROVE  SaidInv'
<1>1. /\ row # NoRow /\ conf' = NoConf /\ row' = [row EXCEPT !.features = @ \o f]
  BY DEF AddFeature
<1>2. RowShape(row) /\ PlainRow(row)
  BY <1>1 DEF ConfInv, RowOK, SaidInv, RowSays
<1>3. /\ row'.role = row.role /\ row'.static = row.static /\ row'.features = row.features \o f
      /\ row'.extra = row.extra /\ row'.plugins = row.plugins /\ row'.remotes = row.remotes
      /\ row'.col = row.col
  BY <1>1, <1>2 DEF RowShape, RowFields
<1>4. LineSet(row.features \o f) = LineSet(row.features) \cup LineSet(f)
  <2>1. ASeq(row.features) /\ ASeq(f)
    BY <1>2, ConfigurationsAreSeqs DEF RowShape
  <2>. QED
    BY <2>1, SetJoined
<1>5. \A d \in LineSet(f) : OwnLine(d) /\ IsDirective(d)
  BY FoundAreDirectives DEF FeaturesArePlain, LineSet, AllDirectives
<1>6. PlainRow(row')
  BY <1>2, <1>3, <1>4, <1>5 DEF PlainRow
<1>. QED
  BY <1>1, <1>6 DEF SaidInv, ConfSays, RowSays, RowOfConf

(* Every step keeps all three.                                               *)
LEMMA NextSaid ==
    ASSUME FeaturesArePlain, PatchesArePlain, ConfInv, SaidInv, [Next]_vars
    PROVE  SaidInv'
<1>1. CASE Adopt
  BY <1>1, AdoptSaid
<1>2. CASE \E p \in Patches : Patch(p)
  BY <1>2, PatchSaid
<1>3. CASE \E f \in Features : AddFeature(f)
  BY <1>3, FeatureSaid
<1>4. CASE LoseDatabase
  <2>1. file # NoConf /\ conf' = file /\ row' = NoRow
    BY <1>4 DEF LoseDatabase
  <2>2. row # NoRow /\ file = RenderInstance(row) /\ RowShape(row) /\ PlainRow(row)
    BY <2>1 DEF ConfInv, FileOK, RowOK, SaidInv, RowSays
  <2>3. AllDirectives(file) /\ Plain(file)
    BY <2>2, FileIsPlain
  <2>. QED
    BY <2>1, <2>3 DEF SaidInv, ConfSays, RowSays, RowOfConf
<1>5. CASE UNCHANGED <<conf, row>>
  BY <1>5 DEF SaidInv, ConfSays, RowSays, RowOfConf
<1>. QED
  BY <1>1, <1>2, <1>3, <1>4, <1>5 DEF Next, Render, HandOut, ImportProfile, vars

(* The server the daemon puts in the place of the one it adopted says, line  *)
(* by line and block by block, what that one said, but for the lines Lost    *)
(* names, whatever the configuration, as long as it says each thing in one   *)
(* way; and so it is for a file of the daemon's own that is adopted after    *)
(* the database was lost, whatever features and changes the row had by then  *)
(* (confimport.Parse and Materialize, adopt, instance.Prepare,               *)
(* confgen.RenderInstance).                                                  *)
THEOREM AdoptionKeepsWhatIsSaid ==
    ASSUME ConfsArePlain, FeaturesArePlain, PatchesArePlain
    PROVE  Spec => []SaidIsKept
<1>1. Init => SaidInv
  BY FoundAreDirectives DEF Init, SaidInv, ConfSays, RowSays, RowOfConf, ConfsArePlain
<1>2. SaidInv /\ ConfInv /\ [Next]_vars => SaidInv'
  BY NextSaid
<1>3. ConfInv /\ SaidInv => SaidIsKept
  <2>. SUFFICES ASSUME ConfInv, SaidInv, conf # NoConf, file # NoConf PROVE SaidIsKept
    BY DEF SaidIsKept
  <2>1. row # NoRow /\ file = RenderInstance(row)
    BY DEF ConfInv, FileOK
  <2>2. row = Prepared(Imported(conf)) /\ ~Rejected(Imported(conf))
    BY <2>1 DEF SaidInv, RowOfConf
  <2>3. AllDirectives(conf) /\ Plain(conf)
    BY <2>2 DEF SaidInv, ConfSays
  <2>4. /\ \A d \in LineSet(conf) : ~Lost(d, row) => SaidIn(conf, file, d)
        /\ \A d \in LineSet(conf) : d.k = "<>" => Value(file, d.v[1]) = <<d.v[2]>>
    BY <2>1, <2>2, <2>3, Kept1
  <2>. QED
    BY <2>4 DEF SaidIsKept, LineSet
<1>. QED
  BY <1>1, <1>2, <1>3, ConfInvariant, PTL DEF Spec
====
