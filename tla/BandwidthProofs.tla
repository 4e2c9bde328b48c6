---------------------------- MODULE BandwidthProofs ---------------------------
(***************************************************************************)
(* Theorems about Bandwidth, for every set of peers, addresses, devices    *)
(* and limits, and for every range of class ids.                           *)
(*                                                                         *)
(* First what each tc command, and each plan of them, does to a device.    *)
(* LimitsInv types the state: a sync works only with limits that someone   *)
(* set.  KernelInv ties the enforcer's book to the kernel: the owners of a *)
(* device have class ids of their own below the next one, the kernel has   *)
(* their filters and policers and no others, and peers and a ceiling never *)
(* share a device.  It holds until one of Events happens (ShapedInv), and  *)
(* with it an address gets what the book says of it.  SyncInv follows a    *)
(* sync from its snapshot of the rows to its end, where the book has what  *)
(* the rows want.                                                          *)
(***************************************************************************)
EXTENDS FoldProofs, TLAPS

------------------------------------------------------------------------------
(* What commands do.                                                         *)

LEMMA TcIsChain ==
    ASSUME NEW k, NEW s, ASeq(s)
    PROVE  \E g : /\ g[0] = k
                  /\ \A i \in 1..Len(s) : g[i] = Exec(g[i - 1], s[i])
                  /\ Tc(k, s) = g[Len(s)]
<1>1. PICK g : IsChain(g, "tc", k, s, Len(s)) /\ FoldLeft(Exec, k, s) = g[Len(s)]
  BY CommandChain
<1>2. \A i \in 1..Len(s) : g[i] = Exec(g[i - 1], s[i])
  BY <1>1 DEF IsChain, Step
<1>. QED
  BY <1>1, <1>2 DEF IsChain, Tc

LEMMA TcOfNone == \A k : Tc(k, <<>>) = k
<1>. TAKE k
<1>1. ASeq(<<>>) /\ Len(<<>>) = 0
  BY EmptyIsSeq
<1>. QED
  BY <1>1, TcIsChain

LEMMA TcOfOne == ASSUME NEW k, NEW a PROVE Tc(k, <<a>>) = Exec(k, a)
<1>. DEFINE s == <<a>>
<1>1. s \in Seq({a}) /\ Len(s) = 1 /\ s[1] = a
  OBVIOUS
<1>. HIDE DEF s
<1>0. ASeq(s)
  BY <1>1 DEF ASeq
<1>2. PICK g : g[0] = k /\ (\A i \in 1..1 : g[i] = Exec(g[i - 1], s[i])) /\ Tc(k, s) = g[1]
  BY <1>0, <1>1, TcIsChain
<1>3. g[1] = Exec(g[0], s[1])
  BY <1>2
<1>. QED
  BY <1>1, <1>2, <1>3 DEF s

LEMMA TcOfTwo ==
    ASSUME NEW k, NEW a, NEW b PROVE Tc(k, <<a, b>>) = Exec(Exec(k, a), b)
<1>. DEFINE s == <<a, b>>
<1>1. s \in Seq({a, b}) /\ Len(s) = 2 /\ s[1] = a /\ s[2] = b
  OBVIOUS
<1>. HIDE DEF s
<1>0. ASeq(s)
  BY <1>1 DEF ASeq
<1>2. PICK g : g[0] = k /\ (\A i \in 1..2 : g[i] = Exec(g[i - 1], s[i])) /\ Tc(k, s) = g[2]
  BY <1>0, <1>1, TcIsChain
<1>3. g[1] = Exec(g[0], s[1]) /\ g[2] = Exec(g[1], s[2])
  BY <1>2
<1>. QED
  BY <1>1, <1>2, <1>3 DEF s

(* The commands that plans are made of.                                      *)
Commands ==
    [op : {"root"}, id : {FirstClass, 999}, ip : Address, rate : Rate]
    \cup [op : {"class", "filter", "police", "delClass"}, id : Ids, ip : Address, rate : Rate]
    \cup [op : {"whole", "delIngress", "delRoot"}, id : {0}, ip : Address, rate : Rate]

LEMMA RatesAreNumbers ==
    /\ Rate \subseteq Nat /\ 0 \in Rate /\ NoIP \in Address /\ FirstClass \in Ids /\ Ids \subseteq Nat
    /\ \A s \in Shapes : s.rx \in Rate /\ s.tx \in Rate /\ s.total \in Rate
BY BandwidthAssumption DEF Rate, Address, Ids, FirstClass

LEMMA BareIsTyped == Bare \in Kernel
BY RatesAreNumbers DEF Bare, Kernel

(* What a command does, by its operation.                                    *)
Sets(f, g, i, x) == g[i] = x /\ \A j \in Ids \ {i} : g[j] = f[j]

LEMMA ExecRoot ==
    ASSUME NEW k \in Kernel, NEW id \in {FirstClass, 999}, NEW ip, NEW rate
    PROVE  LET K == Exec(k, Command("root", id, ip, rate)) IN
           /\ K \in Kernel
           /\ K.default = id
           /\ K.class = k.class /\ K.filter = k.filter /\ K.police = k.police /\ K.whole = k.whole
BY DEF Exec, Command, Kernel

LEMMA ExecWhole ==
    ASSUME NEW k \in Kernel, NEW id, NEW ip, NEW rate \in Rate
    PROVE  LET K == Exec(k, Command("whole", id, ip, rate)) IN
           /\ K \in Kernel
           /\ K.whole = rate
           /\ K.default = k.default /\ K.class = k.class /\ K.filter = k.filter /\ K.police = k.police
BY DEF Exec, Command, Kernel

LEMMA ExecClass ==
    ASSUME NEW k \in Kernel, NEW id \in Ids, NEW ip, NEW rate \in Rate
    PROVE  LET K == Exec(k, Command("class", id, ip, rate)) IN
           /\ K \in Kernel
           /\ Sets(k.class, K.class, id, rate)
           /\ K.default = k.default /\ K.filter = k.filter /\ K.police = k.police /\ K.whole = k.whole
<1>. DEFINE T == Rate
            c == Command("class", id, ip, rate)
            g == [k.class EXCEPT ![id] = rate]
<1>1. Exec(k, c) = [k EXCEPT !.class = g]
  BY DEF Exec, Command
<1>2. k.class \in [Ids -> T] /\ rate \in T
  BY DEF Kernel
<1>3. g \in [Ids -> T] /\ Sets(k.class, g, id, rate)
  <2>. HIDE DEF T
  <2>. QED
    BY <1>2 DEF Sets
<1>. HIDE DEF g, c
<1>4. /\ Exec(k, c).class = g /\ Exec(k, c) \in Kernel
      /\ Exec(k, c).default = k.default
      /\ Exec(k, c).filter = k.filter
      /\ Exec(k, c).police = k.police
      /\ Exec(k, c).whole = k.whole
  BY <1>1, <1>3 DEF Kernel
<1>. QED
  BY <1>3, <1>4 DEF c

LEMMA ExecFilter ==
    ASSUME NEW k \in Kernel, NEW id \in Ids, NEW ip \in Address, NEW rate
    PROVE  LET K == Exec(k, Command("filter", id, ip, rate)) IN
           /\ K \in Kernel
           /\ Sets(k.filter, K.filter, id, ip)
           /\ K.default = k.default /\ K.class = k.class /\ K.police = k.police /\ K.whole = k.whole
<1>. DEFINE T == Address
            c == Command("filter", id, ip, rate)
            g == [k.filter EXCEPT ![id] = ip]
<1>1. Exec(k, c) = [k EXCEPT !.filter = g]
  BY DEF Exec, Command
<1>2. k.filter \in [Ids -> T] /\ ip \in T
  BY DEF Kernel
<1>3. g \in [Ids -> T] /\ Sets(k.filter, g, id, ip)
  <2>. HIDE DEF T
  <2>. QED
    BY <1>2 DEF Sets
<1>. HIDE DEF g, c
<1>4. /\ Exec(k, c).filter = g /\ Exec(k, c) \in Kernel
      /\ Exec(k, c).default = k.default
      /\ Exec(k, c).class = k.class
      /\ Exec(k, c).police = k.police
      /\ Exec(k, c).whole = k.whole
  BY <1>1, <1>3 DEF Kernel
<1>. QED
  BY <1>3, <1>4 DEF c

LEMMA ExecPolice ==
    ASSUME NEW k \in Kernel, NEW id \in Ids, NEW ip \in Address, NEW rate \in Rate
    PROVE  LET K == Exec(k, Command("police", id, ip, rate)) IN
           /\ K \in Kernel
           /\ Sets(k.police, K.police, id, [ip |-> ip, rate |-> rate])
           /\ K.default = k.default /\ K.class = k.class /\ K.filter = k.filter /\ K.whole = k.whole
<1>. DEFINE T == [ip : Address, rate : Rate]
            c == Command("police", id, ip, rate)
            g == [k.police EXCEPT ![id] = [ip |-> ip, rate |-> rate]]
<1>1. Exec(k, c) = [k EXCEPT !.police = g]
  BY DEF Exec, Command
<1>2. k.police \in [Ids -> T] /\ [ip |-> ip, rate |-> rate] \in T
  BY DEF Kernel
<1>3. g \in [Ids -> T] /\ Sets(k.police, g, id, [ip |-> ip, rate |-> rate])
  <2>. HIDE DEF T
  <2>. QED
    BY <1>2 DEF Sets
<1>. HIDE DEF g, c
<1>4. /\ Exec(k, c).police = g /\ Exec(k, c) \in Kernel
      /\ Exec(k, c).default = k.default
      /\ Exec(k, c).class = k.class
      /\ Exec(k, c).filter = k.filter
      /\ Exec(k, c).whole = k.whole
  BY <1>1, <1>3 DEF Kernel
<1>. QED
  BY <1>3, <1>4 DEF c

(* A busy class stays.                                                       *)
LEMMA ExecDelClass ==
    ASSUME NEW k \in Kernel, NEW id \in Ids, NEW ip, NEW rate
    PROVE  LET K == Exec(k, Command("delClass", id, ip, rate)) IN
           /\ K \in Kernel
           /\ \A i \in Ids \ {id} : K.class[i] = k.class[i]
           /\ K.default = k.default /\ K.filter = k.filter /\ K.police = k.police /\ K.whole = k.whole
<1>. DEFINE c == Command("delClass", id, ip, rate)
            g == [k.class EXCEPT ![id] = 0]
<1>1. Exec(k, c) = k \/ Exec(k, c) = [k EXCEPT !.class = g]
  BY DEF Exec, Command
<1>2. g \in [Ids -> Rate] /\ \A i \in Ids \ {id} : g[i] = k.class[i]
  BY RatesAreNumbers DEF Kernel
<1>. HIDE DEF g, c
<1>3. CASE Exec(k, c) = k
  BY <1>3 DEF c, Kernel
<1>4. CASE Exec(k, c) = [k EXCEPT !.class = g]
  <2>1. /\ Exec(k, c).class = g /\ Exec(k, c) \in Kernel
        /\ Exec(k, c).default = k.default /\ Exec(k, c).filter = k.filter
        /\ Exec(k, c).police = k.police /\ Exec(k, c).whole = k.whole
    BY <1>2, <1>4 DEF Kernel
  <2>. QED
    BY <1>2, <2>1 DEF c
<1>. QED
  BY <1>1, <1>3, <1>4

LEMMA ExecDelIngress ==
    ASSUME NEW k \in Kernel, NEW id, NEW ip, NEW rate
    PROVE  LET K == Exec(k, Command("delIngress", id, ip, rate)) IN
           /\ K \in Kernel
           /\ K.whole = 0 /\ \A i \in Ids : K.police[i].ip = NoIP
           /\ K.default = k.default /\ K.class = k.class /\ K.filter = k.filter
<1>. DEFINE c == Command("delIngress", id, ip, rate)
            g == Bare.police
<1>1. Exec(k, c) = [k EXCEPT !.police = g, !.whole = 0]
  BY DEF Exec, Command
<1>2. g \in [Ids -> [ip : Address, rate : Rate]] /\ \A i \in Ids : g[i].ip = NoIP
  BY RatesAreNumbers DEF Bare
<1>. HIDE DEF g, c
<1>. DEFINE K == Exec(k, c)
<1>. HIDE DEF K
<1>3. /\ K \in Kernel /\ K.police = g /\ K.whole = 0
      /\ K.default = k.default /\ K.class = k.class /\ K.filter = k.filter
  <2>. DEFINE A == {0, FirstClass, 999}
              B == [Ids -> Rate]
              C == [Ids -> Address]
              P == [Ids -> [ip : Address, rate : Rate]]
              R == Rate
              T(a, f, h, d, r) == [default : a, class : f, filter : h, police : d, whole : r]
  <2>1. k \in T(A, B, C, P, R) /\ g \in P /\ 0 \in R /\ Kernel = T(A, B, C, P, R)
    BY <1>2, RatesAreNumbers DEF Kernel
  <2>2. K = [k EXCEPT !.police = g, !.whole = 0]
    BY <1>1 DEF K
  <2>. HIDE DEF A, B, C, P, R
  <2>3. K \in T(A, B, C, P, R)
    BY <2>1, <2>2
  <2>. QED
    BY <2>1, <2>2, <2>3
<1>. QED
  BY <1>2, <1>3 DEF c, K

LEMMA ExecDelRoot ==
    ASSUME NEW k \in Kernel, NEW id, NEW ip, NEW rate
    PROVE  LET K == Exec(k, Command("delRoot", id, ip, rate)) IN
           /\ K \in Kernel
           /\ K.default = 0 /\ \A i \in Ids : K.filter[i] = NoIP
           /\ K.police = k.police /\ K.whole = k.whole
<1>. DEFINE c == Command("delRoot", id, ip, rate)
            b == Bare
<1>1. Exec(k, c) = [b EXCEPT !.police = k.police, !.whole = k.whole]
  BY DEF Exec, Command
<1>2. b \in Kernel /\ b.default = 0 /\ \A i \in Ids : b.filter[i] = NoIP
  BY BareIsTyped DEF Bare
<1>. HIDE DEF b, c
<1>. DEFINE K == Exec(k, c)
<1>. HIDE DEF K
<1>3. k.police \in [Ids -> [ip : Address, rate : Rate]] /\ k.whole \in Rate
  BY DEF Kernel
<1>4. /\ K \in Kernel /\ K.police = k.police /\ K.whole = k.whole
      /\ K.default = b.default /\ K.filter = b.filter
  <2>. DEFINE A == {0, FirstClass, 999}
              B == [Ids -> Rate]
              C == [Ids -> Address]
              P == [Ids -> [ip : Address, rate : Rate]]
              R == Rate
              T(a, f, h, d, r) == [default : a, class : f, filter : h, police : d, whole : r]
              p == k.police
              w == k.whole
  <2>1. b \in T(A, B, C, P, R) /\ p \in P /\ w \in R /\ Kernel = T(A, B, C, P, R)
    BY <1>2, <1>3 DEF Kernel
  <2>2. K = [b EXCEPT !.police = p, !.whole = w]
    BY <1>1 DEF K
  <2>. HIDE DEF A, B, C, P, R, p, w
  <2>3. K \in T(A, B, C, P, R) /\ K.police = p /\ K.whole = w
    BY <2>1, <2>2
  <2>. QED
    BY <2>1, <2>2, <2>3 DEF p, w
<1>. QED
  BY <1>2, <1>4 DEF c, K

LEMMA CommandIs ==
    ASSUME NEW c \in Commands
    PROVE  /\ c = Command(c.op, c.id, c.ip, c.rate) /\ c.ip \in Address /\ c.rate \in Rate
           /\ \/ c.op = "root" /\ c.id \in {FirstClass, 999}
              \/ c.op \in {"class", "filter", "police", "delClass"} /\ c.id \in Ids
              \/ c.op \in {"whole", "delIngress", "delRoot"}
BY DEF Commands, Command

LEMMA ExecTyped ==
    ASSUME NEW k \in Kernel, NEW c \in Commands
    PROVE  Exec(k, c) \in Kernel
<1>1. CASE c.op = "root"
  <2>1. c = Command("root", c.id, c.ip, c.rate) /\ c.id \in {FirstClass, 999}
    BY <1>1, CommandIs
  <2>2. Exec(k, Command("root", c.id, c.ip, c.rate)) \in Kernel
    BY <2>1, ExecRoot
  <2>. QED
    BY <2>1, <2>2
<1>2. CASE c.op \in {"class", "filter", "police", "delClass"}
  <2>1. c.id \in Ids /\ c.ip \in Address /\ c.rate \in Rate
    BY <1>2, CommandIs
  <2>2. /\ Exec(k, Command("class", c.id, c.ip, c.rate)) \in Kernel
        /\ Exec(k, Command("filter", c.id, c.ip, c.rate)) \in Kernel
    BY <2>1, ExecClass, ExecFilter
  <2>3. /\ Exec(k, Command("police", c.id, c.ip, c.rate)) \in Kernel
        /\ Exec(k, Command("delClass", c.id, c.ip, c.rate)) \in Kernel
    BY <2>1, ExecPolice, ExecDelClass
  <2>. QED
    BY <1>2, <2>2, <2>3, CommandIs
<1>3. CASE c.op \in {"whole", "delIngress", "delRoot"}
  BY <1>3, CommandIs, ExecWhole, ExecDelIngress, ExecDelRoot
<1>. QED
  BY <1>1, <1>2, <1>3, CommandIs

LEMMA TcTyped ==
    ASSUME NEW k \in Kernel, NEW s \in Seq(Commands)
    PROVE  Tc(k, s) \in Kernel
<1>1. PICK g : /\ g[0] = k
               /\ \A i \in 1..Len(s) : g[i] = Exec(g[i - 1], s[i])
               /\ Tc(k, s) = g[Len(s)]
  BY TcIsChain DEF ASeq
<1>. DEFINE I == {i \in Nat : i <= Len(s) => g[i] \in Kernel}
<1>2. 0 \in I
  BY <1>1
<1>3. ASSUME NEW n \in Nat, n \in I PROVE n + 1 \in I
  <2>1. CASE n + 1 <= Len(s)
    <3>1. n <= Len(s) /\ n + 1 \in 1..Len(s) /\ (n + 1) - 1 = n
      BY <2>1
    <3>2. g[n + 1] = Exec(g[n], s[n + 1]) /\ g[n] \in Kernel /\ s[n + 1] \in Commands
      BY <1>1, <1>3, <3>1
    <3>. QED
      BY <3>2, ExecTyped
  <2>. QED
    BY <2>1
<1>4. Nat \subseteq I
  <2>. HIDE DEF I
  <2>. QED
    BY <1>2, <1>3, NaturalsIn
<1>. QED
  BY <1>1, <1>4

LEMMA Parts ==
    ASSUME NEW S, NEW s \in Seq(S)
    PROVE  /\ \A n \in 0..Len(s) : SubSeq(s, 1, n) \in Seq(S)
           /\ \A i \in DOMAIN s : RemoveAt(s, i) \in Seq(S)
<1>1. \A n \in 0..Len(s) : SubSeq(s, 1, n) \in Seq(S)
  OBVIOUS
<1>2. ASSUME NEW i \in DOMAIN s PROVE RemoveAt(s, i) \in Seq(S)
  <2>1. SubSeq(s, 1, i - 1) \in Seq(S) /\ SubSeq(s, i + 1, Len(s)) \in Seq(S)
    OBVIOUS
  <2>. QED
    BY <2>1 DEF RemoveAt
<1>. QED
  BY <1>1, <1>2

LEMMA PlansTyped ==
    ASSUME NEW e \in Entry
    PROVE  Plan(e) \in Seq(Commands) /\ RemoveRules(e) \in Seq(Commands) /\ Len(Plan(e)) >= 1
<1>. USE RatesAreNumbers
<1>1. /\ Command("root", 999, NoIP, 0) \in Commands
      /\ Command("class", e.id, NoIP, e.rx) \in Commands
      /\ Command("filter", e.id, e.ip, 0) \in Commands
      /\ Command("filter", e.id, NoIP, 0) \in Commands
      /\ Command("delClass", e.id, NoIP, 0) \in Commands
      /\ Command("police", e.id, e.ip, e.tx) \in Commands
      /\ Command("police", e.id, NoIP, 0) \in Commands
  BY DEF Command, Commands, Entry, Address
<1>. HIDE DEF Commands, Command
<1>. DEFINE a == <<Command("root", 999, NoIP, 0)>>
            b == IF e.rx > 0 THEN <<Command("class", e.id, NoIP, e.rx),
                           Command("filter", e.id, e.ip, 0)>> ELSE <<>>
            c == IF e.tx > 0 THEN <<Command("police", e.id, e.ip, e.tx)>> ELSE <<>>
            p == IF e.tx > 0 THEN <<Command("police", e.id, NoIP, 0)>> ELSE <<>>
            q == IF e.rx > 0 THEN <<Command("delClass", e.id, NoIP, 0),
                           Command("filter", e.id, NoIP, 0)>> ELSE <<>>
<1>2. a \in Seq(Commands) /\ Len(a) = 1
  BY <1>1
<1>3. b \in Seq(Commands)
  BY <1>1
<1>4. c \in Seq(Commands)
  BY <1>1
<1>5. p \in Seq(Commands)
  BY <1>1
<1>6. q \in Seq(Commands)
  BY <1>1
<1>7. Plan(e) = a \o b \o c /\ RemoveRules(e) = p \o q
  BY DEF Plan, RemoveRules
<1>. HIDE DEF a, b, c, p, q
<1>8. a \o b \in Seq(Commands) /\ Len(a \o b) >= 1
  BY <1>2, <1>3
<1>9. a \o b \o c \in Seq(Commands) /\ Len(a \o b \o c) >= 1
  BY <1>8, <1>4
<1>. QED
  BY <1>5, <1>6, <1>7, <1>9

LEMMA DevicePlansTyped ==
    ASSUME NEW c \in Ceiling
    PROVE  PlanDevice(c) \in Seq(Commands) /\ RemoveDeviceRules(c) \in Seq(Commands)
<1>. USE RatesAreNumbers
<1>1. /\ Command("root", FirstClass, NoIP, 0) \in Commands
      /\ Command("class", FirstClass, NoIP, c.tx) \in Commands
      /\ Command("whole", 0, NoIP, c.rx) \in Commands
      /\ Command("delIngress", 0, NoIP, 0) \in Commands
      /\ Command("delRoot", 0, NoIP, 0) \in Commands
  BY DEF Command, Commands, Ceiling, Address
<1>. HIDE DEF Commands, Command
<1>. DEFINE a == IF c.tx > 0 THEN <<Command("root", FirstClass, NoIP, 0),
                        Command("class", FirstClass, NoIP, c.tx)>> ELSE <<>>
            b == IF c.rx > 0 THEN <<Command("whole", 0, NoIP, c.rx)>> ELSE <<>>
            p == IF c.rx > 0 THEN <<Command("delIngress", 0, NoIP, 0)>> ELSE <<>>
            q == IF c.tx > 0 THEN <<Command("delRoot", 0, NoIP, 0)>> ELSE <<>>
<1>2. a \in Seq(Commands)
  BY <1>1
<1>3. b \in Seq(Commands)
  BY <1>1
<1>4. p \in Seq(Commands)
  BY <1>1
<1>5. q \in Seq(Commands)
  BY <1>1
<1>6. PlanDevice(c) = a \o b /\ RemoveDeviceRules(c) = p \o q
  BY DEF PlanDevice, RemoveDeviceRules
<1>. HIDE DEF a, b, p, q
<1>. QED
  BY <1>2, <1>3, <1>4, <1>5, <1>6

------------------------------------------------------------------------------
(* The invariants.                                                           *)

(* A sync works on a row, removes what is booked and applies what is wanted. *)
RunOK ==
    /\ run.pc \in {"remove", "apply", "device"} => run.row # NoInstance
    /\ run.pc \in {"remove", "apply"} => run.row.role = "server"
    /\ run.pc \in {"remove", "clear"} => run.todo \subseteq Booked
    /\ run.pc = "apply" => run.row.dev \in Devices /\ run.todo \subseteq Desired(run.peers)

(* Nothing is booked that limits nothing.                                    *)
BookOK ==
    /\ \A cn \in Booked : book[cn].rx > 0 \/ book[cn].tx > 0
    /\ ceiling # NoEntry => ceiling.rx > 0 \/ ceiling.tx > 0

LimitsInv == BandwidthTypeOK /\ RunOK /\ BookOK

(* The peers that shape a device.                                            *)
Owners(d) == {cn \in Booked : book[cn].dev = d}

(* Their classes are their own, and below those still to be given out.       *)
ClassesApart ==
    \A d \in Devices : \A a \in Owners(d) :
        /\ book[a].id < next[d]
        /\ \A b \in Owners(d) : book[a].id = book[b].id => a = b

(* A device shapes some peers as a book says, and no address besides.        *)
ShapesPeers(b, k, cns) ==
    /\ \A a \in cns :
          /\ b[a].rx > 0 => k.filter[b[a].id] = b[a].ip /\ k.class[b[a].id] = b[a].rx
          /\ b[a].tx > 0 => k.police[b[a].id] = [ip |-> b[a].ip, rate |-> b[a].tx]
    /\ \A i \in Ids :
          /\ k.filter[i] = NoIP \/ \E a \in cns : b[a].id = i /\ b[a].rx > 0
          /\ k.police[i].ip = NoIP \/ \E a \in cns : b[a].id = i /\ b[a].tx > 0

PeersShaped == \A d \in Devices : ShapesPeers(book, kernel[d], Owners(d))

(* What it says of the whole device is there, and no more.                   *)
CeilingShaped ==
    \A d \in Devices :
        /\ kernel[d].whole = CeilingOf(ceiling, d).rx
        /\ kernel[d].default = FirstClass <=> CeilingOf(ceiling, d).tx # 0
        /\ CeilingOf(ceiling, d).tx # 0 => kernel[d].class[FirstClass] = CeilingOf(ceiling, d).tx

(* A device shapes peers, or as a whole, as the role of its instance has it. *)
OneKind ==
    /\ instance = NoInstance => Booked = {} /\ ceiling = NoEntry /\ run.pc \in {"idle", "clear"}
    /\ instance # NoInstance => IF instance.role = "server" THEN ceiling = NoEntry ELSE Booked = {}
    /\ run.pc \in {"remove", "apply", "device"} => run.row.role = instance.role

KernelInv == ClassesApart /\ PeersShaped /\ CeilingShaped /\ OneKind
ShapedInv == hurt = {} => KernelInv

(* The book has the peers that the rows want, with the limits they want.     *)
BookIs(cns, i, ps) ==
    /\ Booked \subseteq Desired(ps)
    /\ \A cn \in cns : Same(book[cn], Wanted(ps[cn], i.dev, FirstClass))

(* How far a sync is that works on the rows as they are.                     *)
Progress ==
    /\ run.pc = "clear" => Booked \subseteq run.todo /\ (run.row = NoInstance \/ ~run.row.enabled)
    /\ run.pc = "remove" => Booked \ run.todo \subseteq Desired(run.peers)
    /\ run.pc = "apply" /\ run.ok => BookIs(Desired(run.peers) \ run.todo, run.row, run.peers)
    /\ run.pc = "device" /\ run.ok /\ run.row.role = "server" /\ run.row.dev # NoDev =>
          BookIs(Desired(run.peers), run.row, run.peers)
    /\ run.pc \in {"remove", "apply", "device"} => run.row.enabled

Synced ==
    IF instance = NoInstance \/ ~instance.enabled THEN Booked = {} /\ ceiling = NoEntry
    ELSE /\ IF instance.role = "server" THEN BookIs(Desired(peers), instance, peers) ELSE Booked = {}
         /\ ceiling = IF instance.limit = NoLimit THEN NoEntry
                      ELSE [rx |-> instance.limit.rx, tx |-> instance.limit.tx, dev |-> instance.dev]

SyncInv ==
    hurt = {} /\ fresh =>
        IF run.pc = "idle" THEN Synced
        ELSE run.row = instance /\ run.peers = peers /\ Progress

------------------------------------------------------------------------------
(* Types.                                                                    *)

LEMMA MinIsMember == ASSUME NEW S \in SUBSET Nat, S # {} PROVE Min(S) \in S
<1>. SUFFICES ASSUME ~ \E x \in S : \A y \in S : x <= y PROVE FALSE
  BY DEF Min
<1>. DEFINE I == {n \in Nat : \A m \in S : n <= m}
<1>1. 0 \in I
  OBVIOUS
<1>2. ASSUME NEW n \in Nat, n \in I PROVE n + 1 \in I
  <2>1. n \notin S
    BY <1>2
  <2>. QED
    BY <1>2, <2>1
<1>3. Nat \subseteq I
  <2>. HIDE DEF I
  <2>. QED
    BY <1>1, <1>2, NaturalsIn
<1>4. PICK m \in S : TRUE
  OBVIOUS
<1>5. m + 1 \in Nat /\ ~(m + 1 <= m)
  BY <1>4
<1>. QED
  BY <1>3, <1>4, <1>5

LEMMA TodoTyped ==
    ASSUME BandwidthTypeOK, run.todo # {}
    PROVE  Min(run.todo) \in run.todo /\ run.todo \subseteq CNs
BY MinIsMember, BandwidthAssumption DEF BandwidthTypeOK, Run

LEMMA LimitTyped ==
    ASSUME NEW s \in Shapes
    PROVE  EffectiveBandwidth(s).rx \in Rate /\ EffectiveBandwidth(s).tx \in Rate
BY RatesAreNumbers DEF EffectiveBandwidth

LEMMA LimitsTyped == \A l \in Limits : l.rx \in Rate /\ l.tx \in Rate
BY LimitTyped, RatesAreNumbers DEF Limits, NoLimit

LEMMA WantedTyped ==
    ASSUME NEW ps \in [CNs -> Peer \cup {NoPeer}], NEW cn \in Desired(ps),
           NEW d \in Devices, NEW i \in Ids
    PROVE  /\ Wanted(ps[cn], d, i) \in Entry
           /\ Wanted(ps[cn], d, i).rx > 0 \/ Wanted(ps[cn], d, i).tx > 0
<1>1. /\ cn \in CNs /\ ps[cn] \in Peer /\ ps[cn].ip # NoIP
      /\ EffectiveBandwidth(ps[cn].limit).rx > 0 \/ EffectiveBandwidth(ps[cn].limit).tx > 0
  BY DEF Desired
<1>2. ps[cn].ip \in IPs /\ ps[cn].limit \in Shapes
  BY <1>1 DEF Peer, Address
<1>. QED
  BY <1>1, <1>2, LimitTyped DEF Wanted, Entry

LEMMA NextClassTyped ==
    ASSUME next \in [Devices -> Ids], NEW d \in Devices
    PROVE  NextClass(d) \in Ids
BY RatesAreNumbers, BandwidthAssumption DEF NextClass, Ids, FirstClass

LEMMA KernelsTyped ==
    ASSUME NEW K \in [Devices -> Kernel], NEW d \in Devices, NEW s \in Seq(Commands)
    PROVE  /\ [K EXCEPT ![d] = Tc(@, s)] \in [Devices -> Kernel]
           /\ [K EXCEPT ![d] = Tc(@, s)][d] = Tc(K[d], s)
           /\ \A o \in Devices \ {d} : [K EXCEPT ![d] = Tc(@, s)][o] = K[o]
<1>1. Tc(K[d], s) \in Kernel
  BY TcTyped
<1>. HIDE DEF Kernel
<1>. QED
  BY <1>1

(* What a step does to the hurt and to the bound of failures.                *)
Counted == /\ failures' \in 0..MaxFailures
           /\ hurt' \subseteq Events /\ hurt \subseteq hurt'

LEMMA UndoTyped ==
    ASSUME BandwidthTypeOK, NEW d \in Devices, NEW s \in Seq(Commands), UndoOn(d, s)
    PROVE  kernel' \in [Devices -> Kernel] /\ Counted
<1>1. CASE kernel' = TcOn(d, s) /\ UNCHANGED <<hurt, failures>>
  BY <1>1, KernelsTyped DEF TcOn, BandwidthTypeOK, Counted
<1>2. CASE \E i \in DOMAIN s : /\ Fail
                               /\ kernel' = TcOn(d, RemoveAt(s, i))
                               /\ hurt' = hurt \cup {"failed"}
  <2>1. kernel' \in [Devices -> Kernel]
    BY <1>2, KernelsTyped, Parts DEF TcOn, BandwidthTypeOK
  <2>. QED
    BY <1>2, <2>1, BandwidthAssumption DEF Counted, Fail, BandwidthTypeOK, Events
<1>. QED
  BY <1>1, <1>2 DEF UndoOn

LEMMA InitLimits == BandwidthInit => LimitsInv
<1>. SUFFICES ASSUME BandwidthInit PROVE LimitsInv
  OBVIOUS
<1>1. kernel \in [Devices -> Kernel]
  BY BareIsTyped DEF BandwidthInit
<1>2. run \in Run /\ run.pc = "idle"
  BY DEF BandwidthInit, NoRun, Run
<1>3. instance \in Rows \cup {NoInstance}
  BY DEF BandwidthInit, Rows, Limits
<1>4. next \in [Devices -> Ids]
  BY RatesAreNumbers DEF BandwidthInit
<1>0. 0 \in 0..MaxChanges /\ 0 \in 0..MaxFailures
  BY BandwidthAssumption
<1>5. BandwidthTypeOK
  <2>. HIDE DEF Kernel, Run, Rows
  <2>. QED
    BY <1>0, <1>1, <1>2, <1>3, <1>4 DEF BandwidthInit, BandwidthTypeOK
<1>6. Booked = {} /\ ceiling = NoEntry
  BY DEF BandwidthInit, Booked
<1>. QED
  BY <1>2, <1>5, <1>6 DEF LimitsInv, RunOK, BookOK

LEMMA SyncBeginLimits ==
    ASSUME LimitsInv, SyncBegin
    PROVE  LimitsInv'
<1>. USE DEF LimitsInv, BandwidthTypeOK
<1>0. UNCHANGED <<instance, peers, kernel, book, ceiling, next, hurt, changes, failures>>
  BY DEF SyncBegin, rows, enforcer
<1>1. /\ run' \in Run
      /\ run'.pc \in {"remove", "apply", "device"} => run'.row # NoInstance
      /\ run'.pc # "apply"
      /\ run'.pc = "remove" => run'.row.role = "server"
      /\ run'.todo \subseteq Booked
  BY DEF SyncBegin, NoRun, Run, Booked
<1>2. Booked' = Booked /\ fresh' \in BOOLEAN
  BY <1>0 DEF Booked, SyncBegin
<1>3. RunOK'
  BY <1>1, <1>2 DEF RunOK
<1>4. BookOK'
  BY <1>0, <1>2 DEF BookOK
<1>. QED
  BY <1>0, <1>1, <1>2, <1>3, <1>4

LEMMA UnshapeLimits ==
    ASSUME LimitsInv, NEW cn \in CNs, Unshape(cn)
    PROVE  LimitsInv'
<1>. USE DEF LimitsInv, BandwidthTypeOK
<1>0. UNCHANGED <<instance, peers, ceiling, next, fresh, changes>>
  BY DEF Unshape, rows
<1>1. cn \in run.todo /\ cn \in Booked /\ book[cn] \in Entry
  BY TodoTyped DEF Unshape, RunOK, Booked
<1>2. kernel' \in [Devices -> Kernel] /\ Counted
  <2>1. book[cn].dev \in Devices /\ RemoveRules(book[cn]) \in Seq(Commands)
    BY <1>1, PlansTyped DEF Entry
  <2>. QED
    BY <2>1, UndoTyped DEF Unshape
<1>3. book' = [book EXCEPT ![cn] = NoEntry] /\ run' = [run EXCEPT !.todo = @ \ {cn}]
  BY DEF Unshape
<1>4. book' \in [CNs -> Entry \cup {NoEntry}] /\ Booked' = Booked \ {cn}
      /\ \A o \in Booked' : book'[o] = book[o]
  BY <1>3 DEF Booked
<1>5. /\ run' \in Run /\ run'.pc = run.pc /\ run'.row = run.row /\ run'.todo = run.todo \ {cn}
      /\ run.pc \in {"remove", "clear"}
  BY <1>3 DEF Run, Unshape
<1>6. RunOK'
  BY <1>4, <1>5 DEF RunOK
<1>7. BookOK'
  BY <1>0, <1>4 DEF BookOK
<1>. QED
  BY <1>0, <1>2, <1>4, <1>5, <1>6, <1>7 DEF Counted

LEMMA RemoveEndLimits ==
    ASSUME LimitsInv, RemoveEnd
    PROVE  LimitsInv'
<1>. USE DEF LimitsInv, BandwidthTypeOK
<1>0. UNCHANGED <<instance, peers, kernel, book, ceiling, next, fresh, hurt, changes, failures>>
  BY DEF RemoveEnd, rows, enforcer
<1>1. run.pc = "remove" /\ run.row # NoInstance /\ run.row \in Rows /\ run.todo = {}
      /\ run.row.role = "server"
  BY DEF RemoveEnd, RunOK, Run
<1>2. CASE run.row.dev = NoDev
  <2>1. run' = [run EXCEPT !.pc = "device"]
    BY <1>2 DEF RemoveEnd
  <2>2. run' \in Run /\ run'.pc = "device" /\ run'.row = run.row
    BY <2>1 DEF Run
  <2>. QED
    BY <1>0, <1>1, <2>2 DEF RunOK, BookOK, Booked
<1>3. CASE run.row.dev # NoDev
  <2>1. run' = [run EXCEPT !.pc = "apply", !.todo = Desired(run.peers)]
    BY <1>3 DEF RemoveEnd
  <2>2. Desired(run.peers) \in SUBSET CNs
    BY DEF Desired
  <2>3. run' \in Run /\ run'.pc = "apply" /\ run'.row = run.row /\ run'.peers = run.peers
        /\ run'.todo = Desired(run.peers)
    BY <2>1, <2>2 DEF Run
  <2>4. run.row.dev \in Devices
    BY <1>1, <1>3 DEF Rows
  <2>. QED
    BY <1>0, <1>1, <2>3, <2>4 DEF RunOK, BookOK, Booked
<1>. QED
  BY <1>2, <1>3

LEMMA ApplyEndLimits ==
    ASSUME LimitsInv, ApplyEnd
    PROVE  LimitsInv'
<1>. USE DEF LimitsInv, BandwidthTypeOK
<1>0. UNCHANGED <<instance, peers, kernel, book, ceiling, next, fresh, hurt, changes, failures>>
  BY DEF ApplyEnd, rows, enforcer
<1>1. run' \in Run /\ run'.pc = "device" /\ run'.row = run.row /\ run.row # NoInstance
  BY DEF ApplyEnd, RunOK, Run
<1>. QED
  BY <1>0, <1>1 DEF RunOK, BookOK, Booked

(* What Apply works on.                                                      *)
LEMMA ApplyTyped ==
    ASSUME LimitsInv, NEW cn \in CNs, run.pc = "apply", run.todo # {}, cn = Min(run.todo)
    PROVE  /\ cn \in run.todo /\ cn \in Desired(run.peers) /\ run.row.dev \in Devices
           /\ \A i \in Ids : LET new == Wanted(run.peers[cn], run.row.dev, i) IN
                 /\ new \in Entry /\ Plan(new) \in Seq(Commands) /\ Len(Plan(new)) >= 1
                 /\ new.rx > 0 \/ new.tx > 0
           /\ book[cn] # NoEntry => /\ book[cn] \in Entry /\ book[cn].dev \in Devices
                                    /\ book[cn].id \in Ids
                                    /\ RemoveRules(book[cn]) \in Seq(Commands)
<1>1. cn \in run.todo /\ cn \in Desired(run.peers) /\ run.row.dev \in Devices
      /\ run.peers \in [CNs -> Peer \cup {NoPeer}]
  BY TodoTyped DEF LimitsInv, RunOK, BandwidthTypeOK, Run
<1>2. \A i \in Ids : LET new == Wanted(run.peers[cn], run.row.dev, i) IN
         new \in Entry /\ (new.rx > 0 \/ new.tx > 0)
  BY <1>1, WantedTyped
<1>3. \A e \in Entry : Plan(e) \in Seq(Commands) /\ Len(Plan(e)) >= 1
  BY PlansTyped
<1>4. book[cn] # NoEntry => book[cn] \in Entry
  BY DEF LimitsInv, BandwidthTypeOK
<1>5. \A e \in Entry : e.dev \in Devices /\ e.id \in Ids /\ RemoveRules(e) \in Seq(Commands)
  BY PlansTyped DEF Entry
<1>. HIDE DEF Entry, Ids
<1>. QED
  BY <1>1, <1>2, <1>3, <1>4, <1>5

LEMMA ApplyLimits ==
    ASSUME LimitsInv, NEW cn \in CNs, Apply(cn)
    PROVE  LimitsInv'
<1>. DEFINE d == run.row.dev
            old == book[cn]
            new == Wanted(run.peers[cn], d, IF old = NoEntry THEN next[d] ELSE old.id)
            undone == IF old = NoEntry THEN kernel ELSE TcOn(old.dev, RemoveRules(old))
            rules == Plan(new)
            wrapped == IF old = NoEntry /\ NextClass(d) = FirstClass THEN {"wrapped"} ELSE {}
            events == wrapped \cup (IF old # NoEntry /\ old.dev # d THEN {"renamed"} ELSE {})
            Ran(s) == [undone EXCEPT ![d] = Tc(@, s)]
<1>0. /\ UNCHANGED <<instance, peers, ceiling, fresh, changes>>
      /\ run.pc = "apply" /\ run.todo # {} /\ cn = Min(run.todo)
  BY DEF Apply, rows
<1>1. d \in Devices /\ old \in Entry \cup {NoEntry} /\ cn \in run.todo /\ run \in Run
      /\ next \in [Devices -> Ids]
  BY <1>0, ApplyTyped DEF LimitsInv, BandwidthTypeOK
<1>2. new \in Entry /\ rules \in Seq(Commands) /\ (new.rx > 0 \/ new.tx > 0)
      /\ Len(rules) \in Nat /\ Len(rules) >= 1
  <2>1. (IF old = NoEntry THEN next[d] ELSE old.id) \in Ids
    BY <1>0, <1>1, ApplyTyped
  <2>2. \A i \in Ids : LET n == Wanted(run.peers[cn], run.row.dev, i) IN
           n \in Entry /\ Plan(n) \in Seq(Commands) /\ Len(Plan(n)) >= 1 /\ (n.rx > 0 \/ n.tx > 0)
    BY <1>0, ApplyTyped
  <2>. QED
    BY <2>1, <2>2
<1>3. undone \in [Devices -> Kernel]
  <2>1. CASE old = NoEntry
    BY <2>1 DEF LimitsInv, BandwidthTypeOK
  <2>2. CASE old # NoEntry
    <3>1. old.dev \in Devices /\ RemoveRules(old) \in Seq(Commands)
      BY <1>0, <2>2, ApplyTyped
    <3>. QED
      BY <2>2, <3>1, KernelsTyped DEF TcOn, LimitsInv, BandwidthTypeOK
  <2>. QED
    BY <2>1, <2>2
<1>4. wrapped \subseteq Events /\ events \subseteq Events /\ "failed" \in Events
  BY DEF Events
<1>5. /\ run' = [run EXCEPT !.todo = @ \ {cn}] \/ run' = [run EXCEPT !.todo = @ \ {cn}, !.ok = FALSE]
      /\ next' \in [Devices -> Ids]
      /\ \/ UNCHANGED book
         \/ book' = [book EXCEPT ![cn] = new]
      /\ \/ UNCHANGED <<kernel, hurt, failures>>
         \/ /\ kernel' = Ran(rules)
            /\ hurt' = hurt \cup events /\ UNCHANGED failures
         \/ /\ \E n \in 0..(Len(rules) - 1) : kernel' = Ran(SubSeq(rules, 1, n))
            /\ Fail /\ hurt' = hurt \cup events \cup {"failed"}
         \/ /\ hurt' = hurt \cup wrapped /\ UNCHANGED kernel
            /\ UNCHANGED failures \/ Fail
  <2>1. NextClass(d) \in Ids
    BY <1>1, NextClassTyped
  <2>. HIDE DEF new, undone, rules, wrapped, events, old, Ids
  <2>2. CASE Same(old, new)
    <3>1. /\ run' = [run EXCEPT !.todo = @ \ {cn}]
          /\ UNCHANGED <<kernel, book, next, hurt, failures>>
      BY <2>2 DEF Apply, old, new, d
    <3>. QED
      BY <1>1, <3>1
  <2>3. CASE ~Same(old, new)
    <3>1. /\ next' = IF old = NoEntry THEN [next EXCEPT ![d] = NextClass(d)] ELSE next
          /\ \/ /\ kernel' = Ran(rules)
                /\ book' = [book EXCEPT ![cn] = new]
                /\ run' = [run EXCEPT !.todo = @ \ {cn}]
                /\ hurt' = hurt \cup events
                /\ UNCHANGED failures
             \/ \E n \in 0..(Len(rules) - 1) :
                   /\ Fail
                   /\ kernel' = Ran(SubSeq(rules, 1, n))
                   /\ hurt' = hurt \cup events \cup {"failed"}
                   /\ run' = [run EXCEPT !.todo = @ \ {cn}, !.ok = FALSE]
                   /\ UNCHANGED book
             \/ /\ UNCHANGED failures \/ Fail
                /\ run' = [run EXCEPT !.todo = @ \ {cn}, !.ok = FALSE]
                /\ hurt' = hurt \cup wrapped
                /\ UNCHANGED <<kernel, book>>
      BY <2>3 DEF Apply, old, new, d, undone, rules, wrapped, events
    <3>2. next' \in [Devices -> Ids]
      BY <1>1, <2>1, <3>1
    <3>. QED
      BY <3>1, <3>2
  <2>. QED
    BY <2>2, <2>3
<1>5a. \A s \in Seq(Commands) : Ran(s) \in [Devices -> Kernel]
  BY <1>1, <1>3, KernelsTyped
<1>. HIDE DEF new, undone, rules, wrapped, events, Ran
<1>6. kernel' \in [Devices -> Kernel] /\ Counted
  <2>1. \A n \in 0..(Len(rules) - 1) : SubSeq(rules, 1, n) \in Seq(Commands)
    BY <1>2, Parts
  <2>3. kernel' \in [Devices -> Kernel]
    <3>1. CASE UNCHANGED kernel
      BY <3>1 DEF LimitsInv, BandwidthTypeOK
    <3>2. CASE kernel' = Ran(rules)
      BY <1>2, <1>5a, <3>2
    <3>3. CASE \E n \in 0..(Len(rules) - 1) : kernel' = Ran(SubSeq(rules, 1, n))
      BY <1>5a, <2>1, <3>3
    <3>. HIDE DEF Kernel
    <3>. QED
      BY <1>5, <3>1, <3>2, <3>3
  <2>4. UNCHANGED failures \/ Fail
    BY <1>5
  <2>5. failures' \in 0..MaxFailures
    BY <2>4, BandwidthAssumption DEF Fail, LimitsInv, BandwidthTypeOK
  <2>6. hurt' \subseteq Events /\ hurt \subseteq hurt'
    BY <1>4, <1>5 DEF LimitsInv, BandwidthTypeOK
  <2>. QED
    BY <2>3, <2>5, <2>6 DEF Counted
<1>7. /\ run' \in Run /\ run'.pc = run.pc /\ run'.row = run.row /\ run'.peers = run.peers
      /\ run'.todo = run.todo \ {cn}
  <2>1. CASE run' = [run EXCEPT !.todo = @ \ {cn}]
    BY <1>1, <2>1 DEF Run
  <2>2. CASE run' = [run EXCEPT !.todo = @ \ {cn}, !.ok = FALSE]
    BY <1>1, <2>2 DEF Run
  <2>. QED
    BY <1>5, <2>1, <2>2
<1>8. /\ book' \in [CNs -> Entry \cup {NoEntry}]
      /\ \A o \in CNs : book'[o] = book[o] \/ book'[o] = new
  BY <1>2, <1>5 DEF LimitsInv, BandwidthTypeOK
<1>9. RunOK'
  BY <1>0, <1>7 DEF LimitsInv, RunOK
<1>10. BookOK'
  BY <1>0, <1>2, <1>8 DEF LimitsInv, BookOK, Booked
<1>. QED
  BY <1>0, <1>5, <1>6, <1>7, <1>8, <1>9, <1>10 DEF LimitsInv, BandwidthTypeOK, Counted

LEMMA NoRunTyped == NoRun \in Run /\ NoRun.pc = "idle"
BY DEF NoRun, Run

(* With the run over and the book of peers as it was, the rest is types.     *)
LEMMA RunOverLimits ==
    ASSUME LimitsInv, run' = NoRun, UNCHANGED <<instance, peers, book, next, changes>>,
           kernel' \in [Devices -> Kernel], Counted, fresh' \in BOOLEAN,
           ceiling' = NoEntry \/ ceiling' = ceiling \/ ceiling' \in Ceiling,
           ceiling' \notin {NoEntry, ceiling} => ceiling'.rx > 0 \/ ceiling'.tx > 0
    PROVE  LimitsInv'
<1>1. RunOK'
  BY NoRunTyped DEF RunOK
<1>2. BookOK'
  BY DEF LimitsInv, BookOK, Booked
<1>. QED
  BY <1>1, <1>2, NoRunTyped DEF LimitsInv, BandwidthTypeOK, Counted

LEMMA NothingCounted == ASSUME LimitsInv, UNCHANGED <<hurt, failures>> PROVE Counted
BY DEF Counted, LimitsInv, BandwidthTypeOK

LEMMA ClearDeviceTyped ==
    ASSUME LimitsInv, ClearDevice
    PROVE  ceiling' = NoEntry /\ kernel' \in [Devices -> Kernel] /\ Counted
<1>1. CASE ceiling = NoEntry
  BY <1>1, NothingCounted DEF ClearDevice, LimitsInv, BandwidthTypeOK
<1>2. CASE ceiling # NoEntry
  <2>1. ceiling \in Ceiling /\ ceiling.dev \in Devices
    BY <1>2 DEF LimitsInv, BandwidthTypeOK, Ceiling
  <2>2. ceiling' = NoEntry /\ UndoOn(ceiling.dev, RemoveDeviceRules(ceiling))
    BY <1>2 DEF ClearDevice
  <2>3. RemoveDeviceRules(ceiling) \in Seq(Commands)
    BY <2>1, DevicePlansTyped
  <2>. QED
    BY <2>1, <2>2, <2>3, UndoTyped DEF LimitsInv
<1>. QED
  BY <1>1, <1>2

LEMMA SyncDoneTyped ==
    ASSUME LimitsInv, NEW ok \in BOOLEAN, SyncDone(ok)
    PROVE  run' = NoRun /\ fresh' \in BOOLEAN
BY DEF SyncDone, LimitsInv, BandwidthTypeOK, Run

LEMMA ClearEndLimits ==
    ASSUME LimitsInv, ClearEnd
    PROVE  LimitsInv'
<1>1. ceiling' = NoEntry /\ kernel' \in [Devices -> Kernel] /\ Counted
  BY ClearDeviceTyped DEF ClearEnd
<1>2. run' = NoRun /\ fresh' \in BOOLEAN
  BY SyncDoneTyped DEF ClearEnd
<1>3. UNCHANGED <<instance, peers, book, next, changes>>
  BY DEF ClearEnd, rows
<1>. QED
  BY <1>1, <1>2, <1>3, RunOverLimits

(* What SyncDevice works on.                                                 *)
NewCeiling == [rx |-> run.row.limit.rx, tx |-> run.row.limit.tx, dev |-> run.row.dev]

LEMMA SyncDeviceTyped ==
    ASSUME LimitsInv, run.pc = "device"
    PROVE  /\ run.row \in Rows /\ run.row # NoInstance
           /\ NewCeiling.rx \in Nat /\ NewCeiling.tx \in Nat
           /\ run.row.dev # NoDev => NewCeiling \in Ceiling /\ run.row.dev \in Devices
           /\ ceiling # NoEntry => /\ ceiling \in Ceiling /\ ceiling.dev \in Devices
                                   /\ RemoveDeviceRules(ceiling) \in Seq(Commands)
<1>1. run.row \in Rows /\ run.row # NoInstance
  BY DEF LimitsInv, BandwidthTypeOK, RunOK, Run
<1>2. run.row.limit \in Limits /\ run.row.dev \in Devices \cup {NoDev}
  BY <1>1 DEF Rows
<1>3. run.row.limit.rx \in Rate /\ run.row.limit.tx \in Rate
  BY <1>2, LimitsTyped
<1>4. ceiling # NoEntry => ceiling \in Ceiling
  BY DEF LimitsInv, BandwidthTypeOK
<1>5. \A c \in Ceiling : c.dev \in Devices /\ RemoveDeviceRules(c) \in Seq(Commands)
  BY DevicePlansTyped DEF Ceiling
<1>. QED
  BY <1>1, <1>2, <1>3, <1>4, <1>5, RatesAreNumbers DEF NewCeiling, Ceiling

LEMMA SyncDeviceLimits ==
    ASSUME LimitsInv, SyncDevice
    PROVE  LimitsInv'
<1>. DEFINE d == run.row.dev
            new == [rx |-> run.row.limit.rx, tx |-> run.row.limit.tx, dev |-> d]
            undone == IF ceiling = NoEntry THEN kernel
                      ELSE TcOn(ceiling.dev, RemoveDeviceRules(ceiling))
            Ran(s) == [undone EXCEPT ![d] = Tc(@, s)]
<1>0. run.pc = "device" /\ UNCHANGED <<instance, peers, book, next, changes>>
  BY DEF SyncDevice, rows
<1>1. /\ new = NewCeiling /\ new.rx \in Nat /\ new.tx \in Nat
      /\ d # NoDev => new \in Ceiling /\ d \in Devices
  BY <1>0, SyncDeviceTyped DEF NewCeiling
<1>2. undone \in [Devices -> Kernel]
  <2>1. CASE ceiling = NoEntry
    BY <2>1 DEF LimitsInv, BandwidthTypeOK
  <2>2. CASE ceiling # NoEntry
    <3>1. ceiling.dev \in Devices /\ RemoveDeviceRules(ceiling) \in Seq(Commands)
      BY <1>0, <2>2, SyncDeviceTyped
    <3>. QED
      BY <2>2, <3>1, KernelsTyped DEF TcOn, LimitsInv, BandwidthTypeOK
  <2>. QED
    BY <2>1, <2>2
<1>3. d \in Devices => \A s \in Seq(Commands) : Ran(s) \in [Devices -> Kernel]
  BY <1>2, KernelsTyped
<1>4. CASE new.rx + new.tx = 0 \/ d = NoDev
  <2>1. ClearDevice /\ SyncDone(d # NoDev)
    BY <1>4 DEF SyncDevice
  <2>2. ceiling' = NoEntry /\ kernel' \in [Devices -> Kernel] /\ Counted
    BY <2>1, ClearDeviceTyped
  <2>3. run' = NoRun /\ fresh' \in BOOLEAN
    BY <2>1, SyncDoneTyped
  <2>. QED
    BY <1>0, <2>2, <2>3, RunOverLimits
<1>5. CASE ~(new.rx + new.tx = 0 \/ d = NoDev)
  <2>. DEFINE rules == PlanDevice(new)
  <2>1. new \in Ceiling /\ d \in Devices /\ (new.rx > 0 \/ new.tx > 0)
    BY <1>1, <1>5
  <2>2. rules \in Seq(Commands) /\ \A n \in 0..(Len(rules) - 1) : SubSeq(rules, 1, n) \in Seq(Commands)
    <3>1. rules \in Seq(Commands)
      BY <2>1, DevicePlansTyped
    <3>. HIDE DEF rules
    <3>. QED
      BY <3>1, Parts
  <2>3. /\ SyncDone(TRUE) \/ SyncDone(FALSE)
        /\ \/ UNCHANGED <<kernel, ceiling, hurt, failures>>
           \/ /\ kernel' = Ran(rules) /\ ceiling' = new
              /\ hurt' = hurt \cup Shares /\ UNCHANGED failures
           \/ /\ \E n \in 0..(Len(rules) - 1) : kernel' = Ran(SubSeq(rules, 1, n))
              /\ Fail /\ UNCHANGED ceiling /\ hurt' = hurt \cup Shares \cup {"failed"}
    <3>. HIDE DEF new, Shares, SyncDone
    <3>1. CASE ceiling = new
      BY <1>5, <3>1 DEF SyncDevice, new, d
    <3>2. CASE ceiling # new
      BY <1>5, <3>2 DEF SyncDevice, new, d
    <3>. QED
      BY <3>1, <3>2
  <2>. HIDE DEF rules, new, Ran, undone
  <2>4. kernel' \in [Devices -> Kernel]
    <3>1. CASE UNCHANGED kernel
      BY <3>1 DEF LimitsInv, BandwidthTypeOK
    <3>2. CASE kernel' = Ran(rules)
      BY <1>3, <2>1, <2>2, <3>2
    <3>3. CASE \E n \in 0..(Len(rules) - 1) : kernel' = Ran(SubSeq(rules, 1, n))
      BY <1>3, <2>1, <2>2, <3>3
    <3>. HIDE DEF Kernel
    <3>. QED
      BY <2>3, <3>1, <3>2, <3>3
  <2>5. Counted
    <3>1. Shares \subseteq Events /\ "failed" \in Events
      BY DEF Shares, Events
    <3>2. failures' \in 0..MaxFailures
      BY <2>3, BandwidthAssumption DEF Fail, LimitsInv, BandwidthTypeOK
    <3>3. hurt' \subseteq Events /\ hurt \subseteq hurt'
      BY <2>3, <3>1 DEF LimitsInv, BandwidthTypeOK
    <3>. QED
      BY <3>2, <3>3 DEF Counted
  <2>6. run' = NoRun /\ fresh' \in BOOLEAN
    BY <2>3, SyncDoneTyped
  <2>7. ceiling' = ceiling \/ ceiling' = new
    BY <2>3
  <2>. QED
    BY <1>0, <2>1, <2>4, <2>5, <2>6, <2>7, RunOverLimits
<1>. QED
  BY <1>4, <1>5

LEMMA EnvironmentLimits ==
    ASSUME LimitsInv, Environment
    PROVE  LimitsInv'
<1>. USE DEF LimitsInv
<1>0. changes' \in 0..MaxChanges /\ fresh' = FALSE
  <2>1. Change
    BY DEF Environment, DropPeer, SetPeer, SetRow, ProcessRestart, CreateInstance,
        DeleteInstance, EnforcerRestart
  <2>2. changes \in 0..MaxChanges
    BY DEF BandwidthTypeOK
  <2>. QED
    BY <2>1, <2>2, BandwidthAssumption DEF Change
<1>1. ASSUME UNCHANGED <<enforcer, run, failures>>, instance' \in Rows \cup {NoInstance},
             peers' \in [CNs -> Peer \cup {NoPeer}], kernel' \in [Devices -> Kernel],
             hurt' \subseteq Events
      PROVE  LimitsInv'
  BY <1>0, <1>1 DEF enforcer, BandwidthTypeOK, RunOK, BookOK, Booked
<1>2. ASSUME NEW cn \in CNs, DropPeer(cn) PROVE LimitsInv'
  BY <1>1, <1>2 DEF DropPeer, BandwidthTypeOK
<1>3. ASSUME NEW cn \in CNs, NEW ip \in IPs \cup {NoIP}, NEW s \in Shapes, NEW b \in BOOLEAN,
             SetPeer(cn, ip, s, b)
      PROVE  LimitsInv'
  <2>1. [ip |-> ip, limit |-> s, suspended |-> b] \in Peer
    BY DEF Peer, Address
  <2>2. peers' \in [CNs -> Peer \cup {NoPeer}]
    BY <1>3, <2>1 DEF SetPeer, BandwidthTypeOK
  <2>. QED
    BY <1>1, <1>3, <2>2 DEF SetPeer, BandwidthTypeOK
<1>4. ASSUME NEW b \in BOOLEAN, NEW d \in Devices \cup {NoDev}, NEW l \in Limits, SetRow(b, d, l)
      PROVE  LimitsInv'
  <2>1. instance \in Rows /\ instance' = [instance EXCEPT !.enabled = b, !.dev = d, !.limit = l]
    BY <1>4 DEF SetRow, BandwidthTypeOK
  <2>2. instance' \in Rows
    BY <2>1 DEF Rows
  <2>. QED
    BY <1>1, <1>4, <2>2 DEF SetRow, BandwidthTypeOK
<1>5. ASSUME NEW d \in Devices, ProcessRestart(d) PROVE LimitsInv'
  <2>1. kernel' \in [Devices -> Kernel]
    <3>. HIDE DEF Kernel
    <3>. QED
      BY <1>5, BareIsTyped DEF ProcessRestart, BandwidthTypeOK
  <2>2. hurt' \subseteq Events
    BY <1>5 DEF ProcessRestart, BandwidthTypeOK, Events
  <2>. QED
    BY <1>1, <1>5, <2>1, <2>2 DEF ProcessRestart, rows, BandwidthTypeOK
<1>6. ASSUME NEW r \in {"server", "client"}, NEW d \in Devices, CreateInstance(r, d)
      PROVE  LimitsInv'
  <2>1. instance' \in Rows
    BY <1>6 DEF CreateInstance, Rows, Limits
  <2>. QED
    BY <1>1, <1>6, <2>1 DEF CreateInstance, BandwidthTypeOK
<1>7. CASE DeleteInstance
  <2>1. kernel' \in [Devices -> Kernel]
    <3>. HIDE DEF Kernel
    <3>. QED
      BY <1>7, BareIsTyped DEF DeleteInstance
  <2>2. hurt' \subseteq Events
    BY <1>7 DEF DeleteInstance, BandwidthTypeOK, Events
  <2>3. peers' \in [CNs -> Peer \cup {NoPeer}] /\ instance' \in Rows \cup {NoInstance}
    BY <1>7 DEF DeleteInstance
  <2>. QED
    BY <1>1, <1>7, <2>1, <2>2, <2>3 DEF DeleteInstance
<1>8. CASE EnforcerRestart
  <2>1. UNCHANGED <<instance, peers, kernel, failures>> /\ run' = NoRun
        /\ ceiling' = NoEntry /\ book' = [cn \in CNs |-> NoEntry]
    BY <1>8 DEF EnforcerRestart, rows
  <2>2. next' \in [Devices -> Ids]
    BY <1>8, RatesAreNumbers DEF EnforcerRestart
  <2>3. hurt' \subseteq Events
    BY <1>8 DEF EnforcerRestart, BandwidthTypeOK, Events
  <2>4. Booked' = {}
    BY <2>1 DEF Booked
  <2>5. BandwidthTypeOK'
    <3>. HIDE DEF Kernel, Run, Rows, Peer, Entry
    <3>. QED
      BY <1>0, <2>1, <2>2, <2>3, NoRunTyped DEF BandwidthTypeOK
  <2>. QED
    BY <2>1, <2>4, <2>5, NoRunTyped DEF RunOK, BookOK
<1>. QED
  BY <1>2, <1>3, <1>4, <1>5, <1>6, <1>7, <1>8 DEF Environment

LEMMA NextLimits ==
    ASSUME LimitsInv, [BandwidthNext]_bandwidthVars
    PROVE  LimitsInv'
<1>1. CASE UNCHANGED bandwidthVars
  BY <1>1 DEF bandwidthVars, rows, enforcer, LimitsInv, BandwidthTypeOK, RunOK, BookOK, Booked
<1>2. CASE Sync
  BY <1>2, SyncBeginLimits, RemoveEndLimits, ApplyEndLimits, SyncDeviceLimits, ClearEndLimits,
      UnshapeLimits, ApplyLimits DEF Sync
<1>. QED
  BY <1>1, <1>2, EnvironmentLimits DEF BandwidthNext

LEMMA LimitsInvariant == BandwidthSpec => []LimitsInv
<1>1. LimitsInv /\ [BandwidthNext]_bandwidthVars => LimitsInv'
  BY NextLimits
<1>. QED
  BY <1>1, InitLimits, PTL DEF BandwidthSpec

(* Whatever rows change while a sync is running, it applies only limits that *)
(* someone set, to addresses, devices and classes that exist, and class ids  *)
(* stay in their range (Enforcer.Sync, Enforcer.allocClassID).               *)
THEOREM LimitsAreTyped == BandwidthSpec => []BandwidthTypeOK
<1>1. LimitsInv => BandwidthTypeOK
  BY DEF LimitsInv
<1>. QED
  BY <1>1, LimitsInvariant, PTL

------------------------------------------------------------------------------
(* What plans do.                                                            *)

LEMMA TcJoined ==
    ASSUME NEW k, NEW s, NEW t, ASeq(s), ASeq(t)
    PROVE  Tc(k, s \o t) = Tc(Tc(k, s), t)
<1>. DEFINE u == s \o t
<1>0. /\ ASeq(u) /\ Len(s) \in Nat /\ Len(t) \in Nat
      /\ DOMAIN u = 1..(Len(s) + Len(t))
      /\ \A i \in 1..Len(s) : u[i] = s[i]
      /\ \A i \in 1..Len(t) : u[Len(s) + i] = t[i]
  BY Joined
<1>1. Len(u) = Len(s) + Len(t)
  BY <1>0 DEF ASeq
<1>. HIDE DEF u
<1>2. PICK g : /\ g[0] = k
               /\ \A i \in 1..Len(u) : g[i] = Exec(g[i - 1], u[i])
               /\ Tc(k, u) = g[Len(u)]
  BY <1>0, TcIsChain
<1>3. PICK g1 : /\ g1[0] = k
                /\ \A i \in 1..Len(s) : g1[i] = Exec(g1[i - 1], s[i])
                /\ Tc(k, s) = g1[Len(s)]
  BY TcIsChain
<1>4. PICK g2 : /\ g2[0] = Tc(k, s)
                /\ \A i \in 1..Len(t) : g2[i] = Exec(g2[i - 1], t[i])
                /\ Tc(Tc(k, s), t) = g2[Len(t)]
  BY TcIsChain
<1>. DEFINE I == {n \in Nat : n <= Len(s) => g[n] = g1[n]}
            J == {n \in Nat : n <= Len(t) => g[Len(s) + n] = g2[n]}
<1>5. Nat \subseteq I
  <2>1. 0 \in I
    BY <1>2, <1>3
  <2>2. ASSUME NEW n \in Nat, n \in I PROVE n + 1 \in I
    <3>1. CASE n + 1 <= Len(s)
      <4>1. n + 1 \in 1..Len(s) /\ n + 1 \in 1..Len(u) /\ (n + 1) - 1 = n /\ n <= Len(s)
        BY <1>0, <1>1, <3>1
      <4>2. g[n + 1] = Exec(g[n], u[n + 1]) /\ g1[n + 1] = Exec(g1[n], s[n + 1])
        BY <1>2, <1>3, <4>1
      <4>. QED
        BY <1>0, <2>2, <4>1, <4>2
    <3>. QED
      BY <3>1
  <2>. HIDE DEF I
  <2>. QED
    BY <2>1, <2>2, NaturalsIn
<1>6. g[Len(s)] = Tc(k, s)
  BY <1>0, <1>3, <1>5
<1>7. Nat \subseteq J
  <2>1. 0 \in J
    BY <1>0, <1>4, <1>6
  <2>2. ASSUME NEW n \in Nat, n \in J PROVE n + 1 \in J
    <3>1. CASE n + 1 <= Len(t)
      <4>1. /\ n + 1 \in 1..Len(t) /\ (n + 1) - 1 = n /\ n <= Len(t)
            /\ Len(s) + (n + 1) \in 1..Len(u) /\ (Len(s) + (n + 1)) - 1 = Len(s) + n
        BY <1>0, <1>1, <3>1
      <4>2. /\ g[Len(s) + (n + 1)] = Exec(g[Len(s) + n], u[Len(s) + (n + 1)])
            /\ g2[n + 1] = Exec(g2[n], t[n + 1])
        BY <1>2, <1>4, <4>1
      <4>. QED
        BY <1>0, <2>2, <4>1, <4>2
    <3>. QED
      BY <3>1
  <2>. HIDE DEF J
  <2>. QED
    BY <2>1, <2>2, NaturalsIn
<1>8. g[Len(s) + Len(t)] = g2[Len(t)]
  BY <1>0, <1>7
<1>. QED
  BY <1>1, <1>2, <1>4, <1>8 DEF u

LEMMA ShortSeqs ==
    /\ \A a : ASeq(<<a>>)
    /\ \A a, b : ASeq(<<a, b>>)
<1>1. \A a : <<a>> \in Seq({a})
  OBVIOUS
<1>2. \A a, b : <<a, b>> \in Seq({a, b})
  OBVIOUS
<1>. QED
  BY <1>1, <1>2 DEF ASeq

LEMMA RemoveEffect ==
    ASSUME NEW k \in Kernel, NEW e \in Entry
    PROVE  LET K == Tc(k, RemoveRules(e)) IN
           /\ K \in Kernel /\ K.default = k.default /\ K.whole = k.whole
           /\ \A i \in Ids \ {e.id} : /\ K.filter[i] = k.filter[i]
                                      /\ K.class[i] = k.class[i]
                                      /\ K.police[i] = k.police[i]
           /\ K.filter[e.id] = IF e.rx > 0 THEN NoIP ELSE k.filter[e.id]
           /\ K.police[e.id].ip = IF e.tx > 0 THEN NoIP ELSE k.police[e.id].ip
<1>. DEFINE K == Tc(k, RemoveRules(e))
            P == Command("police", e.id, NoIP, 0)
            Q == Command("delClass", e.id, NoIP, 0)
            F == Command("filter", e.id, NoIP, 0)
            kp == Exec(k, P)
<1>0. e.id \in Ids /\ NoIP \in Address /\ 0 \in Rate /\ K \in Kernel
  BY PlansTyped, TcTyped, RatesAreNumbers DEF Entry
<1>1. /\ kp \in Kernel /\ kp.default = k.default /\ kp.whole = k.whole
      /\ kp.filter = k.filter /\ kp.class = k.class
      /\ Sets(k.police, kp.police, e.id, [ip |-> NoIP, rate |-> 0])
  BY <1>0, ExecPolice
<1>2. ASSUME NEW q \in Kernel
      PROVE  LET G == Exec(Exec(q, Q), F) IN
             /\ G.default = q.default /\ G.whole = q.whole /\ G.police = q.police
             /\ \A i \in Ids \ {e.id} : G.filter[i] = q.filter[i] /\ G.class[i] = q.class[i]
             /\ G.filter[e.id] = NoIP
  <2>. DEFINE q1 == Exec(q, Q)
              q2 == Exec(q1, F)
  <2>1. /\ q1 \in Kernel /\ q1.default = q.default /\ q1.whole = q.whole
        /\ q1.filter = q.filter /\ q1.police = q.police
        /\ \A i \in Ids \ {e.id} : q1.class[i] = q.class[i]
    BY <1>0, ExecDelClass
  <2>. HIDE DEF q1, Q
  <2>2. /\ q2.default = q1.default /\ q2.whole = q1.whole
        /\ q2.class = q1.class /\ q2.police = q1.police
        /\ Sets(q1.filter, q2.filter, e.id, NoIP)
    BY <1>0, <2>1, ExecFilter
  <2>. HIDE DEF q2, F
  <2>3. /\ q2.default = q.default /\ q2.whole = q.whole /\ q2.police = q.police
        /\ \A i \in Ids \ {e.id} : q2.filter[i] = q.filter[i] /\ q2.class[i] = q.class[i]
        /\ q2.filter[e.id] = NoIP
    BY <2>1, <2>2 DEF Sets
  <2>. QED
    BY <2>3 DEF q1, q2
<1>. DEFINE p == IF e.tx > 0 THEN <<P>> ELSE <<>>
            q == IF e.rx > 0 THEN <<Q, F>> ELSE <<>>
            k1 == Tc(k, p)
<1>3. ASeq(p) /\ ASeq(q)
  BY ShortSeqs, EmptyIsSeq
<1>4. K = Tc(k1, q)
  BY <1>3, TcJoined DEF RemoveRules
<1>5. e.tx > 0 => k1 = kp
  BY TcOfOne
<1>6. ~(e.tx > 0) => k1 = k
  BY TcOfNone
<1>7. e.rx > 0 => K = Exec(Exec(k1, Q), F)
  BY <1>4, TcOfTwo
<1>8. ~(e.rx > 0) => K = k1
  BY <1>4, TcOfNone
<1>. HIDE DEF P, Q, F, p, q, kp, k1, K
<1>9. /\ k1 \in Kernel /\ k1.default = k.default /\ k1.whole = k.whole
      /\ k1.filter = k.filter /\ k1.class = k.class
      /\ \A i \in Ids \ {e.id} : k1.police[i] = k.police[i]
      /\ k1.police[e.id].ip = IF e.tx > 0 THEN NoIP ELSE k.police[e.id].ip
  BY <1>0, <1>1, <1>5, <1>6 DEF Sets
<1>10. CASE e.rx > 0
  BY <1>0, <1>2, <1>7, <1>9, <1>10 DEF K
<1>11. CASE ~(e.rx > 0)
  BY <1>0, <1>8, <1>9, <1>11 DEF K
<1>. QED
  BY <1>10, <1>11

LEMMA PlanEffect ==
    ASSUME NEW k \in Kernel, NEW e \in Entry
    PROVE  LET K == Tc(k, Plan(e)) IN
           /\ K \in Kernel /\ K.default = 999 /\ K.whole = k.whole
           /\ e.rx > 0 => K.filter[e.id] = e.ip /\ K.class[e.id] = e.rx
           /\ ~(e.rx > 0) => K.filter[e.id] = k.filter[e.id] /\ K.class[e.id] = k.class[e.id]
           /\ K.police[e.id] = IF e.tx > 0 THEN [ip |-> e.ip, rate |-> e.tx] ELSE k.police[e.id]
           /\ \A i \in Ids \ {e.id} : /\ K.filter[i] = k.filter[i]
                                      /\ K.class[i] = k.class[i]
                                      /\ K.police[i] = k.police[i]
<1>. DEFINE K == Tc(k, Plan(e))
            R == Command("root", 999, NoIP, 0)
            L == Command("class", e.id, NoIP, e.rx)
            F == Command("filter", e.id, e.ip, 0)
            P == Command("police", e.id, e.ip, e.tx)
            k1 == Exec(k, R)
            l == Exec(k1, L)
            m == Exec(l, F)
            b == IF e.rx > 0 THEN <<L, F>> ELSE <<>>
            c == IF e.tx > 0 THEN <<P>> ELSE <<>>
            k2 == Tc(k1, b)
<1>0. e.id \in Ids /\ e.ip \in Address /\ e.rx \in Rate /\ e.tx \in Rate /\ K \in Kernel
  BY PlansTyped, TcTyped DEF Entry, Address
<1>1. /\ k1 \in Kernel /\ k1.default = 999 /\ k1.whole = k.whole
      /\ k1.class = k.class /\ k1.filter = k.filter /\ k1.police = k.police
  <2>1. 999 \in {FirstClass, 999}
    OBVIOUS
  <2>. QED
    BY <2>1, ExecRoot
<1>2. ASeq(b) /\ ASeq(c) /\ ASeq(<<R>>)
  BY ShortSeqs, EmptyIsSeq
<1>3. K = Tc(k2, c)
  <2>1. ASeq(<<R>> \o b)
    BY <1>2, Joined
  <2>2. Plan(e) = <<R>> \o b \o c
    BY DEF Plan
  <2>. HIDE DEF b, c, R
  <2>3. K = Tc(Tc(k, <<R>> \o b), c)
    BY <1>2, <2>1, <2>2, TcJoined
  <2>4. Tc(k, <<R>> \o b) = Tc(Tc(k, <<R>>), b)
    BY <1>2, TcJoined
  <2>. QED
    BY <2>3, <2>4, TcOfOne
<1>. HIDE DEF K, k1, R
<1>4. /\ l \in Kernel /\ l.default = 999 /\ l.whole = k.whole
      /\ l.filter = k.filter /\ l.police = k.police
      /\ Sets(k.class, l.class, e.id, e.rx)
  BY <1>0, <1>1, ExecClass
<1>. HIDE DEF L, l
<1>5. /\ m \in Kernel /\ m.default = 999 /\ m.whole = k.whole
      /\ m.class = l.class /\ m.police = k.police
      /\ Sets(k.filter, m.filter, e.id, e.ip)
  BY <1>0, <1>4, ExecFilter
<1>6. e.rx > 0 => k2 = m
  BY TcOfTwo DEF l
<1>7. ~(e.rx > 0) => k2 = k1
  BY TcOfNone
<1>. HIDE DEF F, m, b, k2
<1>8. /\ k2 \in Kernel /\ k2.default = 999 /\ k2.whole = k.whole /\ k2.police = k.police
      /\ \A i \in Ids \ {e.id} : k2.filter[i] = k.filter[i] /\ k2.class[i] = k.class[i]
      /\ e.rx > 0 => k2.filter[e.id] = e.ip /\ k2.class[e.id] = e.rx
      /\ ~(e.rx > 0) => k2.filter[e.id] = k.filter[e.id] /\ k2.class[e.id] = k.class[e.id]
  <2>1. CASE e.rx > 0
    BY <1>4, <1>5, <1>6, <2>1 DEF Sets
  <2>2. CASE ~(e.rx > 0)
    BY <1>1, <1>7, <2>2
  <2>. QED
    BY <2>1, <2>2
<1>9. CASE e.tx > 0
  <2>1. K = Exec(k2, P)
    BY <1>3, <1>9, TcOfOne
  <2>2. LET q == Exec(k2, P) IN
        /\ q.default = k2.default /\ q.whole = k2.whole /\ q.class = k2.class /\ q.filter = k2.filter
        /\ Sets(k2.police, q.police, e.id, [ip |-> e.ip, rate |-> e.tx])
    BY <1>0, <1>8, ExecPolice
  <2>. HIDE DEF P, c
  <2>3. /\ K.default = k2.default /\ K.whole = k2.whole /\ K.class = k2.class /\ K.filter = k2.filter
        /\ Sets(k2.police, K.police, e.id, [ip |-> e.ip, rate |-> e.tx])
    BY <2>1, <2>2
  <2>. QED
    BY <1>0, <1>8, <1>9, <2>3 DEF Sets, K
<1>10. CASE ~(e.tx > 0)
  <2>1. K = k2
    BY <1>3, <1>10, TcOfNone
  <2>. QED
    BY <1>0, <1>8, <1>10, <2>1 DEF K
<1>. QED
  BY <1>9, <1>10

LEMMA PlanWhole ==
    ASSUME NEW k \in Kernel, NEW e \in Entry
    PROVE  Tc(k, Plan(e)).default = 999 /\ Tc(k, Plan(e)).whole = k.whole
<1>. DEFINE K == Tc(k, Plan(e))
<1>1. /\ K \in Kernel /\ K.default = 999 /\ K.whole = k.whole
      /\ K.police[e.id] = IF e.tx > 0 THEN [ip |-> e.ip, rate |-> e.tx] ELSE k.police[e.id]
  BY PlanEffect
<1>. QED
  BY <1>1

LEMMA PlanDeviceEffect ==
    ASSUME NEW k \in Kernel, NEW c \in Ceiling
    PROVE  LET K == Tc(k, PlanDevice(c)) IN
           /\ K \in Kernel /\ K.filter = k.filter /\ K.police = k.police
           /\ c.tx > 0 => K.default = FirstClass /\ K.class[FirstClass] = c.tx
           /\ ~(c.tx > 0) => K.default = k.default
           /\ K.whole = IF c.rx > 0 THEN c.rx ELSE k.whole
<1>. DEFINE K == Tc(k, PlanDevice(c))
            R == Command("root", FirstClass, NoIP, 0)
            L == Command("class", FirstClass, NoIP, c.tx)
            W == Command("whole", 0, NoIP, c.rx)
            r == Exec(k, R)
            l == Exec(r, L)
            a == IF c.tx > 0 THEN <<R, L>> ELSE <<>>
            b == IF c.rx > 0 THEN <<W>> ELSE <<>>
            k1 == Tc(k, a)
<1>0. c.rx \in Rate /\ c.tx \in Rate /\ FirstClass \in Ids /\ K \in Kernel
  BY DevicePlansTyped, TcTyped, RatesAreNumbers DEF Ceiling
<1>1. /\ r \in Kernel /\ r.default = FirstClass /\ r.whole = k.whole
      /\ r.class = k.class /\ r.filter = k.filter /\ r.police = k.police
  <2>1. FirstClass \in {FirstClass, 999}
    OBVIOUS
  <2>. QED
    BY <2>1, ExecRoot
<1>. HIDE DEF r, R
<1>2. /\ l \in Kernel /\ l.default = FirstClass /\ l.whole = k.whole
      /\ l.filter = k.filter /\ l.police = k.police
      /\ l.class[FirstClass] = c.tx
  <2>1. /\ l \in Kernel /\ l.default = r.default /\ l.whole = r.whole
        /\ l.filter = r.filter /\ l.police = r.police
        /\ Sets(r.class, l.class, FirstClass, c.tx)
    BY <1>0, <1>1, ExecClass
  <2>. QED
    BY <1>1, <2>1 DEF Sets
<1>3. ASeq(a) /\ ASeq(b)
  BY ShortSeqs, EmptyIsSeq
<1>4. K = Tc(k1, b)
  BY <1>3, TcJoined DEF PlanDevice, R
<1>5. c.tx > 0 => k1 = l
  BY TcOfTwo DEF r
<1>6. ~(c.tx > 0) => k1 = k
  BY TcOfNone
<1>. HIDE DEF L, l, a, k1, K
<1>7. /\ k1 \in Kernel /\ k1.filter = k.filter /\ k1.police = k.police /\ k1.whole = k.whole
      /\ c.tx > 0 => k1.default = FirstClass /\ k1.class[FirstClass] = c.tx
      /\ ~(c.tx > 0) => k1.default = k.default
  BY <1>2, <1>5, <1>6
<1>8. CASE c.rx > 0
  <2>1. K = Exec(k1, W)
    BY <1>4, <1>8, TcOfOne
  <2>2. LET q == Exec(k1, W) IN
        /\ q.default = k1.default /\ q.class = k1.class /\ q.filter = k1.filter
        /\ q.police = k1.police /\ q.whole = c.rx
    BY <1>0, <1>7, ExecWhole
  <2>. HIDE DEF W, b
  <2>. QED
    BY <1>0, <1>7, <1>8, <2>1, <2>2 DEF K
<1>9. CASE ~(c.rx > 0)
  <2>1. K = k1
    BY <1>4, <1>9, TcOfNone
  <2>. QED
    BY <1>0, <1>7, <1>9, <2>1 DEF K
<1>. QED
  BY <1>8, <1>9

LEMMA RemoveDeviceEffect ==
    ASSUME NEW k \in Kernel, NEW c \in Ceiling,
           \A i \in Ids : k.filter[i] = NoIP /\ k.police[i].ip = NoIP
    PROVE  LET K == Tc(k, RemoveDeviceRules(c)) IN
           /\ K \in Kernel
           /\ \A i \in Ids : K.filter[i] = NoIP /\ K.police[i].ip = NoIP
           /\ K.default = IF c.tx > 0 THEN 0 ELSE k.default
           /\ K.whole = IF c.rx > 0 THEN 0 ELSE k.whole
<1>. DEFINE K == Tc(k, RemoveDeviceRules(c))
            P == Command("delIngress", 0, NoIP, 0)
            Q == Command("delRoot", 0, NoIP, 0)
            kp == Exec(k, P)
            p == IF c.rx > 0 THEN <<P>> ELSE <<>>
            q == IF c.tx > 0 THEN <<Q>> ELSE <<>>
            k1 == Tc(k, p)
<1>0. K \in Kernel
  BY DevicePlansTyped, TcTyped
<1>1. /\ kp \in Kernel /\ kp.default = k.default /\ kp.filter = k.filter /\ kp.whole = 0
      /\ \A i \in Ids : kp.police[i].ip = NoIP
  BY ExecDelIngress
<1>2. ASeq(p) /\ ASeq(q)
  BY ShortSeqs, EmptyIsSeq
<1>3. K = Tc(k1, q)
  BY <1>2, TcJoined DEF RemoveDeviceRules
<1>4. c.rx > 0 => k1 = kp
  BY TcOfOne
<1>5. ~(c.rx > 0) => k1 = k
  BY TcOfNone
<1>. HIDE DEF P, kp, p, k1, K
<1>6. /\ k1 \in Kernel /\ k1.default = k.default /\ k1.filter = k.filter
      /\ k1.whole = IF c.rx > 0 THEN 0 ELSE k.whole
      /\ \A i \in Ids : k1.police[i].ip = NoIP
  BY <1>1, <1>4, <1>5
<1>7. CASE c.tx > 0
  <2>1. K = Exec(k1, Q)
    BY <1>3, <1>7, TcOfOne
  <2>2. LET x == Exec(k1, Q) IN
        /\ x.default = 0 /\ (\A i \in Ids : x.filter[i] = NoIP)
        /\ x.police = k1.police /\ x.whole = k1.whole
    BY <1>6, ExecDelRoot
  <2>. HIDE DEF Q, q
  <2>. QED
    BY <1>0, <1>6, <1>7, <2>1, <2>2 DEF K
<1>8. CASE ~(c.tx > 0)
  <2>1. K = k1
    BY <1>3, <1>8, TcOfNone
  <2>. QED
    BY <1>0, <1>6, <1>8, <2>1 DEF K
<1>. QED
  BY <1>7, <1>8

------------------------------------------------------------------------------
(* The book tells what the kernel does.                                      *)

LEMMA RemovedIsGone ==
    ASSUME NEW b, NEW cns, NEW cn \in cns, NEW k \in Kernel,
           \A a \in cns : b[a] \in Entry,
           \A a \in cns : b[a].id = b[cn].id => a = cn,
           ShapesPeers(b, k, cns)
    PROVE  /\ ShapesPeers(b, Tc(k, RemoveRules(b[cn])), cns \ {cn})
           /\ Tc(k, RemoveRules(b[cn])).filter[b[cn].id] = NoIP
           /\ Tc(k, RemoveRules(b[cn])).police[b[cn].id].ip = NoIP
<1>. DEFINE e == b[cn]
            K == Tc(k, RemoveRules(e))
<1>1. e \in Entry /\ e.id \in Ids
  BY DEF Entry
<1>2. /\ \A i \in Ids \ {e.id} : /\ K.filter[i] = k.filter[i]
                                 /\ K.class[i] = k.class[i]
                                 /\ K.police[i] = k.police[i]
      /\ K.filter[e.id] = IF e.rx > 0 THEN NoIP ELSE k.filter[e.id]
      /\ K.police[e.id].ip = IF e.tx > 0 THEN NoIP ELSE k.police[e.id].ip
  BY <1>1, RemoveEffect
<1>. HIDE DEF K
<1>3. \A a \in cns \ {cn} : b[a].id \in Ids \ {e.id}
  BY DEF Entry
<1>4. K.filter[e.id] = NoIP /\ K.police[e.id].ip = NoIP
  BY <1>1, <1>2 DEF ShapesPeers
<1>5. ShapesPeers(b, K, cns \ {cn})
  <2>1. ASSUME NEW a \in cns \ {cn}
        PROVE  /\ b[a].rx > 0 => K.filter[b[a].id] = b[a].ip /\ K.class[b[a].id] = b[a].rx
               /\ b[a].tx > 0 => K.police[b[a].id] = [ip |-> b[a].ip, rate |-> b[a].tx]
    BY <1>2, <1>3, <2>1 DEF ShapesPeers
  <2>2. ASSUME NEW i \in Ids
        PROVE  /\ K.filter[i] = NoIP \/ \E a \in cns \ {cn} : b[a].id = i /\ b[a].rx > 0
               /\ K.police[i].ip = NoIP \/ \E a \in cns \ {cn} : b[a].id = i /\ b[a].tx > 0
    <3>1. CASE i = e.id
      BY <1>4, <3>1
    <3>2. CASE i # e.id
      <4>1. K.filter[i] = k.filter[i] /\ K.police[i] = k.police[i]
        BY <1>2, <3>2
      <4>2. /\ k.filter[i] = NoIP \/ \E a \in cns : b[a].id = i /\ b[a].rx > 0
            /\ k.police[i].ip = NoIP \/ \E a \in cns : b[a].id = i /\ b[a].tx > 0
        BY DEF ShapesPeers
      <4>. QED
        BY <3>2, <4>1, <4>2
    <3>. QED
      BY <3>1, <3>2
  <2>. QED
    BY <2>1, <2>2 DEF ShapesPeers
<1>. QED
  BY <1>4, <1>5 DEF K

LEMMA PlannedIsShaped ==
    ASSUME NEW b, NEW c, NEW cns, NEW cn, cn \notin cns, NEW k \in Kernel, NEW e \in Entry,
           \A a \in cns : b[a] \in Entry /\ b[a].id # e.id /\ c[a] = b[a],
           c[cn] = e, ShapesPeers(b, k, cns),
           k.filter[e.id] = NoIP, k.police[e.id].ip = NoIP
    PROVE  ShapesPeers(c, Tc(k, Plan(e)), cns \cup {cn})
<1>. DEFINE K == Tc(k, Plan(e))
<1>1. e.id \in Ids
  BY DEF Entry
<1>2. /\ \A i \in Ids \ {e.id} : /\ K.filter[i] = k.filter[i]
                                 /\ K.class[i] = k.class[i]
                                 /\ K.police[i] = k.police[i]
      /\ e.rx > 0 => K.filter[e.id] = e.ip /\ K.class[e.id] = e.rx
      /\ ~(e.rx > 0) => K.filter[e.id] = k.filter[e.id]
      /\ K.police[e.id] = IF e.tx > 0 THEN [ip |-> e.ip, rate |-> e.tx] ELSE k.police[e.id]
  BY PlanEffect
<1>. HIDE DEF K
<1>3. \A a \in cns : b[a].id \in Ids \ {e.id}
  BY DEF Entry
<1>4. ASSUME NEW a \in cns \cup {cn}
      PROVE  /\ c[a].rx > 0 => K.filter[c[a].id] = c[a].ip /\ K.class[c[a].id] = c[a].rx
             /\ c[a].tx > 0 => K.police[c[a].id] = [ip |-> c[a].ip, rate |-> c[a].tx]
  <2>1. CASE a = cn
    BY <1>2, <2>1
  <2>2. CASE a \in cns
    BY <1>2, <1>3, <2>2 DEF ShapesPeers
  <2>. QED
    BY <2>1, <2>2
<1>5. ASSUME NEW i \in Ids
      PROVE  /\ K.filter[i] = NoIP \/ \E a \in cns \cup {cn} : c[a].id = i /\ c[a].rx > 0
             /\ K.police[i].ip = NoIP \/ \E a \in cns \cup {cn} : c[a].id = i /\ c[a].tx > 0
  <2>1. CASE i = e.id
    BY <1>2, <2>1
  <2>2. CASE i # e.id
    <3>1. K.filter[i] = k.filter[i] /\ K.police[i] = k.police[i]
      BY <1>2, <2>2
    <3>2. /\ k.filter[i] = NoIP \/ \E a \in cns : b[a].id = i /\ b[a].rx > 0
          /\ k.police[i].ip = NoIP \/ \E a \in cns : b[a].id = i /\ b[a].tx > 0
      BY DEF ShapesPeers
    <3>. QED
      BY <3>1, <3>2
  <2>. QED
    BY <2>1, <2>2
<1>. QED
  BY <1>4, <1>5 DEF ShapesPeers, K

LEMMA OwnersTyped ==
    ASSUME LimitsInv, NEW d \in Devices
    PROVE  \A a \in Owners(d) : a \in CNs /\ book[a] \in Entry /\ book[a].id \in Ids
BY DEF Owners, Booked, LimitsInv, BandwidthTypeOK, Entry

LEMMA InitKernelInv == BandwidthInit => ShapedInv
<1>. SUFFICES ASSUME BandwidthInit PROVE KernelInv
  BY DEF ShapedInv
<1>1. Booked = {} /\ ceiling = NoEntry /\ run.pc = "idle" /\ kernel = [d \in Devices |-> Bare]
      /\ \A d \in Devices : Owners(d) = {}
  BY DEF BandwidthInit, Booked, NoRun, Owners
<1>2. ClassesApart
  BY <1>1 DEF ClassesApart
<1>3. PeersShaped
  BY <1>1 DEF PeersShaped, ShapesPeers, Bare
<1>4. CeilingShaped
  BY <1>1 DEF CeilingShaped, CeilingOf, NoLimit, Bare, FirstClass
<1>5. OneKind
  BY <1>1 DEF OneKind
<1>. QED
  BY <1>2, <1>3, <1>4, <1>5 DEF KernelInv

LEMMA ShapesAlike ==
    ASSUME NEW b, NEW c, NEW k, NEW cns, \A a \in cns : b[a] = c[a], ShapesPeers(b, k, cns)
    PROVE  ShapesPeers(c, k, cns)
BY DEF ShapesPeers

LEMMA KernelKept ==
    ASSUME KernelInv, UNCHANGED <<kernel, enforcer>>, OneKind'
    PROVE  KernelInv'
<1>1. UNCHANGED <<kernel, book, ceiling, next, Booked>> /\ \A d : Owners(d)' = Owners(d)
  BY DEF enforcer, Booked, Owners
<1>2. ClassesApart'
  BY <1>1 DEF KernelInv, ClassesApart
<1>3. PeersShaped'
  BY <1>1 DEF KernelInv, PeersShaped
<1>4. CeilingShaped'
  BY <1>1 DEF KernelInv, CeilingShaped, CeilingOf
<1>. QED
  BY <1>2, <1>3, <1>4 DEF KernelInv

LEMMA QuietKeepsKernel ==
    ASSUME LimitsInv, KernelInv,
           \/ SyncBegin \/ RemoveEnd \/ ApplyEnd
           \/ \E cn \in CNs : DropPeer(cn)
           \/ \E cn \in CNs, ip \in IPs \cup {NoIP}, s \in Shapes, b \in BOOLEAN : SetPeer(cn, ip, s, b)
           \/ \E b \in BOOLEAN, d \in Devices \cup {NoDev}, l \in Limits : SetRow(b, d, l)
           \/ \E r \in {"server", "client"}, d \in Devices : CreateInstance(r, d)
           \/ UNCHANGED bandwidthVars
    PROVE  KernelInv'
<1>0. OneKind
  BY DEF KernelInv
<1>1. UNCHANGED <<kernel, enforcer>>
  BY DEF SyncBegin, RemoveEnd, ApplyEnd, DropPeer, SetPeer, SetRow, CreateInstance, bandwidthVars
<1>2. UNCHANGED <<book, ceiling, Booked>>
  BY <1>1 DEF enforcer, Booked
<1>3. CASE SyncBegin
  <2>1. UNCHANGED instance
    BY <1>3 DEF SyncBegin, rows
  <2>2. /\ run'.row = instance
        /\ instance = NoInstance => run'.pc = "clear"
    BY <1>3 DEF SyncBegin, NoRun
  <2>. QED
    BY <1>0, <1>1, <1>2, <2>1, <2>2, KernelKept DEF OneKind
<1>4. CASE RemoveEnd \/ ApplyEnd
  <2>1. UNCHANGED instance /\ run.pc \in {"remove", "apply"}
    BY <1>4 DEF RemoveEnd, ApplyEnd, rows
  <2>2. run'.row = run.row
    BY <1>4 DEF RemoveEnd, ApplyEnd, LimitsInv, BandwidthTypeOK, Run
  <2>. QED
    BY <1>0, <1>1, <1>2, <2>1, <2>2, KernelKept DEF OneKind
<1>5. CASE \/ \E cn \in CNs : DropPeer(cn)
           \/ \E cn \in CNs, ip \in IPs \cup {NoIP}, s \in Shapes, b \in BOOLEAN : SetPeer(cn, ip, s, b)
           \/ UNCHANGED bandwidthVars
  <2>1. UNCHANGED <<instance, run>>
    BY <1>5 DEF DropPeer, SetPeer, bandwidthVars, rows
  <2>. QED
    BY <1>0, <1>1, <1>2, <2>1, KernelKept DEF OneKind
<1>6. ASSUME NEW b \in BOOLEAN, NEW d \in Devices \cup {NoDev}, NEW l \in Limits, SetRow(b, d, l)
      PROVE  KernelInv'
  <2>1. instance \in Rows /\ instance' = [instance EXCEPT !.enabled = b, !.dev = d, !.limit = l]
        /\ UNCHANGED run
    BY <1>6 DEF SetRow, LimitsInv, BandwidthTypeOK
  <2>2. instance' \in Rows /\ instance'.role = instance.role
    BY <2>1 DEF Rows
  <2>3. instance # NoInstance /\ instance' # NoInstance
    BY <2>1, <2>2, NoneIsOne
  <2>. QED
    BY <1>0, <1>1, <1>2, <2>1, <2>2, <2>3, KernelKept DEF OneKind
<1>7. ASSUME NEW r \in {"server", "client"}, NEW d \in Devices, CreateInstance(r, d)
      PROVE  KernelInv'
  <2>1. instance = NoInstance /\ UNCHANGED run
    BY <1>7 DEF CreateInstance
  <2>. QED
    BY <1>0, <1>1, <1>2, <2>1, KernelKept DEF OneKind
<1>. QED
  BY <1>3, <1>4, <1>5, <1>6, <1>7

LEMMA UnshapeKeepsKernel ==
    ASSUME LimitsInv, KernelInv, NEW cn \in CNs, Unshape(cn), hurt' = {}
    PROVE  KernelInv'
<1>. DEFINE e == book[cn]
            d0 == e.dev
            K == Tc(kernel[d0], RemoveRules(e))
<1>1. cn \in Booked /\ e \in Entry /\ d0 \in Devices /\ cn \in Owners(d0)
  <2>1. cn \in run.todo /\ run.pc \in {"remove", "clear"}
    BY TodoTyped DEF Unshape, LimitsInv
  <2>2. cn \in Booked
    BY <2>1 DEF LimitsInv, RunOK
  <2>. QED
    BY <2>2 DEF Booked, LimitsInv, BandwidthTypeOK, Entry, Owners
<1>2. UNCHANGED <<instance, ceiling, next>> /\ book' = [book EXCEPT ![cn] = NoEntry]
      /\ run'.pc = run.pc /\ run'.row = run.row
  BY DEF Unshape, rows, LimitsInv, BandwidthTypeOK, Run
<1>3. kernel' = TcOn(d0, RemoveRules(e))
  BY DEF Unshape, UndoOn
<1>4. /\ kernel'[d0] = K /\ kernel[d0] \in Kernel
      /\ \A d \in Devices \ {d0} : kernel'[d] = kernel[d]
  <2>1. kernel \in [Devices -> Kernel] /\ RemoveRules(e) \in Seq(Commands)
    BY <1>1, PlansTyped DEF LimitsInv, BandwidthTypeOK
  <2>. HIDE DEF Kernel, Commands, e
  <2>. QED
    BY <1>1, <1>3, <2>1, KernelsTyped DEF TcOn
<1>5. /\ Booked' = Booked \ {cn}
      /\ \A a \in Booked' : book'[a] = book[a] /\ a # cn
      /\ \A d : Owners(d)' = Owners(d) \ {cn}
  BY <1>1, <1>2 DEF Booked, Owners, LimitsInv, BandwidthTypeOK
<1>6. \A d \in Devices \ {d0} : cn \notin Owners(d)
  BY DEF Owners
<1>7. ClassesApart'
  BY <1>2, <1>5 DEF KernelInv, ClassesApart, Owners
<1>8. /\ ShapesPeers(book, K, Owners(d0) \ {cn})
      /\ K.default = kernel[d0].default /\ K.whole = kernel[d0].whole
  <2>1. \A a \in Owners(d0) : book[a] \in Entry
    BY <1>1, OwnersTyped
  <2>2. \A a \in Owners(d0) : book[a].id = book[cn].id => a = cn
    BY <1>1 DEF KernelInv, ClassesApart
  <2>3. ShapesPeers(book, kernel[d0], Owners(d0))
    BY <1>1 DEF KernelInv, PeersShaped
  <2>. HIDE DEF Kernel, Entry
  <2>. QED
    BY <1>1, <1>4, <2>1, <2>2, <2>3, RemovedIsGone, RemoveEffect
<1>. HIDE DEF K, e, d0
<1>9. PeersShaped'
  <2>1. ASSUME NEW d \in Devices PROVE ShapesPeers(book', kernel'[d], Owners(d)')
    <3>1. \A a \in Owners(d)' : book'[a] = book[a]
      BY <1>5 DEF Owners
    <3>2. ShapesPeers(book, kernel'[d], Owners(d) \ {cn})
      <4>1. CASE d = d0
        BY <1>4, <1>8, <4>1
      <4>2. CASE d # d0
        <5>1. Owners(d) \ {cn} = Owners(d) /\ kernel'[d] = kernel[d]
          BY <1>4, <1>6, <4>2
        <5>. QED
          BY <5>1 DEF KernelInv, PeersShaped
      <4>. QED
        BY <4>1, <4>2
    <3>. QED
      BY <1>5, <3>1, <3>2, ShapesAlike
  <2>. QED
    BY <2>1 DEF PeersShaped
<1>10. ceiling = NoEntry
  BY <1>1 DEF KernelInv, OneKind
<1>11. CeilingShaped'
  <2>1. \A d \in Devices : kernel'[d].default = kernel[d].default /\ kernel'[d].whole = kernel[d].whole
    BY <1>4, <1>8
  <2>2. \A d : CeilingOf(ceiling, d).tx = 0
    BY <1>10 DEF CeilingOf, NoLimit
  <2>. QED
    BY <1>2, <2>1, <2>2 DEF KernelInv, CeilingShaped, CeilingOf
<1>12. OneKind'
  BY <1>2, <1>5 DEF KernelInv, OneKind
<1>. QED
  BY <1>7, <1>9, <1>11, <1>12 DEF KernelInv

(* The entry that Apply books.                                               *)
AppliedEntry(cn) ==
    Wanted(run.peers[cn], run.row.dev,
           IF book[cn] = NoEntry THEN next[run.row.dev] ELSE book[cn].id)

(* What an Apply does after which nothing has been hurt.                     *)
LEMMA ApplyUnhurt ==
    ASSUME LimitsInv, NEW cn \in CNs, Apply(cn), hurt' = {}
    PROVE  LET d == run.row.dev
               old == book[cn]
               new == AppliedEntry(cn)
           IN
           /\ cn \in run.todo /\ cn \in Desired(run.peers) /\ d \in Devices
           /\ run.pc = "apply" /\ run'.pc = "apply" /\ run'.row = run.row /\ run'.peers = run.peers
           /\ run'.todo = run.todo \ {cn}
           /\ UNCHANGED <<instance, peers, ceiling, fresh>>
           /\ old # NoEntry => old \in Entry
           /\ new \in Entry
           /\ \/ Same(old, new) /\ UNCHANGED <<kernel, book, next>> /\ run'.ok = run.ok
              \/ /\ ~run'.ok /\ UNCHANGED <<kernel, book>>
                 /\ \A o \in Devices : next'[o] = IF old = NoEntry /\ o = d THEN next[d] + 1 ELSE next[o]
              \/ /\ old = NoEntry \/ old.dev = d
                 /\ run'.ok = run.ok
                 /\ book' = [book EXCEPT ![cn] = new]
                 /\ \A o \in Devices : next'[o] = IF old = NoEntry /\ o = d THEN next[d] + 1 ELSE next[o]
                 /\ kernel'[d] = Tc(IF old = NoEntry THEN kernel[d]
                                    ELSE Tc(kernel[d], RemoveRules(old)), Plan(new))
                 /\ \A o \in Devices \ {d} : kernel'[o] = kernel[o]
<1>. DEFINE d == run.row.dev
            old == book[cn]
            new == AppliedEntry(cn)
            undone == IF old = NoEntry THEN kernel ELSE TcOn(old.dev, RemoveRules(old))
            rules == Plan(new)
            wrapped == IF old = NoEntry /\ NextClass(d) = FirstClass THEN {"wrapped"} ELSE {}
            events == wrapped \cup (IF old # NoEntry /\ old.dev # d THEN {"renamed"} ELSE {})
            Ran(s) == [undone EXCEPT ![d] = Tc(@, s)]
            Drawn == \A o \in Devices : next'[o] = IF old = NoEntry /\ o = d THEN next[d] + 1 ELSE next[o]
<1>0. /\ UNCHANGED <<instance, peers, ceiling, fresh>>
      /\ run.pc = "apply" /\ run.todo # {} /\ cn = Min(run.todo)
  BY DEF Apply, rows
<1>1. /\ d \in Devices /\ cn \in run.todo /\ cn \in Desired(run.peers) /\ run \in Run
      /\ next \in [Devices -> Ids]
      /\ old # NoEntry => old \in Entry /\ old.id \in Ids /\ RemoveRules(old) \in Seq(Commands)
  BY <1>0, ApplyTyped DEF LimitsInv, BandwidthTypeOK
<1>2. new \in Entry /\ rules \in Seq(Commands)
  <2>1. (IF old = NoEntry THEN next[d] ELSE old.id) \in Ids
    BY <1>0, <1>1
  <2>2. \A i \in Ids : LET n == Wanted(run.peers[cn], run.row.dev, i) IN
           n \in Entry /\ Plan(n) \in Seq(Commands)
    BY <1>0, ApplyTyped
  <2>. QED
    BY <2>1, <2>2 DEF AppliedEntry
<1>3. \/ Same(old, new) /\ UNCHANGED <<kernel, book, next>> /\ run' = [run EXCEPT !.todo = @ \ {cn}]
      \/ /\ next' = IF old = NoEntry THEN [next EXCEPT ![d] = NextClass(d)] ELSE next
         /\ \/ /\ kernel' = Ran(rules)
               /\ book' = [book EXCEPT ![cn] = new]
               /\ run' = [run EXCEPT !.todo = @ \ {cn}]
               /\ hurt' = hurt \cup events
            \/ /\ run' = [run EXCEPT !.todo = @ \ {cn}, !.ok = FALSE]
               /\ hurt' = hurt \cup wrapped
               /\ UNCHANGED <<kernel, book>>
  <2>1. new = Wanted(run.peers[cn], d, IF old = NoEntry THEN next[d] ELSE old.id)
    BY DEF AppliedEntry
  <2>2. \A e, S : hurt' # e \cup S \cup {"failed"}
    OBVIOUS
  <2>. HIDE DEF new, undone, rules, wrapped, events, old
  <2>3. CASE Same(old, new)
    BY <2>1, <2>3 DEF Apply, old, d
  <2>4. CASE ~Same(old, new)
    BY <2>1, <2>2, <2>4 DEF Apply, old, d, undone, rules, wrapped, events
  <2>. QED
    BY <2>3, <2>4
<1>4. /\ run'.pc = "apply" /\ run'.row = run.row /\ run'.peers = run.peers
      /\ run'.todo = run.todo \ {cn}
      /\ run' = [run EXCEPT !.todo = @ \ {cn}] => run'.ok = run.ok
      /\ run' = [run EXCEPT !.todo = @ \ {cn}, !.ok = FALSE] => ~run'.ok
  <2>1. \/ run' = [run EXCEPT !.todo = @ \ {cn}]
        \/ run' = [run EXCEPT !.todo = @ \ {cn}, !.ok = FALSE]
    BY <1>3
  <2>. QED
    BY <1>0, <1>1, <2>1 DEF Run
<1>5. ASSUME next' = IF old = NoEntry THEN [next EXCEPT ![d] = NextClass(d)] ELSE next,
             hurt' = hurt \cup wrapped \/ hurt' = hurt \cup events
      PROVE  Drawn
  <2>1. old = NoEntry => NextClass(d) # FirstClass
    BY <1>5
  <2>2. old = NoEntry => NextClass(d) = next[d] + 1
    BY <2>1 DEF NextClass
  <2>. HIDE DEF old, d
  <2>. QED
    BY <1>1, <1>5, <2>2 DEF Drawn
<1>6. ASSUME kernel' = Ran(rules), hurt' = hurt \cup events
      PROVE  /\ old = NoEntry \/ old.dev = d
             /\ kernel'[d] = Tc(IF old = NoEntry THEN kernel[d]
                                ELSE Tc(kernel[d], RemoveRules(old)), Plan(new))
             /\ \A o \in Devices \ {d} : kernel'[o] = kernel[o]
  <2>1. old = NoEntry \/ old.dev = d
    BY <1>6
  <2>2. kernel \in [Devices -> Kernel]
    BY DEF LimitsInv, BandwidthTypeOK
  <2>3. /\ undone \in [Devices -> Kernel]
        /\ undone[d] = IF old = NoEntry THEN kernel[d] ELSE Tc(kernel[d], RemoveRules(old))
        /\ \A o \in Devices \ {d} : undone[o] = kernel[o]
    <3>1. CASE old = NoEntry
      BY <2>2, <3>1
    <3>2. CASE old # NoEntry
      <4>1. undone = [kernel EXCEPT ![d] = Tc(@, RemoveRules(old))] /\ RemoveRules(old) \in Seq(Commands)
        BY <1>1, <2>1, <3>2 DEF TcOn
      <4>. HIDE DEF undone, old, d, Kernel, Commands
      <4>. QED
        BY <1>1, <2>2, <3>2, <4>1, KernelsTyped
    <3>. QED
      BY <3>1, <3>2
  <2>. HIDE DEF undone, old, d, Kernel, Commands, rules
  <2>4. /\ kernel'[d] = Tc(undone[d], rules)
        /\ \A o \in Devices \ {d} : kernel'[o] = undone[o]
    BY <1>1, <1>2, <1>6, <2>3, KernelsTyped
  <2>. QED
    BY <2>1, <2>3, <2>4 DEF rules
<1>. HIDE DEF new, undone, wrapped, events, Ran, Drawn
<1>7. CASE Same(old, new) /\ UNCHANGED <<kernel, book, next>> /\ run' = [run EXCEPT !.todo = @ \ {cn}]
  BY <1>0, <1>1, <1>2, <1>4, <1>7 DEF new
<1>8. CASE /\ next' = IF old = NoEntry THEN [next EXCEPT ![d] = NextClass(d)] ELSE next
           /\ kernel' = Ran(rules)
           /\ book' = [book EXCEPT ![cn] = new]
           /\ run' = [run EXCEPT !.todo = @ \ {cn}]
           /\ hurt' = hurt \cup events
  <2>1. Drawn
    BY <1>5, <1>8
  <2>. QED
    BY <1>0, <1>1, <1>2, <1>4, <1>6, <1>8, <2>1 DEF new, Drawn
<1>9. CASE /\ next' = IF old = NoEntry THEN [next EXCEPT ![d] = NextClass(d)] ELSE next
           /\ run' = [run EXCEPT !.todo = @ \ {cn}, !.ok = FALSE]
           /\ hurt' = hurt \cup wrapped
           /\ UNCHANGED <<kernel, book>>
  <2>1. Drawn
    BY <1>5, <1>9
  <2>. QED
    BY <1>0, <1>1, <1>2, <1>4, <1>9, <2>1 DEF new, Drawn
<1>. QED
  BY <1>3, <1>7, <1>8, <1>9

LEMMA ApplyKeepsKernel ==
    ASSUME LimitsInv, KernelInv, NEW cn \in CNs, Apply(cn), hurt' = {},
           NEW d \in Devices, run.row.dev = d
    PROVE  KernelInv'
<1>. DEFINE old == book[cn]
            new == AppliedEntry(cn)
            k0 == IF old = NoEntry THEN kernel[d] ELSE Tc(kernel[d], RemoveRules(old))
            Drawn == \A o \in Devices : next'[o] = IF old = NoEntry /\ o = d THEN next[d] + 1 ELSE next[o]
            Booking == /\ old = NoEntry \/ old.dev = d
                       /\ book' = [book EXCEPT ![cn] = new]
                       /\ Drawn
                       /\ kernel'[d] = Tc(k0, Plan(new))
                       /\ \A o \in Devices \ {d} : kernel'[o] = kernel[o]
<1>1. /\ new \in Entry /\ run.pc = "apply"
      /\ run'.pc = run.pc /\ run'.row = run.row /\ UNCHANGED <<instance, ceiling>>
      /\ old # NoEntry => old \in Entry
      /\ \/ UNCHANGED <<kernel, book, next>>
         \/ UNCHANGED <<kernel, book>> /\ Drawn
         \/ Booking
  BY ApplyUnhurt
<1>2. /\ \A o \in Devices : next[o] \in Nat /\ kernel[o] \in Kernel
      /\ new.dev = d /\ new.id \in Ids
      /\ new.id = IF old = NoEntry THEN next[d] ELSE old.id
      /\ old = NoEntry <=> cn \notin Booked
  <2>1. next \in [Devices -> Ids] /\ kernel \in [Devices -> Kernel] /\ Ids \subseteq Nat
    BY RatesAreNumbers, BandwidthAssumption DEF LimitsInv, BandwidthTypeOK, Ids, FirstClass
  <2>2. new.id \in Ids
    BY <1>1 DEF Entry
  <2>. HIDE DEF Kernel
  <2>. QED
    BY <2>1, <2>2 DEF AppliedEntry, Wanted, Booked
<1>3. instance # NoInstance /\ ceiling = NoEntry /\ instance.role = "server"
  BY <1>1 DEF LimitsInv, RunOK, KernelInv, OneKind
<1>4. OneKind'
  BY <1>1, <1>3 DEF KernelInv, OneKind
<1>. HIDE DEF new, Drawn
<1>5. CASE UNCHANGED <<kernel, book>> /\ (UNCHANGED next \/ Drawn)
  <2>1. UNCHANGED Booked /\ \A o : Owners(o)' = Owners(o)
    BY <1>5 DEF Booked, Owners
  <2>2. \A o \in Devices : next'[o] = next[o] \/ next'[o] = next[o] + 1
    BY <1>5 DEF Drawn
  <2>3. ClassesApart'
    <3>1. \A o \in Devices : \A a \in Owners(o) : book[a].id \in Nat
      BY OwnersTyped, BandwidthAssumption DEF Ids, FirstClass
    <3>. HIDE DEF Owners
    <3>. QED
      BY <1>2, <1>5, <2>1, <2>2, <3>1 DEF KernelInv, ClassesApart
  <2>4. PeersShaped'
    BY <1>5, <2>1 DEF KernelInv, PeersShaped
  <2>5. CeilingShaped'
    BY <1>1, <1>5 DEF KernelInv, CeilingShaped, CeilingOf
  <2>. QED
    BY <1>4, <2>3, <2>4, <2>5 DEF KernelInv
<1>6. CASE Booking
  <2>1. /\ book'[cn] = new /\ \A a \in CNs \ {cn} : book'[a] = book[a]
        /\ book'[cn] # NoEntry /\ cn \in Booked'
    BY <1>1, <1>6, NoneIsOne DEF LimitsInv, BandwidthTypeOK, Booked
  <2>2. /\ Booked' = Booked \cup {cn}
        /\ Owners(d)' = (Owners(d) \ {cn}) \cup {cn}
        /\ \A o \in Devices \ {d} : Owners(o)' = Owners(o) /\ cn \notin Owners(o)
        /\ \A o : \A a \in Owners(o) : a \in CNs
        /\ old # NoEntry => cn \in Owners(d)
        /\ old = NoEntry => cn \notin Owners(d)
    <3>1. Booked' = Booked \cup {cn}
      BY <2>1 DEF Booked
    <3>2. /\ \A o : \A a \in Owners(o) : a \in CNs
          /\ old # NoEntry => cn \in Owners(d)
          /\ old = NoEntry => cn \notin Owners(d)
          /\ \A o \in Devices \ {d} : cn \notin Owners(o)
      BY <1>2, <1>6 DEF Booked, Owners
    <3>3. \A o, a : a \in Owners(o)' <=> IF a = cn THEN o = d ELSE a \in Owners(o)
      BY <1>2, <2>1, <3>1 DEF Owners, Booked
    <3>. QED
      BY <3>1, <3>2, <3>3
  <2>3. \A a \in Owners(d) : book[a] \in Entry /\ book[a].id \in Ids
    BY <1>1, OwnersTyped
  <2>4. \A a \in Owners(d) \ {cn} : book[a].id # new.id /\ book[a].id < next[d]
    <3>1. /\ \A a \in Owners(d) : book[a].id < next[d]
          /\ \A a, b \in Owners(d) : book[a].id = book[b].id => a = b
      BY <1>1 DEF KernelInv, ClassesApart
    <3>2. \A a \in Owners(d) : book[a].id \in Nat
      BY <2>3, BandwidthAssumption DEF Ids, FirstClass
    <3>3. CASE old = NoEntry
      BY <1>1, <1>2, <2>2, <3>1, <3>2, <3>3
    <3>4. CASE old # NoEntry
      BY <1>2, <2>2, <3>1, <3>4
    <3>. QED
      BY <3>3, <3>4
  <2>5. ShapesPeers(book, kernel[d], Owners(d))
    BY <1>1 DEF KernelInv, PeersShaped
  <2>6. /\ ShapesPeers(book, k0, Owners(d) \ {cn})
        /\ k0.filter[new.id] = NoIP /\ k0.police[new.id].ip = NoIP
        /\ k0 \in Kernel /\ k0.whole = kernel[d].whole
    <3>1. CASE old = NoEntry
      <4>1. Owners(d) \ {cn} = Owners(d)
        BY <2>2, <3>1
      <4>2. kernel[d].filter[new.id] = NoIP /\ kernel[d].police[new.id].ip = NoIP
        BY <1>2, <2>4, <2>5, <4>1 DEF ShapesPeers
      <4>. QED
        BY <1>1, <1>2, <2>5, <3>1, <4>1, <4>2
    <3>2. CASE old # NoEntry
      <4>1. \A a \in Owners(d) : book[a].id = book[cn].id => a = cn
        BY <1>2, <2>4, <3>2
      <4>2. cn \in Owners(d) /\ kernel[d] \in Kernel /\ \A a \in Owners(d) : book[a] \in Entry
        BY <1>1, <1>2, <2>2, <2>3, <3>2
      <4>3. LET K == Tc(kernel[d], RemoveRules(book[cn])) IN
            /\ ShapesPeers(book, K, Owners(d) \ {cn})
            /\ K.filter[book[cn].id] = NoIP /\ K.police[book[cn].id].ip = NoIP
        BY <2>5, <4>1, <4>2, RemovedIsGone
      <4>4. LET K == Tc(kernel[d], RemoveRules(book[cn])) IN
            K \in Kernel /\ K.whole = kernel[d].whole
        BY <4>2, RemoveEffect
      <4>. QED
        BY <1>2, <3>2, <4>3, <4>4
    <3>. QED
      BY <3>1, <3>2
  <2>. HIDE DEF k0
  <2>7. /\ ShapesPeers(book', kernel'[d], Owners(d)')
        /\ kernel'[d].default = 999 /\ kernel'[d].whole = kernel[d].whole
    <3>0. k0 \in Kernel /\ new \in Entry
      BY <1>1, <2>6
    <3>1. Tc(k0, Plan(new)).default = 999 /\ Tc(k0, Plan(new)).whole = k0.whole
      BY <3>0, PlanWhole
    <3>2. \A a \in Owners(d) \ {cn} : book[a] \in Entry /\ book[a].id # new.id /\ book'[a] = book[a]
      BY <2>1, <2>2, <2>3, <2>4
    <3>. DEFINE cns == Owners(d) \ {cn}
    <3>3. cn \notin cns
      OBVIOUS
    <3>. HIDE DEF cns
    <3>4. ShapesPeers(book', Tc(k0, Plan(new)), cns \cup {cn})
      <4>1. \A a \in cns : book[a] \in Entry /\ book[a].id # new.id /\ book'[a] = book[a]
        BY <3>2 DEF cns
      <4>2. ShapesPeers(book, k0, cns)
        BY <2>6 DEF cns
      <4>3. /\ book'[cn] = new /\ k0.filter[new.id] = NoIP /\ k0.police[new.id].ip = NoIP
        BY <2>1, <2>6
      <4>. QED
        BY <3>0, <3>3, <4>1, <4>2, <4>3, PlannedIsShaped
    <3>. QED
      BY <1>6, <2>2, <2>6, <3>1, <3>4 DEF cns
  <2>8. ClassesApart'
    <3>1. ASSUME NEW o \in Devices, NEW a, a \in Owners(o)'
          PROVE  /\ book'[a].id < next'[o]
                 /\ \A b \in Owners(o)' : book'[a].id = book'[b].id => a = b
      <4>1. CASE o # d
        <5>1. Owners(o)' = Owners(o) /\ next'[o] = next[o] /\ \A b \in Owners(o) : book'[b] = book[b]
          BY <1>6, <2>1, <2>2, <4>1 DEF Drawn
        <5>. QED
          BY <3>1, <5>1 DEF KernelInv, ClassesApart
      <4>2. CASE o = d
        <5>1. \A b \in Owners(d)' : \/ b = cn /\ book'[b].id = new.id
                                    \/ b # cn /\ b \in Owners(d) /\ book'[b] = book[b]
          BY <2>1, <2>2
        <5>2. new.id < next'[d] /\ next[d] <= next'[d] /\ next'[d] \in Nat
          <6>1. CASE old = NoEntry
            BY <1>1, <1>2, <1>6, <6>1 DEF Drawn
          <6>2. CASE old # NoEntry
            <7>1. next'[d] = next[d] /\ cn \in Owners(d) /\ new.id = book[cn].id
              BY <1>1, <1>2, <1>6, <2>2, <6>2 DEF Drawn
            <7>. QED
              BY <1>1, <1>2, <7>1 DEF KernelInv, ClassesApart
          <6>. QED
            BY <6>1, <6>2
        <5>3. \A b \in Owners(d) : book[b].id \in Nat
          BY <2>3, BandwidthAssumption DEF Ids, FirstClass
        <5>4. \A b, c \in Owners(d) : book[b].id = book[c].id => b = c
          BY <1>1 DEF KernelInv, ClassesApart
        <5>5. \A b \in Owners(d)' : book'[b].id < next'[d]
          BY <1>1, <1>2, <2>4, <5>1, <5>2, <5>3
        <5>. QED
          BY <2>4, <3>1, <4>2, <5>1, <5>4, <5>5
      <4>. QED
        BY <4>1, <4>2
    <3>. QED
      BY <3>1 DEF ClassesApart
  <2>9. PeersShaped'
    <3>1. ASSUME NEW o \in Devices PROVE  ShapesPeers(book', kernel'[o], Owners(o)')
      <4>1. CASE o = d
        BY <2>7, <4>1
      <4>2. CASE o # d
        <5>1. Owners(o)' = Owners(o) /\ kernel'[o] = kernel[o] /\ \A a \in Owners(o) : book'[a] = book[a]
          BY <1>6, <2>1, <2>2, <4>2
        <5>2. ShapesPeers(book, kernel[o], Owners(o))
          BY DEF KernelInv, PeersShaped
        <5>. QED
          BY <5>1, <5>2, ShapesAlike
      <4>. QED
        BY <4>1, <4>2
    <3>. QED
      BY <3>1 DEF PeersShaped
  <2>10. CeilingShaped'
    <3>1. \A o : CeilingOf(ceiling', o) = NoLimit /\ CeilingOf(ceiling, o) = NoLimit
      BY <1>1, <1>3 DEF CeilingOf
    <3>2. \A o \in Devices : /\ kernel'[o].whole = kernel[o].whole
                             /\ kernel'[o].default = kernel[o].default \/ kernel'[o].default = 999
      BY <1>6, <2>7
    <3>. QED
      BY <3>1, <3>2 DEF KernelInv, CeilingShaped, NoLimit, FirstClass, CeilingOf
  <2>. QED
    BY <1>4, <2>8, <2>9, <2>10 DEF KernelInv
<1>. QED
  BY <1>1, <1>5, <1>6

(* Nothing shapes any address of a device.                                   *)
Unlimited(k) ==
    /\ k \in Kernel /\ k.default # FirstClass /\ k.whole = 0
    /\ \A i \in Ids : k.filter[i] = NoIP /\ k.police[i].ip = NoIP

LEMMA NoPeersNoFilters ==
    ASSUME LimitsInv, KernelInv, Booked = {}
    PROVE  \A d \in Devices : /\ kernel[d] \in Kernel
                              /\ \A i \in Ids : kernel[d].filter[i] = NoIP /\ kernel[d].police[i].ip = NoIP
<1>1. \A d \in Devices : Owners(d) = {}
  BY DEF Owners
<1>2. kernel \in [Devices -> Kernel]
  BY DEF LimitsInv, BandwidthTypeOK
<1>. HIDE DEF Kernel
<1>. QED
  BY <1>1, <1>2 DEF KernelInv, PeersShaped, ShapesPeers

LEMMA UndoneIsUnlimited ==
    ASSUME LimitsInv, KernelInv, Booked = {}, NEW U,
           U = IF ceiling = NoEntry THEN kernel ELSE TcOn(ceiling.dev, RemoveDeviceRules(ceiling))
    PROVE  U \in [Devices -> Kernel] /\ \A d \in Devices : Unlimited(U[d])
<1>0. kernel \in [Devices -> Kernel]
  BY DEF LimitsInv, BandwidthTypeOK
<1>1. ASSUME NEW d \in Devices, CeilingOf(ceiling, d) = NoLimit PROVE Unlimited(kernel[d])
  <2>1. kernel[d].whole = 0 /\ kernel[d].default # FirstClass
    BY <1>1 DEF KernelInv, CeilingShaped, NoLimit
  <2>. QED
    BY <2>1, NoPeersNoFilters DEF Unlimited
<1>2. CASE ceiling = NoEntry
  BY <1>0, <1>1, <1>2 DEF CeilingOf
<1>3. CASE ceiling # NoEntry
  <2>1. /\ ceiling \in Ceiling /\ ceiling.dev \in Devices
        /\ ceiling.rx \in Nat /\ ceiling.tx \in Nat
        /\ RemoveDeviceRules(ceiling) \in Seq(Commands)
    BY <1>3, DevicePlansTyped, RatesAreNumbers DEF LimitsInv, BandwidthTypeOK, Ceiling
  <2>. DEFINE K == Tc(kernel[ceiling.dev], RemoveDeviceRules(ceiling))
  <2>2. /\ U \in [Devices -> Kernel] /\ U[ceiling.dev] = K
        /\ \A d \in Devices \ {ceiling.dev} : U[d] = kernel[d]
    <3>. HIDE DEF Kernel, Commands
    <3>. QED
      BY <1>0, <1>3, <2>1, KernelsTyped DEF TcOn
  <2>3. \A d \in Devices \ {ceiling.dev} : Unlimited(U[d])
    BY <1>1, <2>2 DEF CeilingOf
  <2>4. Unlimited(K)
    <3>1. /\ kernel[ceiling.dev].whole = ceiling.rx
          /\ kernel[ceiling.dev].default = FirstClass <=> ceiling.tx # 0
      BY <1>3, <2>1 DEF KernelInv, CeilingShaped, CeilingOf
    <3>2. /\ kernel[ceiling.dev] \in Kernel
          /\ \A i \in Ids : kernel[ceiling.dev].filter[i] = NoIP /\ kernel[ceiling.dev].police[i].ip = NoIP
      BY <2>1, NoPeersNoFilters
    <3>3. /\ K \in Kernel
          /\ K.default = IF ceiling.tx > 0 THEN 0 ELSE kernel[ceiling.dev].default
          /\ K.whole = IF ceiling.rx > 0 THEN 0 ELSE kernel[ceiling.dev].whole
          /\ \A i \in Ids : K.filter[i] = NoIP /\ K.police[i].ip = NoIP
      BY <2>1, <3>2, RemoveDeviceEffect
    <3>. HIDE DEF K
    <3>4. K.whole = 0 /\ K.default # FirstClass
      BY <2>1, <3>1, <3>3 DEF FirstClass
    <3>. QED
      BY <3>3, <3>4 DEF Unlimited
  <2>. QED
    BY <2>1, <2>2, <2>3, <2>4
<1>. QED
  BY <1>2, <1>3

(* With no peers in the book, it is enough that the ceiling is what it says. *)
LEMMA OnlyCeiling ==
    ASSUME Booked = {}, UNCHANGED book, CeilingShaped', OneKind',
           \A d \in Devices, i \in Ids : kernel'[d].filter[i] = NoIP /\ kernel'[d].police[i].ip = NoIP
    PROVE  KernelInv'
<1>1. Booked' = {} /\ \A d : Owners(d)' = {}
  BY DEF Booked, Owners
<1>2. ClassesApart' /\ PeersShaped'
  BY <1>1 DEF ClassesApart, PeersShaped, ShapesPeers
<1>. QED
  BY <1>2 DEF KernelInv

LEMMA ClearDeviceKeepsKernel ==
    ASSUME LimitsInv, KernelInv, ClearDevice, hurt' = {}, OneKind', UNCHANGED <<book, next>>
    PROVE  KernelInv'
<1>1. CASE ceiling = NoEntry
  BY <1>1, KernelKept DEF ClearDevice, enforcer
<1>2. CASE ceiling # NoEntry
  <2>1. Booked = {}
    BY <1>2 DEF KernelInv, OneKind
  <2>2. ceiling' = NoEntry /\ kernel' = TcOn(ceiling.dev, RemoveDeviceRules(ceiling))
    BY <1>2 DEF ClearDevice, UndoOn
  <2>3. \A d \in Devices : Unlimited(kernel'[d])
    BY <1>2, <2>1, <2>2, UndoneIsUnlimited
  <2>4. CeilingShaped'
    BY <2>2, <2>3 DEF Unlimited, CeilingShaped, CeilingOf, NoLimit
  <2>. QED
    BY <2>1, <2>3, <2>4, OnlyCeiling DEF Unlimited
<1>. QED
  BY <1>1, <1>2

LEMMA ClearEndKeepsKernel ==
    ASSUME LimitsInv, KernelInv, ClearEnd, hurt' = {}
    PROVE  KernelInv'
<1>1. /\ run' = NoRun /\ ClearDevice /\ UNCHANGED <<instance, book, next>>
      /\ ceiling' = NoEntry
  BY ClearDeviceTyped DEF ClearEnd, SyncDone, rows
<1>2. UNCHANGED Booked
  BY <1>1 DEF Booked
<1>3. OneKind'
  BY <1>1, <1>2, NoRunTyped DEF KernelInv, OneKind
<1>. QED
  BY <1>1, <1>3, ClearDeviceKeepsKernel

(* What a SyncDevice does after which nothing has been hurt.                 *)
LEMMA SyncDeviceUnhurt ==
    ASSUME LimitsInv, SyncDevice, hurt' = {}
    PROVE  /\ run.pc = "device" /\ run' = NoRun /\ UNCHANGED <<instance, peers, book, next>>
           /\ \/ /\ NewCeiling.rx + NewCeiling.tx = 0 \/ run.row.dev = NoDev
                 /\ ClearDevice /\ SyncDone(run.row.dev # NoDev)
              \/ /\ run.row.dev # NoDev /\ NewCeiling.rx + NewCeiling.tx # 0
                 /\ UNCHANGED <<kernel, ceiling>>
                 /\ (ceiling = NewCeiling /\ SyncDone(TRUE)) \/ SyncDone(FALSE)
              \/ /\ run.row.dev # NoDev /\ NewCeiling.rx + NewCeiling.tx # 0
                 /\ instance # NoInstance /\ run.row.role # "server"
                 /\ kernel' = [(IF ceiling = NoEntry THEN kernel
                                ELSE TcOn(ceiling.dev, RemoveDeviceRules(ceiling)))
                               EXCEPT ![run.row.dev] = Tc(@, PlanDevice(NewCeiling))]
                 /\ ceiling' = NewCeiling /\ SyncDone(TRUE)
<1>. DEFINE d == run.row.dev
            new == [rx |-> run.row.limit.rx, tx |-> run.row.limit.tx, dev |-> d]
            undone == IF ceiling = NoEntry THEN kernel
                      ELSE TcOn(ceiling.dev, RemoveDeviceRules(ceiling))
            Ran(s) == [undone EXCEPT ![d] = Tc(@, s)]
<1>0. new = NewCeiling
  BY DEF NewCeiling
<1>1. run.pc = "device" /\ UNCHANGED <<instance, peers, book, next>>
  BY DEF SyncDevice, rows
<1>2. \/ (new.rx + new.tx = 0 \/ d = NoDev) /\ ClearDevice /\ SyncDone(d # NoDev)
      \/ /\ ~(new.rx + new.tx = 0 \/ d = NoDev)
         /\ \/ UNCHANGED <<kernel, ceiling>> /\ ((ceiling = new /\ SyncDone(TRUE)) \/ SyncDone(FALSE))
            \/ /\ instance # NoInstance
               /\ kernel' = Ran(PlanDevice(new)) /\ ceiling' = new
               /\ hurt' = hurt \cup Shares /\ SyncDone(TRUE)
  <2>1. \A S, e : hurt' # S \cup e \cup {"failed"}
    OBVIOUS
  <2>. HIDE DEF new, Shares, SyncDone
  <2>2. CASE new.rx + new.tx = 0 \/ d = NoDev
    BY <2>2 DEF SyncDevice, new
  <2>3. CASE ~(new.rx + new.tx = 0 \/ d = NoDev) /\ ceiling = new
    BY <2>3 DEF SyncDevice, new
  <2>4. CASE ~(new.rx + new.tx = 0 \/ d = NoDev) /\ ceiling # new
    BY <2>1, <2>4 DEF SyncDevice, new
  <2>. QED
    BY <2>2, <2>3, <2>4
<1>3. run' = NoRun
  BY <1>2 DEF SyncDone
<1>4. hurt' = hurt \cup Shares => run.row.role # "server"
  BY DEF Shares
<1>. HIDE DEF new, SyncDone
<1>. QED
  BY <1>0, <1>1, <1>2, <1>3, <1>4

LEMMA SyncDeviceKeepsKernel ==
    ASSUME LimitsInv, KernelInv, SyncDevice, hurt' = {}
    PROVE  KernelInv'
<1>1. /\ run.pc = "device" /\ run' = NoRun /\ UNCHANGED <<instance, book, next>>
      /\ run.row.role = instance.role
  BY SyncDeviceUnhurt DEF KernelInv, OneKind
<1>2. UNCHANGED Booked
  BY <1>1 DEF Booked
<1>3. ASSUME ceiling' = NoEntry \/ UNCHANGED ceiling \/ (instance # NoInstance /\ instance.role # "server")
      PROVE  OneKind'
  <2>1. OneKind /\ run'.pc = "idle" /\ instance # NoInstance
    BY <1>1, NoRunTyped DEF KernelInv, OneKind
  <2>2. instance'.role = "server" <=> instance.role = "server"
    BY <1>1
  <2>. QED
    BY <1>1, <1>2, <1>3, <2>1, <2>2 DEF OneKind
<1>4. CASE ClearDevice
  BY <1>1, <1>3, <1>4, ClearDeviceTyped, ClearDeviceKeepsKernel
<1>5. CASE UNCHANGED <<kernel, ceiling>>
  BY <1>1, <1>3, <1>5, KernelKept DEF enforcer
<1>6. ASSUME NEW U, U = IF ceiling = NoEntry THEN kernel ELSE TcOn(ceiling.dev, RemoveDeviceRules(ceiling)),
             NEW d \in Devices, d = run.row.dev, NEW c, c = NewCeiling,
             instance # NoInstance, instance.role # "server",
             kernel' = [U EXCEPT ![d] = Tc(@, PlanDevice(c))], ceiling' = c
      PROVE  KernelInv'
  <2>1. Booked = {}
    BY <1>6 DEF KernelInv, OneKind
  <2>2. U \in [Devices -> Kernel] /\ \A o \in Devices : Unlimited(U[o])
    BY <1>6, <2>1, UndoneIsUnlimited
  <2>3. c \in Ceiling /\ c.dev = d /\ c.rx \in Nat /\ c.tx \in Nat /\ c # NoEntry
    <3>1. c \in Ceiling /\ c.rx \in Nat /\ c.tx \in Nat
      BY <1>1, <1>6, SyncDeviceTyped, BandwidthAssumption
    <3>. QED
      BY <1>6, <3>1, NoneIsOne DEF NewCeiling
  <2>4. PlanDevice(c) \in Seq(Commands)
    BY <2>3, DevicePlansTyped
  <2>5. kernel'[d] = Tc(U[d], PlanDevice(c)) /\ \A o \in Devices \ {d} : kernel'[o] = U[o]
    <3>. HIDE DEF Kernel, Commands
    <3>. QED
      BY <1>6, <2>2, <2>4, KernelsTyped
  <2>6. /\ U[d] \in Kernel /\ U[d].default # FirstClass /\ U[d].whole = 0
        /\ \A i \in Ids : U[d].filter[i] = NoIP /\ U[d].police[i].ip = NoIP
    BY <2>2 DEF Unlimited
  <2>. DEFINE K == Tc(U[d], PlanDevice(c))
  <2>7. /\ K.filter = U[d].filter /\ K.police = U[d].police
        /\ c.tx > 0 => K.default = FirstClass /\ K.class[FirstClass] = c.tx
        /\ ~(c.tx > 0) => K.default = U[d].default
        /\ K.whole = IF c.rx > 0 THEN c.rx ELSE U[d].whole
    BY <2>3, <2>6, PlanDeviceEffect
  <2>. HIDE DEF K
  <2>8. \A o \in Devices, i \in Ids : kernel'[o].filter[i] = NoIP /\ kernel'[o].police[i].ip = NoIP
    <3>1. \A o \in Devices \ {d} : Unlimited(kernel'[o])
      BY <2>2, <2>5
    <3>2. \A i \in Ids : K.filter[i] = NoIP /\ K.police[i].ip = NoIP
      BY <2>6, <2>7
    <3>. QED
      BY <2>5, <3>1, <3>2 DEF Unlimited, K
  <2>9. CeilingShaped'
    <3>1. ASSUME NEW o \in Devices
          PROVE  /\ kernel'[o].whole = CeilingOf(c, o).rx
                 /\ kernel'[o].default = FirstClass <=> CeilingOf(c, o).tx # 0
                 /\ CeilingOf(c, o).tx # 0 => kernel'[o].class[FirstClass] = CeilingOf(c, o).tx
      <4>1. CASE o = d
        <5>1. CeilingOf(c, o) = c
          BY <2>3, <4>1 DEF CeilingOf
        <5>2. kernel'[o] = K
          BY <2>5, <4>1 DEF K
        <5>3. K.whole = c.rx /\ (K.default = FirstClass <=> c.tx # 0)
              /\ (c.tx # 0 => K.class[FirstClass] = c.tx)
          BY <2>3, <2>6, <2>7
        <5>. QED
          BY <5>1, <5>2, <5>3
      <4>2. CASE o # d
        <5>1. CeilingOf(c, o) = NoLimit
          BY <2>3, <4>2 DEF CeilingOf
        <5>2. Unlimited(kernel'[o])
          BY <2>2, <2>5, <4>2
        <5>. QED
          BY <5>1, <5>2 DEF Unlimited, NoLimit
      <4>. QED
        BY <4>1, <4>2
    <3>2. CeilingShaped' <=>
            \A o \in Devices :
                /\ kernel'[o].whole = CeilingOf(ceiling', o).rx
                /\ kernel'[o].default = FirstClass <=> CeilingOf(ceiling', o).tx # 0
                /\ CeilingOf(ceiling', o).tx # 0 => kernel'[o].class[FirstClass] = CeilingOf(ceiling', o).tx
      BY DEF CeilingShaped
    <3>. QED
      BY <1>6, <3>1, <3>2
  <2>. QED
    BY <1>1, <1>3, <1>6, <2>1, <2>8, <2>9, OnlyCeiling
<1>7. CASE /\ run.row.dev # NoDev /\ instance # NoInstance /\ run.row.role # "server"
           /\ kernel' = [(IF ceiling = NoEntry THEN kernel
                          ELSE TcOn(ceiling.dev, RemoveDeviceRules(ceiling)))
                         EXCEPT ![run.row.dev] = Tc(@, PlanDevice(NewCeiling))]
           /\ ceiling' = NewCeiling
  <2>1. run.row.dev \in Devices
    BY <1>1, <1>7, SyncDeviceTyped
  <2>. QED
    BY <1>1, <1>6, <1>7, <2>1
<1>. QED
  BY <1>4, <1>5, <1>7, SyncDeviceUnhurt

LEMMA ProcessRestartKeepsKernel ==
    ASSUME LimitsInv, KernelInv, NEW d \in Devices, ProcessRestart(d), hurt' = {}
    PROVE  KernelInv'
<1>1. kernel[d] = Bare /\ kernel' = [kernel EXCEPT ![d] = Bare] /\ UNCHANGED <<instance, enforcer, run>>
  <2>1. kernel[d] # Bare => "recreated" \in hurt'
    BY DEF ProcessRestart
  <2>. QED
    BY <2>1 DEF ProcessRestart, rows
<1>2. UNCHANGED kernel
  <2>1. kernel \in [Devices -> Kernel]
    BY DEF LimitsInv, BandwidthTypeOK
  <2>. HIDE DEF Kernel, Bare
  <2>. QED
    BY <1>1, <2>1
<1>3. UNCHANGED <<book, ceiling, Booked>>
  BY <1>1 DEF enforcer, Booked
<1>4. OneKind'
  BY <1>1, <1>3 DEF KernelInv, OneKind
<1>. QED
  BY <1>1, <1>2, <1>4, KernelKept

LEMMA DeleteInstanceKeepsKernel ==
    ASSUME LimitsInv, KernelInv, DeleteInstance, hurt' = {}
    PROVE  KernelInv'
<1>1. kernel = kernel' /\ run.pc = "idle" /\ UNCHANGED <<enforcer, run>> /\ instance' = NoInstance
      /\ \A d \in Devices : kernel[d] = Bare
  <2>1. ~(kernel = kernel' /\ run.pc = "idle") => "recreated" \in hurt'
    BY DEF DeleteInstance
  <2>. QED
    BY <2>1 DEF DeleteInstance
<1>2. Booked = {}
  <2>. SUFFICES ASSUME NEW cn \in Booked PROVE FALSE
    OBVIOUS
  <2>1. /\ book[cn] \in Entry /\ book[cn].dev \in Devices /\ book[cn].id \in Ids
        /\ book[cn].ip \in IPs /\ cn \in Owners(book[cn].dev)
        /\ book[cn].rx > 0 \/ book[cn].tx > 0
    BY DEF Booked, LimitsInv, BandwidthTypeOK, BookOK, Entry, Owners
  <2>2. ShapesPeers(book, Bare, Owners(book[cn].dev))
    BY <1>1, <2>1 DEF KernelInv, PeersShaped
  <2>3. Bare.filter[book[cn].id] = NoIP /\ Bare.police[book[cn].id].ip = NoIP
    BY <2>1 DEF Bare
  <2>4. /\ book[cn].rx > 0 => Bare.filter[book[cn].id] = book[cn].ip
        /\ book[cn].tx > 0 => Bare.police[book[cn].id] = [ip |-> book[cn].ip, rate |-> book[cn].tx]
    BY <2>1, <2>2 DEF ShapesPeers
  <2>5. book[cn].tx > 0 => Bare.police[book[cn].id].ip = book[cn].ip
    BY <2>4
  <2>. QED
    BY <2>1, <2>3, <2>4, <2>5, BandwidthAssumption
<1>3. ceiling = NoEntry
  <2>. SUFFICES ASSUME ceiling # NoEntry PROVE FALSE
    OBVIOUS
  <2>1. /\ ceiling.dev \in Devices /\ ceiling.rx \in Nat /\ ceiling.tx \in Nat
        /\ ceiling.rx > 0 \/ ceiling.tx > 0
    BY RatesAreNumbers DEF LimitsInv, BandwidthTypeOK, BookOK, Ceiling
  <2>2. Bare.whole = ceiling.rx /\ (Bare.default = FirstClass <=> ceiling.tx # 0)
    <3>1. CeilingOf(ceiling, ceiling.dev) = ceiling /\ kernel[ceiling.dev] = Bare
      BY <1>1, <2>1 DEF CeilingOf
    <3>. QED
      BY <2>1, <3>1 DEF KernelInv, CeilingShaped
  <2>. QED
    BY <2>1, <2>2 DEF Bare, FirstClass
<1>4. UNCHANGED <<book, ceiling, Booked>>
  BY <1>1 DEF enforcer, Booked
<1>5. OneKind'
  BY <1>1, <1>2, <1>3, <1>4 DEF OneKind
<1>. QED
  BY <1>1, <1>5, KernelKept

(* A step heals nothing.                                                     *)
LEMMA HurtStays ==
    ASSUME LimitsInv, [BandwidthNext]_bandwidthVars
    PROVE  hurt \subseteq hurt'
<1>1. ASSUME NEW d, NEW s, UndoOn(d, s) PROVE hurt \subseteq hurt'
  BY <1>1 DEF UndoOn
<1>2. ASSUME NEW cn \in CNs, Unshape(cn) \/ Apply(cn) PROVE hurt \subseteq hurt'
  <2>1. CASE Unshape(cn)
    BY <1>1, <2>1 DEF Unshape
  <2>2. CASE Apply(cn)
    BY <2>2 DEF Apply
  <2>. QED
    BY <1>2, <2>1, <2>2
<1>3. ASSUME SyncDevice \/ ClearEnd PROVE hurt \subseteq hurt'
  <2>1. ClearDevice => hurt \subseteq hurt'
    BY <1>1 DEF ClearDevice
  <2>2. CASE SyncDevice
    BY <2>1, <2>2 DEF SyncDevice
  <2>3. CASE ClearEnd
    BY <2>1, <2>3 DEF ClearEnd
  <2>. QED
    BY <1>3, <2>2, <2>3
<1>4. CASE SyncBegin \/ RemoveEnd \/ ApplyEnd \/ UNCHANGED bandwidthVars
  BY <1>4 DEF SyncBegin, RemoveEnd, ApplyEnd, bandwidthVars
<1>5. CASE Environment
  <2>1. ASSUME NEW d \in Devices, ProcessRestart(d) PROVE hurt \subseteq hurt'
    BY <2>1 DEF ProcessRestart
  <2>2. CASE DeleteInstance
    BY <2>2 DEF DeleteInstance
  <2>3. CASE EnforcerRestart
    BY <2>3 DEF EnforcerRestart
  <2>. QED
    BY <1>5, <2>1, <2>2, <2>3 DEF Environment, DropPeer, SetPeer, SetRow, CreateInstance
<1>. QED
  BY <1>2, <1>3, <1>4, <1>5 DEF BandwidthNext, Sync

LEMMA NextKernel ==
    ASSUME LimitsInv, ShapedInv, [BandwidthNext]_bandwidthVars
    PROVE  ShapedInv'
<1>. SUFFICES ASSUME hurt' = {} PROVE KernelInv'
  BY DEF ShapedInv
<1>1. KernelInv
  BY HurtStays DEF ShapedInv
<1>2. ASSUME NEW cn \in CNs, Apply(cn) PROVE KernelInv'
  <2>1. run.row.dev \in Devices
    BY <1>2, ApplyUnhurt
  <2>. QED
    BY <1>1, <1>2, <2>1, ApplyKeepsKernel
<1>3. CASE EnforcerRestart
  BY <1>3 DEF EnforcerRestart
<1>4. CASE Sync
  BY <1>1, <1>2, <1>4, QuietKeepsKernel, UnshapeKeepsKernel, SyncDeviceKeepsKernel, ClearEndKeepsKernel
     DEF Sync
<1>5. CASE Environment
  BY <1>1, <1>3, <1>5, QuietKeepsKernel, ProcessRestartKeepsKernel, DeleteInstanceKeepsKernel
     DEF Environment
<1>6. CASE UNCHANGED bandwidthVars
  BY <1>1, <1>6, QuietKeepsKernel
<1>. QED
  BY <1>4, <1>5, <1>6 DEF BandwidthNext

LEMMA KernelInvariant == BandwidthSpec => [](LimitsInv /\ ShapedInv)
<1>1. LimitsInv /\ ShapedInv /\ [BandwidthNext]_bandwidthVars => (LimitsInv /\ ShapedInv)'
  BY NextLimits, NextKernel
<1>. QED
  BY <1>1, InitLimits, InitKernelInv, PTL DEF BandwidthSpec

------------------------------------------------------------------------------
(* A kernel that does what the book says keeps its promises.                 *)

LEMMA AddressIsShaped ==
    ASSUME LimitsInv, KernelInv, NEW d \in Devices, NEW ip \in IPs, NEW rx \in Nat, NEW tx \in Nat,
           \A a \in Owners(d) : book[a].ip = ip => book[a].rx = rx /\ book[a].tx = tx,
           rx # 0 \/ tx # 0 => \E a \in Owners(d) : book[a].ip = ip
    PROVE  LET top == CeilingOf(ceiling, d) IN
           /\ Egress(kernel[d], ip) = IF rx # 0 THEN rx ELSE top.tx
           /\ Ingress(kernel[d], ip) = IF top.rx # 0 THEN top.rx ELSE tx
<1>. DEFINE k == kernel[d]
            top == CeilingOf(ceiling, d)
            filters == {i \in Ids : k.filter[i] = ip}
            policers == {i \in Ids : k.police[i].ip = ip}
<1>1. /\ \A a \in Owners(d) :
            /\ book[a].id \in Ids /\ book[a].rx \in Nat /\ book[a].tx \in Nat
            /\ book[a].rx > 0 => k.filter[book[a].id] = book[a].ip /\ k.class[book[a].id] = book[a].rx
            /\ book[a].tx > 0 => k.police[book[a].id] = [ip |-> book[a].ip, rate |-> book[a].tx]
      /\ \A i \in Ids : k.filter[i] = NoIP \/ \E a \in Owners(d) : book[a].id = i /\ book[a].rx > 0
      /\ \A i \in Ids : k.police[i].ip = NoIP \/ \E a \in Owners(d) : book[a].id = i /\ book[a].tx > 0
  <2>1. ShapesPeers(book, k, Owners(d))
    BY DEF KernelInv, PeersShaped
  <2>2. \A a \in Owners(d) : book[a].id \in Ids /\ book[a].rx \in Nat /\ book[a].tx \in Nat
    BY OwnersTyped, RatesAreNumbers DEF Entry
  <2>. HIDE DEF k
  <2>. QED
    BY <2>1, <2>2 DEF ShapesPeers
<1>2. /\ k.whole = top.rx /\ (k.default = FirstClass <=> top.tx # 0)
      /\ top.tx # 0 => k.class[FirstClass] = top.tx
  BY DEF KernelInv, CeilingShaped
<1>3. ip # NoIP /\ Ids \subseteq Nat
  BY BandwidthAssumption DEF Ids, FirstClass
<1>. HIDE DEF k, top
<1>4. \A i \in filters : k.class[i] = rx /\ rx # 0
  <2>. SUFFICES ASSUME NEW i \in filters PROVE k.class[i] = rx /\ rx # 0
    OBVIOUS
  <2>1. PICK a \in Owners(d) : book[a].id = i /\ book[a].rx > 0
    BY <1>1, <1>3
  <2>2. k.filter[i] = book[a].ip /\ k.class[i] = book[a].rx
    BY <1>1, <2>1
  <2>. QED
    BY <2>1, <2>2
<1>5. rx # 0 => filters # {}
  <2>. SUFFICES ASSUME rx # 0 PROVE filters # {}
    OBVIOUS
  <2>1. PICK a \in Owners(d) : book[a].ip = ip
    OBVIOUS
  <2>2. book[a].rx > 0
    BY <2>1
  <2>. QED
    BY <1>1, <2>1, <2>2
<1>6. \A i \in policers : k.police[i].rate = tx /\ tx # 0
  <2>. SUFFICES ASSUME NEW i \in policers PROVE k.police[i].rate = tx /\ tx # 0
    OBVIOUS
  <2>1. PICK a \in Owners(d) : book[a].id = i /\ book[a].tx > 0
    BY <1>1, <1>3
  <2>2. k.police[i] = [ip |-> book[a].ip, rate |-> book[a].tx]
    BY <1>1, <2>1
  <2>3. k.police[i].ip = book[a].ip /\ k.police[i].rate = book[a].tx
    BY <2>2
  <2>. QED
    BY <2>1, <2>3
<1>7. tx # 0 => policers # {}
  <2>. SUFFICES ASSUME tx # 0 PROVE policers # {}
    OBVIOUS
  <2>1. PICK a \in Owners(d) : book[a].ip = ip
    OBVIOUS
  <2>2. book[a].id \in Ids /\ k.police[book[a].id] = [ip |-> book[a].ip, rate |-> book[a].tx]
    BY <1>1, <2>1
  <2>3. k.police[book[a].id].ip = ip
    BY <2>1, <2>2
  <2>. QED
    BY <2>2, <2>3
<1>8. Egress(k, ip) = IF filters # {} THEN k.class[Min(filters)]
                      ELSE IF k.default = FirstClass THEN k.class[FirstClass] ELSE 0
  BY DEF Egress
<1>9. Ingress(k, ip) = IF k.whole # 0 THEN k.whole
                       ELSE IF policers # {} THEN k.police[Min(policers)].rate ELSE 0
  BY DEF Ingress
<1>10. filters \in SUBSET Nat /\ policers \in SUBSET Nat
  BY <1>3
<1>. HIDE DEF filters, policers
<1>11. /\ filters # {} => Min(filters) \in filters
       /\ policers # {} => Min(policers) \in policers
  BY <1>10, MinIsMember
<1>12. Egress(k, ip) = IF rx # 0 THEN rx ELSE top.tx
  BY <1>2, <1>4, <1>5, <1>8, <1>11
<1>13. Ingress(k, ip) = IF top.rx # 0 THEN top.rx ELSE tx
  BY <1>2, <1>6, <1>7, <1>9, <1>11
<1>. QED
  BY <1>12, <1>13 DEF k, top

(* Entries that say what the book says promise what the kernel does.         *)
LEMMA ShapedAsBooked ==
    ASSUME LimitsInv, KernelInv, NEW E, IsFiniteSet(E), NEW c,
           \A e \in E : \E a \in Booked : /\ e.ip = book[a].ip /\ e.dev = book[a].dev
                                          /\ e.rx = book[a].rx /\ e.tx = book[a].tx,
           \A a \in Booked : \E e \in E : /\ e.ip = book[a].ip /\ e.dev = book[a].dev
                                          /\ e.rx = book[a].rx /\ e.tx = book[a].tx,
           \A d \in Devices : /\ CeilingOf(c, d).rx = CeilingOf(ceiling, d).rx
                              /\ CeilingOf(c, d).tx = CeilingOf(ceiling, d).tx
    PROVE  Shaped(E, c)
<1>1. ASSUME NEW d \in Devices, NEW ip \in IPs, Cardinality(For(E, d, ip)) <= 1
      PROVE  LET p == PeerLimit(E, d, ip)
                 top == CeilingOf(c, d)
             IN
             /\ Egress(kernel[d], ip) = IF p.rx # 0 THEN p.rx ELSE top.tx
             /\ Ingress(kernel[d], ip) = IF top.rx # 0 THEN top.rx ELSE p.tx
  <2>. DEFINE F == For(E, d, ip)
              p == PeerLimit(E, d, ip)
  <2>1. IsFiniteSet(F)
    BY FS_Subset DEF For
  <2>2. F = {} \/ \E x : F = {x}
    <3>1. Cardinality(F) = 0 \/ Cardinality(F) = 1
      BY <1>1, <2>1, FS_CardinalityType
    <3>. QED
      BY <2>1, <3>1, FS_EmptySet, FS_Singleton
  <2>3. \A a \in Owners(d) : book[a].ip = ip =>
            \E e \in F : e.rx = book[a].rx /\ e.tx = book[a].tx
    BY DEF Owners, For
  <2>4. \A e \in F : \E a \in Owners(d) : /\ book[a].ip = ip
                                          /\ e.rx = book[a].rx /\ e.tx = book[a].tx
    BY DEF Owners, For
  <2>5. \A a \in Owners(d) : book[a].rx \in Nat /\ book[a].tx \in Nat
    BY OwnersTyped, RatesAreNumbers DEF Entry
  <2>6. p = IF F = {} THEN NoLimit ELSE CHOOSE e \in F : TRUE
    BY DEF PeerLimit
  <2>. HIDE DEF F, p
  <2>7. CASE F = {}
    <3>1. p.rx = 0 /\ p.tx = 0
      BY <2>6, <2>7 DEF NoLimit
    <3>2. \A a \in Owners(d) : book[a].ip # ip
      BY <2>3, <2>7
    <3>3. LET top == CeilingOf(ceiling, d) IN
          /\ Egress(kernel[d], ip) = IF 0 # 0 THEN 0 ELSE top.tx
          /\ Ingress(kernel[d], ip) = IF top.rx # 0 THEN top.rx ELSE 0
      BY <3>2, AddressIsShaped
    <3>. QED
      BY <3>1, <3>3 DEF p
  <2>8. ASSUME NEW x, F = {x}
        PROVE  LET top == CeilingOf(c, d) IN
               /\ Egress(kernel[d], ip) = IF p.rx # 0 THEN p.rx ELSE top.tx
               /\ Ingress(kernel[d], ip) = IF top.rx # 0 THEN top.rx ELSE p.tx
    <3>1. p = x
      BY <2>6, <2>8
    <3>2. \A a \in Owners(d) : book[a].ip = ip => book[a].rx = x.rx /\ book[a].tx = x.tx
      BY <2>3, <2>8
    <3>3. PICK a \in Owners(d) : book[a].ip = ip /\ x.rx = book[a].rx /\ x.tx = book[a].tx
      BY <2>4, <2>8
    <3>4. x.rx \in Nat /\ x.tx \in Nat
      BY <2>5, <3>3
    <3>5. LET top == CeilingOf(ceiling, d) IN
          /\ Egress(kernel[d], ip) = IF x.rx # 0 THEN x.rx ELSE top.tx
          /\ Ingress(kernel[d], ip) = IF top.rx # 0 THEN top.rx ELSE x.tx
      BY <3>2, <3>3, <3>4, AddressIsShaped
    <3>. QED
      BY <3>1, <3>5
  <2>. QED
    BY <2>2, <2>7, <2>8 DEF p
<1>. QED
  BY <1>1 DEF Shaped

LEMMA ImageIsFinite ==
    ASSUME NEW f, IsFiniteSet(DOMAIN f)
    PROVE  IsFiniteSet({f[x] : x \in DOMAIN f})
<1>. DEFINE S == DOMAIN f
            T == {f[x] : x \in S}
            g == [x \in S |-> f[x]]
<1>1. g \in Surjection(S, T)
  BY DEF Surjection
<1>. QED
  BY <1>1, FS_Surjection

LEMMA BookedIsFinite == IsFiniteSet(Booked)
BY BandwidthAssumption, FS_Subset DEF Booked

(* As long as no command failed, no device went away under the enforcer, no  *)
(* class id was used twice and the enforcer was not started anew, what it    *)
(* has booked is what the kernel does to every address, whatever rows        *)
(* changed and in whatever order (Enforcer.Apply, Remove, SyncDevice).       *)
THEOREM BookIsTrue ==
    ASSUME Excused = Events
    PROVE  BandwidthSpec => []BookedIsShaped
<1>1. LimitsInv /\ ShapedInv => BookedIsShaped
  <2>. SUFFICES ASSUME LimitsInv, ShapedInv, hurt \cap Excused = {}
                PROVE  Shaped({book[cn] : cn \in Booked}, ceiling)
    BY DEF BookedIsShaped
  <2>1. KernelInv
    BY DEF ShapedInv, LimitsInv, BandwidthTypeOK
  <2>2. IsFiniteSet({book[cn] : cn \in Booked})
    <3>. DEFINE f == [cn \in Booked |-> book[cn]]
    <3>1. DOMAIN f = Booked /\ {f[cn] : cn \in DOMAIN f} = {book[cn] : cn \in Booked}
      OBVIOUS
    <3>. HIDE DEF f
    <3>2. IsFiniteSet({f[cn] : cn \in DOMAIN f})
      BY <3>1, BookedIsFinite, ImageIsFinite
    <3>. QED
      BY <3>1, <3>2
  <2>. QED
    BY <2>1, <2>2, ShapedAsBooked
<1>. QED
  BY <1>1, KernelInvariant, PTL

------------------------------------------------------------------------------
(* A sync that runs through.                                                 *)

LEMMA SyncBeginSyncs ==
    ASSUME LimitsInv, SyncBegin
    PROVE  SyncInv'
<1>1. /\ UNCHANGED <<instance, peers, book, ceiling>> /\ Booked' = Booked
      /\ run'.row = instance /\ run'.peers = peers
      /\ run'.pc = IF instance = NoInstance \/ ~instance.enabled THEN "clear"
                   ELSE IF instance.role = "server" THEN "remove" ELSE "device"
      /\ run'.todo = IF instance = NoInstance \/ ~instance.enabled THEN Booked
                     ELSE IF instance.role = "server" THEN Booked \ Desired(peers) ELSE {}
  BY DEF SyncBegin, NoRun, rows, enforcer, Booked
<1>2. CASE instance = NoInstance \/ ~instance.enabled
  <2>1. run'.pc = "clear" /\ Booked' \subseteq run'.todo
    BY <1>1, <1>2
  <2>. QED
    BY <1>1, <1>2, <2>1 DEF SyncInv, Progress
<1>3. CASE ~(instance = NoInstance \/ ~instance.enabled) /\ instance.role = "server"
  <2>1. run'.pc = "remove" /\ Booked' \ run'.todo \subseteq Desired(run'.peers) /\ instance.enabled
    BY <1>1, <1>3
  <2>. QED
    BY <1>1, <2>1 DEF SyncInv, Progress
<1>4. CASE ~(instance = NoInstance \/ ~instance.enabled) /\ instance.role # "server"
  <2>1. run'.pc = "device" /\ run'.row.role # "server" /\ instance.enabled
    BY <1>1, <1>4
  <2>. QED
    BY <1>1, <2>1 DEF SyncInv, Progress
<1>. QED
  BY <1>2, <1>3, <1>4

LEMMA UnshapeSyncs ==
    ASSUME LimitsInv, SyncInv, hurt \subseteq hurt', NEW cn \in CNs, Unshape(cn)
    PROVE  SyncInv'
<1>. SUFFICES ASSUME hurt' = {}, fresh'
              PROVE  run'.pc # "idle" /\ run'.row = instance' /\ run'.peers = peers' /\ Progress'
  BY DEF SyncInv
<1>1. /\ UNCHANGED <<instance, peers, fresh>> /\ book' = [book EXCEPT ![cn] = NoEntry]
      /\ run.pc \in {"remove", "clear"} /\ run'.pc = run.pc /\ run'.row = run.row
      /\ run'.peers = run.peers /\ run'.todo = run.todo \ {cn}
  BY DEF Unshape, rows, LimitsInv, BandwidthTypeOK, Run
<1>2. run.row = instance /\ run.peers = peers /\ Progress
  BY <1>1 DEF SyncInv
<1>3. Booked' = Booked \ {cn}
  BY <1>1 DEF Booked, LimitsInv, BandwidthTypeOK
<1>. QED
  BY <1>1, <1>2, <1>3 DEF Progress

LEMMA RemoveEndSyncs ==
    ASSUME LimitsInv, SyncInv, RemoveEnd
    PROVE  SyncInv'
<1>. SUFFICES ASSUME hurt = {}, fresh
              PROVE  run'.pc # "idle" /\ run'.row = instance' /\ run'.peers = peers' /\ Progress'
  BY DEF SyncInv, RemoveEnd
<1>1. /\ UNCHANGED <<instance, peers, book>> /\ run.pc = "remove" /\ run.todo = {}
      /\ run'.row = run.row /\ run'.peers = run.peers
      /\ \/ run'.pc = "device" /\ run.row.dev = NoDev
         \/ run'.pc = "apply" /\ run'.todo = Desired(run.peers)
  BY DEF RemoveEnd, rows, enforcer, LimitsInv, BandwidthTypeOK, Run
<1>2. run.row = instance /\ run.peers = peers /\ Progress
  BY <1>1 DEF SyncInv
<1>3. UNCHANGED Booked /\ Booked \subseteq Desired(run.peers) /\ run.row.enabled
  BY <1>1, <1>2 DEF Progress, Booked
<1>. QED
  BY <1>1, <1>2, <1>3 DEF Progress, BookIs

LEMMA ApplyEndSyncs ==
    ASSUME LimitsInv, SyncInv, ApplyEnd
    PROVE  SyncInv'
<1>. SUFFICES ASSUME hurt = {}, fresh
              PROVE  run'.pc # "idle" /\ run'.row = instance' /\ run'.peers = peers' /\ Progress'
  BY DEF SyncInv, ApplyEnd
<1>1. /\ UNCHANGED <<instance, peers, book>> /\ run.pc = "apply" /\ run.todo = {}
      /\ run'.row = run.row /\ run'.peers = run.peers /\ run'.ok = run.ok /\ run'.pc = "device"
  BY DEF ApplyEnd, rows, enforcer, LimitsInv, BandwidthTypeOK, Run
<1>2. run.row = instance /\ run.peers = peers /\ Progress
  BY <1>1 DEF SyncInv
<1>3. UNCHANGED Booked /\ run.row.enabled /\ (run.ok => BookIs(Desired(run.peers), run.row, run.peers))
  <2>1. Desired(run.peers) \ run.todo = Desired(run.peers)
    BY <1>1
  <2>. QED
    BY <1>1, <1>2, <2>1 DEF Progress, Booked
<1>. QED
  BY <1>1, <1>2, <1>3 DEF Progress, BookIs

LEMMA ApplySyncs ==
    ASSUME LimitsInv, SyncInv, hurt \subseteq hurt', NEW cn \in CNs, Apply(cn)
    PROVE  SyncInv'
<1>. SUFFICES ASSUME hurt' = {}, fresh'
              PROVE  run'.pc # "idle" /\ run'.row = instance' /\ run'.peers = peers' /\ Progress'
  BY DEF SyncInv
<1>. DEFINE d == run.row.dev
            new == AppliedEntry(cn)
            want(o) == Wanted(run.peers[o], d, FirstClass)
<1>1. /\ cn \in run.todo /\ cn \in Desired(run.peers) /\ run.pc = "apply"
      /\ run'.pc = "apply" /\ run'.row = run.row /\ run'.peers = run.peers
      /\ run'.todo = run.todo \ {cn} /\ UNCHANGED <<instance, peers, fresh>>
      /\ new \in Entry
      /\ \/ Same(book[cn], new) /\ UNCHANGED book /\ run'.ok = run.ok
         \/ ~run'.ok
         \/ book' = [book EXCEPT ![cn] = new] /\ run'.ok = run.ok
  BY ApplyUnhurt
<1>2. run.row = instance /\ run.peers = peers /\ Progress
  BY <1>1 DEF SyncInv
<1>3. \A old : Same(old, new) => Same(old, want(cn))
  BY DEF Same, AppliedEntry, Wanted
<1>4. Same(new, new)
  BY <1>1, NoneIsOne DEF Same
<1>. HIDE DEF new
<1>5. ASSUME run'.ok
      PROVE  BookIs(Desired(run.peers) \ run.todo, run.row, run.peers)
  <2>1. run.ok
    BY <1>1, <1>5
  <2>. QED
    BY <1>1, <1>2, <2>1 DEF Progress
<1>6. ASSUME run'.ok
      PROVE  /\ Booked' \subseteq Desired(run.peers)
             /\ \A o \in Desired(run.peers) \ (run.todo \ {cn}) : Same(book'[o], want(o))
  <2>1. /\ Booked \subseteq Desired(run.peers)
        /\ \A o \in Desired(run.peers) \ run.todo : Same(book[o], want(o))
    BY <1>5, <1>6 DEF BookIs
  <2>. HIDE DEF want
  <2>2. CASE Same(book[cn], new) /\ UNCHANGED book
    <3>1. Booked' = Booked
      BY <2>2 DEF Booked
    <3>. QED
      BY <1>3, <2>1, <2>2, <3>1
  <2>3. CASE book' = [book EXCEPT ![cn] = new]
    <3>1. book'[cn] = new /\ \A o \in CNs \ {cn} : book'[o] = book[o]
      BY <2>3 DEF LimitsInv, BandwidthTypeOK
    <3>2. Booked' \subseteq Booked \cup {cn}
      BY <3>1 DEF Booked
    <3>3. Desired(run.peers) \subseteq CNs
      BY DEF Desired
    <3>4. \A o \in Desired(run.peers) \ (run.todo \ {cn}) :
             o = cn \/ (o # cn /\ o \in Desired(run.peers) \ run.todo /\ o \in CNs \ {cn})
      BY <3>3
    <3>. QED
      BY <1>1, <1>3, <1>4, <2>1, <3>1, <3>2, <3>4
  <2>. QED
    BY <1>1, <1>6, <2>2, <2>3
<1>. HIDE DEF want
<1>7. run.row.enabled
  BY <1>1, <1>2 DEF Progress
<1>8. run'.ok => BookIs(Desired(run.peers) \ run.todo, run.row, run.peers)'
  BY <1>1, <1>6 DEF BookIs, want
<1>. QED
  BY <1>1, <1>2, <1>7, <1>8 DEF Progress

LEMMA ClearEndSyncs ==
    ASSUME LimitsInv, SyncInv, hurt \subseteq hurt', ClearEnd
    PROVE  SyncInv'
<1>. SUFFICES ASSUME hurt' = {}, fresh' PROVE run'.pc = "idle" /\ Synced'
  BY DEF SyncInv
<1>1. /\ run.pc = "clear" /\ run.todo = {} /\ run' = NoRun /\ ceiling' = NoEntry /\ fresh
      /\ UNCHANGED <<instance, book>>
  BY ClearDeviceTyped DEF ClearEnd, SyncDone, rows
<1>2. run.row = instance /\ Progress
  BY <1>1 DEF SyncInv
<1>3. Booked' = {} /\ (instance' = NoInstance \/ ~instance'.enabled)
  BY <1>1, <1>2 DEF Progress, Booked
<1>. QED
  BY <1>1, <1>3, NoRunTyped DEF Synced

LEMMA SyncDeviceSyncs ==
    ASSUME LimitsInv, ShapedInv, SyncInv, hurt \subseteq hurt', SyncDevice
    PROVE  SyncInv'
<1>. SUFFICES ASSUME hurt' = {}, fresh' PROVE run'.pc = "idle" /\ Synced'
  BY DEF SyncInv
<1>1. /\ run.pc = "device" /\ run' = NoRun /\ UNCHANGED <<instance, peers, book>>
      /\ fresh /\ run.ok /\ run.row.dev # NoDev
      /\ \/ NewCeiling.rx + NewCeiling.tx = 0 /\ ceiling' = NoEntry
         \/ NewCeiling.rx + NewCeiling.tx # 0 /\ ceiling' = NewCeiling
  BY SyncDeviceUnhurt, ClearDeviceTyped DEF SyncDone
<1>2. run.row = instance /\ run.peers = peers /\ Progress /\ KernelInv
  BY <1>1 DEF SyncInv, ShapedInv
<1>3. /\ run.row \in Rows /\ run.row # NoInstance /\ run.row.limit \in Limits
      /\ NewCeiling.rx \in Nat /\ NewCeiling.tx \in Nat
  BY <1>1, SyncDeviceTyped DEF Rows
<1>4. NewCeiling = [rx |-> instance.limit.rx, tx |-> instance.limit.tx, dev |-> instance.dev]
  BY <1>2 DEF NewCeiling
<1>5. instance.limit = NoLimit <=> NewCeiling.rx + NewCeiling.tx = 0
  <2>1. \A l \in Limits : l.rx = 0 /\ l.tx = 0 => l = NoLimit
    BY DEF Limits, EffectiveBandwidth, NoLimit
  <2>2. NewCeiling.rx = instance.limit.rx /\ NewCeiling.tx = instance.limit.tx
    BY <1>4
  <2>3. NoLimit.rx = 0 /\ NoLimit.tx = 0
    BY DEF NoLimit
  <2>4. NewCeiling.rx + NewCeiling.tx = 0 <=> NewCeiling.rx = 0 /\ NewCeiling.tx = 0
    BY <1>3
  <2>. QED
    BY <1>2, <1>3, <2>1, <2>2, <2>3, <2>4
<1>6. UNCHANGED Booked /\ instance.enabled
  BY <1>1, <1>2 DEF Progress, Booked
<1>7. IF instance.role = "server" THEN BookIs(Desired(peers), instance, peers) ELSE Booked = {}
  BY <1>1, <1>2, <1>3 DEF Progress, KernelInv, OneKind
<1>8. IF instance'.role = "server" THEN BookIs(Desired(peers), instance, peers)' ELSE Booked' = {}
  BY <1>1, <1>6, <1>7 DEF BookIs
<1>9. ceiling' = IF instance.limit = NoLimit THEN NoEntry
                 ELSE [rx |-> instance.limit.rx, tx |-> instance.limit.tx, dev |-> instance.dev]
  BY <1>1, <1>4, <1>5
<1>. QED
  BY <1>1, <1>2, <1>3, <1>6, <1>8, <1>9, NoRunTyped DEF Synced

LEMMA NextSyncs ==
    ASSUME LimitsInv, ShapedInv, SyncInv, [BandwidthNext]_bandwidthVars
    PROVE  SyncInv'
<1>1. hurt \subseteq hurt'
  BY HurtStays
<1>2. CASE Sync
  BY <1>1, <1>2, SyncBeginSyncs, UnshapeSyncs, RemoveEndSyncs, ApplySyncs, ApplyEndSyncs,
      SyncDeviceSyncs, ClearEndSyncs DEF Sync
<1>3. CASE Environment
  <2>1. Change
    BY <1>3 DEF Environment, DropPeer, SetPeer, SetRow, ProcessRestart, CreateInstance,
        DeleteInstance, EnforcerRestart
  <2>. QED
    BY <2>1 DEF Change, SyncInv
<1>4. CASE UNCHANGED bandwidthVars
  <2>1. UNCHANGED <<instance, peers, book, ceiling, run, fresh, hurt, Booked>>
    BY <1>4 DEF bandwidthVars, rows, enforcer, Booked
  <2>. QED
    BY <2>1 DEF SyncInv, Synced, Progress, BookIs
<1>. QED
  BY <1>2, <1>3, <1>4 DEF BandwidthNext

LEMMA SyncInvariant == BandwidthSpec => [](LimitsInv /\ ShapedInv /\ SyncInv)
<1>1. BandwidthInit => SyncInv
  BY DEF BandwidthInit, SyncInv
<1>2. LimitsInv /\ ShapedInv /\ SyncInv /\ [BandwidthNext]_bandwidthVars
      => (LimitsInv /\ ShapedInv /\ SyncInv)'
  BY NextLimits, NextKernel, NextSyncs
<1>. QED
  BY <1>1, <1>2, InitLimits, InitKernelInv, PTL DEF BandwidthSpec

(* A sync that ran through without an error, with no row changed since it    *)
(* began, has left the kernel doing exactly what the rows want: every peer   *)
(* has its limits, nobody has a limit that is no longer wanted, and the      *)
(* instance has its ceiling.  This holds from whatever book earlier syncs,   *)
(* cut short or overtaken by changes, have left (Enforcer.Sync).             *)
THEOREM SyncShapes ==
    ASSUME Excused = Events
    PROVE  BandwidthSpec => []ShapedAfterSync
<1>. DEFINE C == IF instance.limit = NoLimit THEN NoEntry
                 ELSE [rx |-> instance.limit.rx, tx |-> instance.limit.tx, dev |-> instance.dev]
            E == {Wanted(peers[cn], instance.dev, FirstClass) : cn \in Desired(peers)}
            Idle == run.pc = "idle" /\ fresh /\ hurt \cap Excused = {}
<1>1. ASSUME LimitsInv, ShapedInv, SyncInv, Idle
      PROVE  Synced /\ KernelInv
  BY <1>1 DEF ShapedInv, SyncInv, LimitsInv, BandwidthTypeOK
<1>2. ASSUME LimitsInv, KernelInv, Booked = {}
      PROVE  Shaped({}, ceiling)
  <2>1. IsFiniteSet({})
    BY FS_EmptySet
  <2>. QED
    BY <1>2, <2>1, ShapedAsBooked
<1>3. ASSUME LimitsInv, KernelInv, BookIs(Desired(peers), instance, peers)
      PROVE  Shaped(E, ceiling)
  <2>1. IsFiniteSet(E)
    <3>. DEFINE f == [cn \in Desired(peers) |-> Wanted(peers[cn], instance.dev, FirstClass)]
    <3>1. DOMAIN f = Desired(peers) /\ {f[cn] : cn \in DOMAIN f} = E
      OBVIOUS
    <3>2. IsFiniteSet(Desired(peers))
      BY BandwidthAssumption, FS_Subset DEF Desired
    <3>. HIDE DEF f, E
    <3>3. IsFiniteSet({f[cn] : cn \in DOMAIN f})
      BY <3>1, <3>2, ImageIsFinite
    <3>. QED
      BY <3>1, <3>3
  <2>2. \A cn \in Desired(peers) :
          LET e == Wanted(peers[cn], instance.dev, FirstClass) IN
          /\ cn \in Booked
          /\ e.ip = book[cn].ip /\ e.dev = book[cn].dev /\ e.rx = book[cn].rx /\ e.tx = book[cn].tx
    BY <1>3 DEF BookIs, Same, Booked, Desired
  <2>3. Booked \subseteq Desired(peers)
    BY <1>3 DEF BookIs
  <2>4. \A e \in E : \E a \in Booked : /\ e.ip = book[a].ip /\ e.dev = book[a].dev
                                       /\ e.rx = book[a].rx /\ e.tx = book[a].tx
    BY <2>2
  <2>5. \A a \in Booked : \E e \in E : /\ e.ip = book[a].ip /\ e.dev = book[a].dev
                                       /\ e.rx = book[a].rx /\ e.tx = book[a].tx
    BY <2>2, <2>3
  <2>. HIDE DEF E
  <2>. QED
    BY <1>3, <2>1, <2>4, <2>5, ShapedAsBooked
<1>4. LimitsInv /\ ShapedInv /\ SyncInv => ShapedAfterSync
  <2>. SUFFICES ASSUME LimitsInv, ShapedInv, SyncInv, Idle
                PROVE  IF instance = NoInstance \/ ~instance.enabled THEN Shaped({}, NoEntry)
                       ELSE Shaped(IF instance.role = "server" THEN E ELSE {}, C)
    BY DEF ShapedAfterSync
  <2>. HIDE DEF Idle, C, E
  <2>1. Synced /\ KernelInv
    BY <1>1
  <2>2. CASE instance = NoInstance \/ ~instance.enabled
    BY <1>2, <2>1, <2>2 DEF Synced
  <2>3. CASE ~(instance = NoInstance \/ ~instance.enabled)
    <3>1. /\ ceiling = C
          /\ IF instance.role = "server" THEN BookIs(Desired(peers), instance, peers) ELSE Booked = {}
      BY <2>1, <2>3 DEF Synced, C
    <3>. QED
      BY <1>2, <1>3, <2>1, <2>3, <3>1
  <2>. QED
    BY <2>2, <2>3
<1>. QED
  BY <1>4, SyncInvariant, PTL
===============================================================================
