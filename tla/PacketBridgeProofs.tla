------------------------- MODULE PacketBridgeProofs -------------------------
(***************************************************************************)
(* Proofs about PacketBridge, for any buffers, host calls and owners of    *)
(* the stack: every buffer of a ring has exactly one owner, and a packet   *)
(* stays what was put in until its reader gives the buffer back.           *)
(***************************************************************************)
EXTENDS PacketBridge, Functions, FiniteSetTheorems, TLAPS

\* Who may hold a lease.
Holders == ({"call"} \X HostCalls) \cup ({"token"} \X Owners)
CallSlots(r, c) == IF r = "ingress" <=> (c.at \in {"fill", "queue"}) THEN c.slots ELSE {}
TokenSlots(r, d) == IF r = "ingress" THEN d.rx ELSE d.tx
Leases(r) ==
    [x \in Holders |-> IF x[1] = "call" THEN CallSlots(r, host[x[2]])
                       ELSE TokenSlots(r, device[x[2]])]

\* The buffers are divided between a free list, a queue and the holders of leases.
Owned(F, Q, H) ==
    /\ \A s \in Slots : \/ s \in F
                        \/ \E i \in DOMAIN Q : Q[i] = s
                        \/ \E x \in Holders : s \in H[x]
    /\ \A i \in DOMAIN Q : Q[i] \notin F
    /\ \A i, j \in DOMAIN Q : Q[i] = Q[j] => i = j
    /\ \A i \in DOMAIN Q, x \in Holders : Q[i] \notin H[x]
    /\ \A x \in Holders : \A s \in H[x] : s \notin F
    /\ \A x, y \in Holders : \A s \in H[x] : s \in H[y] => x = y

Leased == [Holders -> SUBSET Slots]

Call == [at : {"fill", "queue", "copy"}, slots : SUBSET Slots, packet : Nat]
Device == [at : {"none", "rest", "ingress", "receive", "process", "processed", "egress",
                 "transmit"},
           rx : SUBSET Slots, tx : SUBSET Slots, left : Int, packet : Nat]

BridgeTyped ==
    /\ free \in [Rings -> SUBSET Slots]
    /\ queued \in [Rings -> Seq(Slots)]
    /\ filled \in [Rings -> [Slots -> Nat]]
    /\ due \in [Rings -> Seq(Nat)]
    /\ smoltcp_owner \in BOOLEAN
    /\ host \in [HostCalls -> {NoCall} \cup Call]
    /\ device \in [Owners -> Device]

\* What a call and a poll hold where they are.
Shape ==
    /\ \A h \in HostCalls : host[h].at # "idle" => \E s \in Slots : host[h].slots = {s}
    /\ \A o \in Owners :
           /\ IF device[o].at \in {"process", "processed"}
              THEN \E s \in Slots : device[o].rx = {s} ELSE device[o].rx = {}
           /\ IF device[o].at \in {"receive", "process", "transmit"}
              THEN \E s \in Slots : device[o].tx = {s} ELSE device[o].tx = {}

\* The flag of the bridge is set while there is a device, and there is one at most.
OneDevice ==
    /\ \A o \in Owners : device[o].at # "none" => smoltcp_owner
    /\ \A o, p \in Owners : device[o].at # "none" /\ device[p].at # "none" => o = p

\* A buffer that is about to join the queue holds its packet.
Copied ==
    \A h \in HostCalls, slot \in Slots :
        host[h].at = "queue" /\ slot \in host[h].slots => filled["ingress"][slot] = host[h].packet

BridgeInv ==
    /\ BridgeTyped /\ Shape /\ OneDevice /\ Intact /\ Copied
    /\ \A r \in Rings : Owned(free[r], queued[r], Leases(r))
-----------------------------------------------------------------------------
(* The four moves of a buffer keep the division.                           *)
\* write takes a buffer of the free list into a lease.
LEMMA LeaseOwned ==
    ASSUME NEW F \in SUBSET Slots, NEW Q \in Seq(Slots), NEW H \in Leased, Owned(F, Q, H),
           NEW x \in Holders, H[x] = {}, NEW s \in F,
           NEW G, G = F \ {s}, NEW K, K = [H EXCEPT ![x] = {s}]
    PROVE  Owned(G, Q, K)
  BY DEF Owned, Leased

\* recycle gives what a lease holds back to the free list.
LEMMA RecycleOwned ==
    ASSUME NEW F \in SUBSET Slots, NEW Q \in Seq(Slots), NEW H \in Leased, Owned(F, Q, H),
           NEW x \in Holders,
           NEW G, G = F \cup H[x], NEW K, K = [H EXCEPT ![x] = {}]
    PROVE  Owned(G, Q, K)
  BY DEF Owned, Leased

\* consume of a write lease puts its buffer into the queue.
LEMMA EnqueueOwned ==
    ASSUME NEW F \in SUBSET Slots, NEW Q \in Seq(Slots), NEW H \in Leased, Owned(F, Q, H),
           NEW x \in Holders, NEW s \in Slots, H[x] = {s},
           NEW R, R = Append(Q, s), NEW K, K = [H EXCEPT ![x] = {}]
    PROVE  Owned(F, R, K)
<1>1. PICK n : n = Len(Q) + 1
  BY Zenon
<1>2. /\ DOMAIN R = DOMAIN Q \cup {n} /\ n \notin DOMAIN Q
      /\ R[n] = s /\ \A i \in DOMAIN Q : R[i] = Q[i]
  BY <1>1
<1> QED
  BY <1>2 DEF Owned, Leased

\* pop_front takes the buffer of the oldest packet into a lease.
LEMMA DequeueOwned ==
    ASSUME NEW F \in SUBSET Slots, NEW Q \in Seq(Slots), NEW H \in Leased, Owned(F, Q, H),
           NEW x \in Holders, H[x] = {}, Q # <<>>,
           NEW R, R = Tail(Q), NEW K, K = [H EXCEPT ![x] = {Head(Q)}]
    PROVE  Owned(F, R, K)
<1>1. /\ 1 \in DOMAIN Q /\ Head(Q) = Q[1] /\ Q[1] \in Slots
      /\ \A i \in DOMAIN R : i + 1 \in DOMAIN Q /\ R[i] = Q[i + 1] /\ i + 1 # 1
      /\ \A i, j \in DOMAIN R : i + 1 = j + 1 => i = j
      /\ \A i \in DOMAIN Q : i # 1 => i - 1 \in DOMAIN R /\ R[i - 1] = Q[i]
  OBVIOUS
<1>2. \A y \in Holders : K[y] = IF y = x THEN {Q[1]} ELSE H[y]
  BY <1>1, Zenon DEF Leased
<1>3. \A s \in Slots : \/ s \in F
                       \/ \E i \in DOMAIN R : R[i] = s
                       \/ \E y \in Holders : s \in K[y]
  <2> TAKE s \in Slots
  <2>1. CASE \E i \in DOMAIN Q : Q[i] = s
    <3>1. PICK i \in DOMAIN Q : Q[i] = s
      BY <2>1, Zenon
    <3>2. CASE i = 1
      BY <1>2, <3>1, <3>2
    <3>3. CASE i # 1
      BY <1>1, <3>1, <3>3, Zenon
    <3> QED
      BY <3>2, <3>3, Zenon
  <2>2. CASE \E y \in Holders : s \in H[y]
    BY <1>2, <2>2, Zenon
  <2> QED
    BY <2>1, <2>2, Zenon DEF Owned
<1>4. /\ \A i \in DOMAIN R : R[i] \notin F
      /\ \A i, j \in DOMAIN R : R[i] = R[j] => i = j
      /\ \A i \in DOMAIN R, y \in Holders : R[i] \notin K[y]
  BY <1>1, <1>2 DEF Owned
<1>5. /\ \A y \in Holders : \A s \in K[y] : s \notin F
      /\ \A y, z \in Holders : \A s \in K[y] : s \in K[z] => y = z
  BY <1>1, <1>2 DEF Owned
<1> QED
  BY <1>3, <1>4, <1>5, Zenon DEF Owned

\* What moves no lease.
LEMMA SameLeases ==
    ASSUME NEW H \in Leased, NEW x \in Holders, NEW S, H[x] = S
    PROVE  [H EXCEPT ![x] = S] = H
  BY Zenon DEF Leased

\* The leases, one by one.
LEMMA LeasesAre ==
    ASSUME BridgeTyped, NEW r
    PROVE  /\ Leases(r) \in Leased
           /\ \A h \in HostCalls : /\ <<"call", h>> \in Holders
                                   /\ Leases(r)[<<"call", h>>] = CallSlots(r, host[h])
           /\ \A o \in Owners : /\ <<"token", o>> \in Holders
                                /\ Leases(r)[<<"token", o>>] = TokenSlots(r, device[o])
<1>1. \A h \in HostCalls : CallSlots(r, host[h]) \in SUBSET Slots
  BY DEF BridgeTyped, CallSlots, NoCall, Call
<1>2. \A o \in Owners : TokenSlots(r, device[o]) \in SUBSET Slots
  BY Zenon DEF BridgeTyped, TokenSlots, Device
<1>3. \A x \in Holders : \/ x[1] = "call" /\ x[2] \in HostCalls
                         \/ x[1] = "token" /\ x[2] \in Owners
  BY Zenon DEF Holders
<1>4. Leases(r) \in Leased
  BY <1>1, <1>2, <1>3, Zenon DEF Leases, Leased
<1>5. /\ \A h \in HostCalls : <<"call", h>> \in Holders
      /\ \A o \in Owners : <<"token", o>> \in Holders
  BY Zenon DEF Holders
<1> QED
  BY <1>4, <1>5, Zenon DEF Leases

\* The leases when the state of a call changes.
LEMMA CallLeases ==
    ASSUME BridgeTyped, NEW h \in HostCalls, NEW c,
           host' = [host EXCEPT ![h] = c], device' = device, NEW r
    PROVE  Leases(r)' = [Leases(r) EXCEPT ![<<"call", h>>] = CallSlots(r, c)]
<1>1. \A x \in Holders : \/ /\ x[1] = "call" /\ x[2] \in HostCalls
                            /\ x = <<"call", h>> <=> x[2] = h
                         \/ x[1] = "token" /\ x[2] \in Owners /\ x # <<"call", h>>
  BY DEF Holders
<1>2. \A g \in HostCalls : host'[g] = IF g = h THEN c ELSE host[g]
  BY Zenon DEF BridgeTyped
<1>3. \A x \in Holders : Leases(r)'[x] = IF x = <<"call", h>> THEN CallSlots(r, c)
                                         ELSE Leases(r)[x]
  BY <1>1, <1>2 DEF Leases, CallSlots, TokenSlots
<1> QED
  BY <1>3, ZenonT(60) DEF Leases

\* The same of a device.
LEMMA TokenLeases ==
    ASSUME BridgeTyped, NEW o \in Owners, NEW d,
           device' = [device EXCEPT ![o] = d], host' = host, NEW r
    PROVE  Leases(r)' = [Leases(r) EXCEPT ![<<"token", o>>] = TokenSlots(r, d)]
<1>1. \A x \in Holders : \/ /\ x[1] = "token" /\ x[2] \in Owners
                            /\ x = <<"token", o>> <=> x[2] = o
                         \/ x[1] = "call" /\ x[2] \in HostCalls /\ x # <<"token", o>>
  BY DEF Holders
<1>2. \A p \in Owners : device'[p] = IF p = o THEN d ELSE device[p]
  BY Zenon DEF BridgeTyped
<1>3. \A x \in Holders : Leases(r)'[x] = IF x = <<"token", o>> THEN TokenSlots(r, d)
                                         ELSE Leases(r)[x]
  BY <1>1, <1>2 DEF Leases, CallSlots, TokenSlots
<1> QED
  BY <1>3, Zenon DEF Leases

\* What changes in the buffers of one lease alone is not seen in the queue nor under any
\* other lease.
LEMMA Untouched ==
    ASSUME BridgeTyped, NEW r \in Rings, NEW x \in Holders,
           Owned(free[r], queued[r], Leases(r)),
           \A s \in Slots : s \notin Leases(r)[x] => filled'[r][s] = filled[r][s]
    PROVE  /\ \A i \in DOMAIN queued[r] : filled'[r][queued[r][i]] = filled[r][queued[r][i]]
           /\ \A y \in Holders \ {x} : \A s \in Leases(r)[y] : filled'[r][s] = filled[r][s]
<1>1. \A i \in DOMAIN queued[r] : queued[r][i] \in Slots
  BY DEF BridgeTyped
<1>2. \A y \in Holders : Leases(r)[y] \subseteq Slots
  BY LeasesAre, Zenon DEF Leased
<1> QED
  BY <1>1, <1>2, Zenon DEF Owned

\* One move of the buffers of a ring, into or out of the lease of x, or none.
Moves(r, x) ==
    \/ /\ free'[r] = free[r] /\ queued'[r] = queued[r] /\ Leases(r)' = Leases(r)
    \/ /\ Leases(r)[x] = {} /\ queued'[r] = queued[r]
       /\ \E s \in free[r] : /\ free'[r] = free[r] \ {s}
                             /\ Leases(r)' = [Leases(r) EXCEPT ![x] = {s}]
    \/ /\ queued'[r] = queued[r] /\ free'[r] = free[r] \cup Leases(r)[x]
       /\ Leases(r)' = [Leases(r) EXCEPT ![x] = {}]
    \/ /\ free'[r] = free[r] /\ Leases(r)' = [Leases(r) EXCEPT ![x] = {}]
       /\ \E s \in Slots : Leases(r)[x] = {s} /\ queued'[r] = Append(queued[r], s)
    \/ /\ Leases(r)[x] = {} /\ queued[r] # <<>>
       /\ free'[r] = free[r] /\ queued'[r] = Tail(queued[r])
       /\ Leases(r)' = [Leases(r) EXCEPT ![x] = {Head(queued[r])}]

\* Whatever the move, the buffers stay divided.
LEMMA MovesOwned ==
    ASSUME BridgeTyped, NEW r \in Rings, NEW x \in Holders, Moves(r, x),
           Owned(free[r], queued[r], Leases(r))
    PROVE  Owned(free[r], queued[r], Leases(r))'
<1>1. free[r] \in SUBSET Slots /\ queued[r] \in Seq(Slots) /\ Leases(r) \in Leased
  BY LeasesAre, Zenon DEF BridgeTyped
<1> SUFFICES Owned(free'[r], queued'[r], Leases(r)')
  BY Zenon DEF Owned
<1>2. CASE free'[r] = free[r] /\ queued'[r] = queued[r] /\ Leases(r)' = Leases(r)
  BY <1>2, Zenon
<1>3. CASE /\ Leases(r)[x] = {} /\ queued'[r] = queued[r]
           /\ \E s \in free[r] : /\ free'[r] = free[r] \ {s}
                                 /\ Leases(r)' = [Leases(r) EXCEPT ![x] = {s}]
  BY <1>1, <1>3, LeaseOwned, Zenon
<1>4. CASE /\ queued'[r] = queued[r] /\ free'[r] = free[r] \cup Leases(r)[x]
           /\ Leases(r)' = [Leases(r) EXCEPT ![x] = {}]
  BY <1>1, <1>4, RecycleOwned, Zenon
<1>5. CASE /\ free'[r] = free[r] /\ Leases(r)' = [Leases(r) EXCEPT ![x] = {}]
           /\ \E s \in Slots : Leases(r)[x] = {s} /\ queued'[r] = Append(queued[r], s)
  BY <1>1, <1>5, EnqueueOwned, Zenon
<1>6. CASE /\ Leases(r)[x] = {} /\ queued[r] # <<>>
           /\ free'[r] = free[r] /\ queued'[r] = Tail(queued[r])
           /\ Leases(r)' = [Leases(r) EXCEPT ![x] = {Head(queued[r])}]
  BY <1>1, <1>6, DequeueOwned, Zenon
<1> QED
  BY <1>2, <1>3, <1>4, <1>5, <1>6, Zenon DEF Moves

\* What a call holds.
LEMMA CallsAre ==
    ASSUME BridgeTyped, NEW h \in HostCalls
    PROVE  /\ host[h].at = "idle" => host[h] = NoCall
           /\ host[h].at # "idle" => host[h] \in Call
           /\ CallSlots("ingress", NoCall) = {} /\ CallSlots("egress", NoCall) = {}
           /\ CallSlots("ingress", host[h]) =
                IF host[h].at \in {"fill", "queue"} THEN host[h].slots ELSE {}
           /\ CallSlots("egress", host[h]) =
                IF host[h].at = "copy" THEN host[h].slots ELSE {}
<1>1. host[h] \in {NoCall} \cup Call
  BY Zenon DEF BridgeTyped
<1>2. \A c : /\ CallSlots("ingress", c) = IF c.at \in {"fill", "queue"} THEN c.slots ELSE {}
             /\ CallSlots("egress", c) = IF c.at \in {"fill", "queue"} THEN {} ELSE c.slots
  BY Zenon DEF CallSlots
<1>3. CASE host[h] = NoCall
  BY <1>2, <1>3 DEF NoCall
<1>4. CASE host[h] \in Call
  <2>1. host[h].at \in {"fill", "queue", "copy"}
    BY <1>4, Zenon DEF Call
  <2> QED
    BY <1>2, <1>4, <2>1, Zenon DEF NoCall
<1> QED
  BY <1>1, <1>3, <1>4, Zenon

\* The leases across a step of one call: its own changes, or none does.
LEMMA CallMoves ==
    ASSUME BridgeTyped, NEW h \in HostCalls, NEW c,
           host' = [host EXCEPT ![h] = c], device' = device
    PROVE  /\ <<"call", h>> \in Holders
           /\ \A r \in Rings :
                /\ Leases(r)[<<"call", h>>] = CallSlots(r, host[h])
                /\ Leases(r)' = [Leases(r) EXCEPT ![<<"call", h>>] = CallSlots(r, c)]
                /\ CallSlots(r, c) = CallSlots(r, host[h]) => Leases(r)' = Leases(r)
<1>1. ASSUME NEW r \in Rings
      PROVE  /\ <<"call", h>> \in Holders /\ Leases(r) \in Leased
             /\ Leases(r)[<<"call", h>>] = CallSlots(r, host[h])
             /\ Leases(r)' = [Leases(r) EXCEPT ![<<"call", h>>] = CallSlots(r, c)]
  BY LeasesAre, CallLeases, Zenon
<1>2. <<"call", h>> \in Holders
  BY LeasesAre, Zenon
<1> QED
  BY <1>1, <1>2, SameLeases

\* The same of a device.
LEMMA TokenMoves ==
    ASSUME BridgeTyped, NEW o \in Owners, NEW d,
           device' = [device EXCEPT ![o] = d], host' = host
    PROVE  /\ <<"token", o>> \in Holders
           /\ \A r \in Rings :
                /\ Leases(r)[<<"token", o>>] = TokenSlots(r, device[o])
                /\ Leases(r)' = [Leases(r) EXCEPT ![<<"token", o>>] = TokenSlots(r, d)]
                /\ TokenSlots(r, d) = TokenSlots(r, device[o]) => Leases(r)' = Leases(r)
<1>1. ASSUME NEW r \in Rings
      PROVE  /\ <<"token", o>> \in Holders /\ Leases(r) \in Leased
             /\ Leases(r)[<<"token", o>>] = TokenSlots(r, device[o])
             /\ Leases(r)' = [Leases(r) EXCEPT ![<<"token", o>>] = TokenSlots(r, d)]
  BY LeasesAre, TokenLeases, Zenon
<1>2. <<"token", o>> \in Holders
  BY LeasesAre, Zenon
<1> QED
  BY <1>1, <1>2, SameLeases
-----------------------------------------------------------------------------
(* The packets of a queue, of the calls that copy one out and of the       *)
(* devices that read one.                                                  *)
QueueIntact(r) ==
    /\ Len(due[r]) = Len(queued[r])
    /\ \A i \in DOMAIN queued[r] : filled[r][queued[r][i]] = due[r][i]
CallIntact(h) ==
    \A slot \in Slots :
        /\ host[h].at = "copy" /\ slot \in host[h].slots => filled["egress"][slot] = host[h].packet
        /\ host[h].at = "queue" /\ slot \in host[h].slots => filled["ingress"][slot] = host[h].packet
TokenIntact(o) ==
    \A slot \in Slots : slot \in device[o].rx => filled["ingress"][slot] = device[o].packet

\* Intact and Copied, part by part.
LEMMA IntactIs ==
    Intact /\ Copied <=> /\ \A r \in Rings : QueueIntact(r)
                         /\ \A h \in HostCalls : CallIntact(h)
                         /\ \A o \in Owners : TokenIntact(o)
  BY Zenon DEF Intact, Copied, QueueIntact, CallIntact, TokenIntact

\* No buffer of a queued packet is written.
Spared(r) == \A i \in DOMAIN queued[r] : filled'[r][queued[r][i]] = filled[r][queued[r][i]]

\* A queue that a step leaves alone.
LEMMA QueueStays ==
    ASSUME NEW r \in Rings, QueueIntact(r), Spared(r),
           queued'[r] = queued[r], due'[r] = due[r]
    PROVE  QueueIntact(r)'
  BY Zenon DEF QueueIntact, Spared

\* One that a step appends a packet to, once it is in its buffer (consume).
LEMMA QueueGrows ==
    ASSUME BridgeTyped, NEW r \in Rings, QueueIntact(r), Spared(r), NEW s \in Slots, NEW p \in Nat,
           filled'[r][s] = p, queued'[r] = Append(queued[r], s), due'[r] = Append(due[r], p)
    PROVE  QueueIntact(r)'
<1>1. queued[r] \in Seq(Slots) /\ due[r] \in Seq(Nat) /\ Len(due[r]) = Len(queued[r])
  BY Zenon DEF BridgeTyped, QueueIntact
<1> DEFINE n == Len(queued[r])
<1>2. /\ n \in Nat /\ DOMAIN queued[r] = 1 .. n /\ DOMAIN queued'[r] = 1 .. n + 1
      /\ Len(due'[r]) = Len(queued'[r])
      /\ queued'[r][n + 1] = s /\ due'[r][n + 1] = p
      /\ \A i \in 1 .. n : queued'[r][i] = queued[r][i] /\ due'[r][i] = due[r][i]
  BY <1>1
<1>3. ASSUME NEW i \in 1 .. n + 1 PROVE filled'[r][queued'[r][i]] = due'[r][i]
  <2>1. CASE i \in 1 .. n
    BY <1>2, <2>1, SMTT(30) DEF QueueIntact, Spared
  <2>2. CASE i = n + 1
    BY <1>2, <2>2, Zenon
  <2> QED
    BY <1>2, <2>1, <2>2
<1> QED
  BY <1>2, <1>3, Zenon DEF QueueIntact

\* One that a step takes the head of: what is read is what was put in (pop_front).
LEMMA QueueShrinks ==
    ASSUME BridgeTyped, NEW r \in Rings, QueueIntact(r), Spared(r), queued[r] # <<>>,
           queued'[r] = Tail(queued[r]), due'[r] = Tail(due[r])
    PROVE  /\ QueueIntact(r)' /\ Head(queued[r]) \in Slots /\ Head(due[r]) \in Nat
           /\ filled'[r][Head(queued[r])] = Head(due[r])
           /\ filled[r][Head(queued[r])] = Head(due[r])
<1>1. queued[r] \in Seq(Slots) /\ due[r] \in Seq(Nat) /\ Len(due[r]) = Len(queued[r])
  BY Zenon DEF BridgeTyped, QueueIntact
<1> DEFINE n == Len(queued[r])
<1>2. /\ n \in Nat /\ n > 0 /\ DOMAIN queued[r] = 1 .. n /\ DOMAIN queued'[r] = 1 .. n - 1
      /\ Len(due'[r]) = Len(queued'[r])
      /\ Head(queued[r]) = queued[r][1] /\ Head(due[r]) = due[r][1]
      /\ \A i \in 1 .. n - 1 : queued'[r][i] = queued[r][i + 1] /\ due'[r][i] = due[r][i + 1]
  BY <1>1
<1>3. /\ 1 \in DOMAIN queued[r] /\ queued[r][1] \in Slots /\ due[r][1] \in Nat
      /\ \A i \in 1 .. n - 1 : i + 1 \in DOMAIN queued[r]
  BY <1>1, <1>2
<1>4. \A i \in 1 .. n - 1 : filled'[r][queued'[r][i]] = due'[r][i]
  <2> TAKE i \in 1 .. n - 1
  <2>1. filled'[r][queued[r][i + 1]] = due[r][i + 1]
    BY <1>3, Zenon DEF QueueIntact, Spared
  <2> QED
    BY <1>2, <2>1, Zenon
<1> QED
  BY <1>2, <1>3, <1>4, Zenon DEF QueueIntact, Spared
-----------------------------------------------------------------------------
\* The initial state satisfies it.
LEMMA InitBridge == BridgeInit => BridgeInv
<1> SUFFICES ASSUME BridgeInit PROVE BridgeInv
  BY Zenon
<1> USE DEF BridgeInit, RingInit
<1>1. BridgeTyped
  <2>1. NoDevice \in Device
    BY DEF NoDevice, Device
  <2>2. /\ filled \in [Rings -> [Slots -> Nat]] /\ free \in [Rings -> SUBSET Slots]
        /\ due \in [Rings -> Seq(Nat)] /\ queued \in [Rings -> Seq(Slots)]
    OBVIOUS
  <2>3. device \in [Owners -> Device] /\ host \in [HostCalls -> {NoCall} \cup Call]
    BY <2>1, Zenon
  <2> QED
    BY <2>2, <2>3, Zenon DEF BridgeTyped
<1>2. Shape /\ OneDevice /\ Copied
  BY Zenon DEF Shape, OneDevice, Copied, NoCall, NoDevice
<1>3. Intact
  BY DEF Intact, NoCall, NoDevice
<1>4. ASSUME NEW r \in Rings PROVE Owned(free[r], queued[r], Leases(r))
  <2>1. \A x \in Holders : Leases(r)[x] = {}
    BY Zenon DEF Holders, Leases, CallSlots, TokenSlots, NoCall, NoDevice
  <2> QED
    BY <2>1 DEF Owned
<1> QED
  BY <1>1, <1>2, <1>3, <1>4, Zenon DEF BridgeInv

\* What a step of one call must keep.
LEMMA CallKeeps ==
    ASSUME BridgeInv, NEW h \in HostCalls, NEW c, host' = [host EXCEPT ![h] = c],
           UNCHANGED <<device, smoltcp_owner>>, BridgeTyped', \A r \in Rings : Moves(r, <<"call", h>>),
           c.at # "idle" => \E s \in Slots : c.slots = {s},
           \A r \in Rings : QueueIntact(r)', CallIntact(h)',
           \A r \in Rings, s \in Slots : s \notin Leases(r)[<<"call", h>>] => filled'[r][s] = filled[r][s]
    PROVE  BridgeInv'
<1>0. BridgeTyped /\ <<"call", h>> \in Holders /\ Intact /\ Copied
  BY LeasesAre, Zenon DEF BridgeInv
<1>1. \A g \in HostCalls : host'[g] = IF g = h THEN c ELSE host[g]
  BY <1>0, Zenon DEF BridgeTyped
<1>2. Shape' /\ OneDevice'
  BY <1>1 DEF BridgeInv, Shape, OneDevice
<1>3. \A r \in Rings : Owned(free[r], queued[r], Leases(r))'
  BY <1>0, MovesOwned, Zenon DEF BridgeInv
<1>4. \A r \in Rings, y \in Holders \ {<<"call", h>>} :
        \A s \in Leases(r)[y] : filled'[r][s] = filled[r][s]
  BY <1>0, Untouched, Zenon DEF BridgeInv
<1>5. ASSUME NEW g \in HostCalls, g # h PROVE CallIntact(g)'
  <2>1. <<"call", g>> \in Holders \ {<<"call", h>>} /\ "ingress" \in Rings /\ "egress" \in Rings
    BY <1>5, Zenon DEF Holders, Rings
  <2>2. /\ host[g].at = "copy" => Leases("egress")[<<"call", g>>] = host[g].slots
        /\ host[g].at = "queue" => Leases("ingress")[<<"call", g>>] = host[g].slots
    BY <1>0, LeasesAre, CallsAre
  <2>3. CallIntact(g) /\ host'[g] = host[g]
    BY <1>0, <1>1, <1>5, IntactIs, Zenon
  <2> QED
    BY <1>4, <2>1, <2>2, <2>3 DEF CallIntact
<1>6. ASSUME NEW o \in Owners PROVE TokenIntact(o)'
  <2>1. <<"token", o>> \in Holders \ {<<"call", h>>} /\ "ingress" \in Rings
    BY Zenon DEF Holders, Rings
  <2>2. Leases("ingress")[<<"token", o>>] = device[o].rx
    BY <1>0, LeasesAre, Zenon DEF TokenSlots
  <2>3. TokenIntact(o)
    BY <1>0, IntactIs, Zenon
  <2> QED
    BY <1>4, <2>1, <2>2, <2>3 DEF TokenIntact
<1>7. Intact' /\ Copied'
  <2>1. \A g \in HostCalls : CallIntact(g)'
    BY <1>5, Zenon
  <2> QED
    BY <1>6, <2>1, IntactIs DEF Intact, Copied, QueueIntact, CallIntact, TokenIntact
<1> QED
  BY <1>2, <1>3, <1>7, Zenon DEF BridgeInv

\* The queues and the parts that a step leaves alone.
LEMMA QueuesStay ==
    ASSUME BridgeInv, NEW x \in Holders, UNCHANGED <<queued, due>>,
           \A r \in Rings, s \in Slots : s \notin Leases(r)[x] => filled'[r][s] = filled[r][s]
    PROVE  \A r \in Rings : QueueIntact(r)'
<1> TAKE r \in Rings
<1>1. BridgeTyped /\ QueueIntact(r) /\ Owned(free[r], queued[r], Leases(r))
  BY IntactIs, Zenon DEF BridgeInv
<1>2. Spared(r)
  BY <1>1, Untouched, Zenon DEF Spared
<1> QED
  BY <1>1, <1>2, QueueStays, Zenon

\* ingress_ip_borrowed takes a buffer.
LEMMA IngressLeaseStep ==
    ASSUME BridgeInv, NEW h \in HostCalls, NEW length \in Lengths, IngressLease(h, length)
    PROVE  BridgeInv'
<1>0. BridgeTyped
  BY Zenon DEF BridgeInv
<1> DEFINE Filling(s) == [at |-> "fill", slots |-> {s}, packet |-> length]
           x == <<"call", h>>
<1>1. PICK slot \in Slots :
        /\ slot \in free["ingress"] /\ free' = [free EXCEPT !["ingress"] = @ \ {slot}]
        /\ host' = [host EXCEPT ![h] = Filling(slot)]
  BY Zenon DEF IngressLease, Lease
<1> DEFINE c == Filling(slot)
<1>2. /\ host[h].at = "idle" /\ UNCHANGED <<queued, filled, due, smoltcp_owner, device>>
  BY Zenon DEF IngressLease
<1>3. /\ CallSlots("ingress", c) = {slot} /\ CallSlots("egress", c) = {} /\ c \in Call
      /\ c.at = "fill" /\ c.slots = {slot} /\ host' = [host EXCEPT ![h] = c]
  BY <1>1, BridgeAssumption, Zenon DEF CallSlots, Call
<1>4. BridgeTyped'
  BY <1>0, <1>1, <1>2, <1>3, Zenon DEF BridgeTyped
<1> HIDE DEF c
<1>5. x \in Holders /\ Moves("ingress", x) /\ Moves("egress", x)
  <2>1. CallSlots("ingress", host[h]) = {} /\ CallSlots("egress", host[h]) = {}
    BY <1>0, <1>2, CallsAre, Zenon
  <2>2. x \in Holders /\ \A r \in Rings :
           /\ Leases(r)[x] = CallSlots(r, host[h])
           /\ Leases(r)' = [Leases(r) EXCEPT ![x] = CallSlots(r, c)]
           /\ CallSlots(r, c) = CallSlots(r, host[h]) => Leases(r)' = Leases(r)
    BY <1>0, <1>2, <1>3, CallMoves, Zenon
  <2>3. /\ Leases("egress")' = Leases("egress") /\ Leases("ingress")[x] = {}
        /\ Leases("ingress")' = [Leases("ingress") EXCEPT ![x] = {slot}]
    BY <1>3, <2>1, <2>2, Zenon DEF Rings
  <2> QED
    BY <1>0, <1>1, <1>2, <2>2, <2>3, Zenon DEF Moves, BridgeTyped, Rings
<1>6. \A r \in Rings : QueueIntact(r)'
  BY <1>2, <1>5, QueuesStay, Zenon
<1>7. CallIntact(h)'
  BY <1>0, <1>3, Zenon DEF CallIntact, BridgeTyped
<1> QED
  BY <1>2, <1>3, <1>4, <1>5, <1>6, <1>7, CallKeeps, Zenon DEF Rings

\* It copies the packet into the buffer.
LEMMA IngressFillStep ==
    ASSUME BridgeInv, NEW h \in HostCalls, IngressFill(h)
    PROVE  BridgeInv'
<1>0. BridgeTyped
  BY Zenon DEF BridgeInv
<1>1. PICK slot \in Slots : host[h].slots = {slot}
  BY Zenon DEF IngressFill, BridgeInv, Shape
<1> DEFINE c == [host[h] EXCEPT !.at = "queue"]
           x == <<"call", h>>
<1>2. /\ host[h].at = "fill" /\ UNCHANGED <<free, queued, due, smoltcp_owner, device>>
      /\ host' = [host EXCEPT ![h] = c]
      /\ filled' = [filled EXCEPT !["ingress"][slot] = host[h].packet]
  BY <1>1, Zenon DEF IngressFill, Fill
<1>3. /\ host[h] \in Call /\ c \in Call /\ c.slots = {slot} /\ c.packet = host[h].packet
      /\ c.at = "queue" /\ host[h].packet \in Nat
      /\ CallSlots("ingress", c) = {slot} /\ CallSlots("egress", c) = {}
      /\ CallSlots("ingress", host[h]) = {slot} /\ CallSlots("egress", host[h]) = {}
  <2>1. host[h] \in Call
    BY <1>0, <1>2, CallsAre, Zenon
  <2> QED
    BY <1>1, <1>2, <2>1, Zenon DEF Call, CallSlots
<1> HIDE DEF c
<1>4. BridgeTyped'
  BY <1>0, <1>2, <1>3, Zenon DEF BridgeTyped
<1>5. x \in Holders /\ Moves("ingress", x) /\ Moves("egress", x) /\ Leases("ingress")[x] = {slot}
  <2>1. x \in Holders /\ \A r \in Rings :
           /\ Leases(r)[x] = CallSlots(r, host[h])
           /\ Leases(r)' = [Leases(r) EXCEPT ![x] = CallSlots(r, c)]
           /\ CallSlots(r, c) = CallSlots(r, host[h]) => Leases(r)' = Leases(r)
    <3>1. device' = device /\ host' = [host EXCEPT ![h] = c]
      BY <1>2, Zenon
    <3> QED
      BY <1>0, <3>1, CallMoves, Zenon
  <2>2. /\ Leases("egress")' = Leases("egress") /\ Leases("ingress")' = Leases("ingress")
        /\ Leases("ingress")[x] = {slot}
    BY <1>3, <2>1, Zenon DEF Rings
  <2> QED
    BY <1>2, <2>1, <2>2, Zenon DEF Moves
<1>6. \A r \in Rings, s \in Slots : s \notin Leases(r)[x] => filled'[r][s] = filled[r][s]
  BY <1>0, <1>2, <1>5, Zenon DEF BridgeTyped, Rings
<1>7. \A r \in Rings : QueueIntact(r)'
  BY <1>2, <1>5, <1>6, QueuesStay, Zenon
<1>8. CallIntact(h)'
  BY <1>0, <1>2, <1>3, Zenon DEF CallIntact, BridgeTyped, Rings
<1> QED
  BY <1>2, <1>3, <1>4, <1>5, <1>6, <1>7, <1>8, CallKeeps, Zenon DEF Rings

\* The buffer joins the queue.
LEMMA IngressQueueStep ==
    ASSUME BridgeInv, NEW h \in HostCalls, IngressQueue(h)
    PROVE  BridgeInv'
<1>0. BridgeTyped
  BY Zenon DEF BridgeInv
<1>1. PICK slot \in Slots : host[h].slots = {slot}
  BY Zenon DEF IngressQueue, BridgeInv, Shape
<1> DEFINE c == NoCall
           x == <<"call", h>>
           packet == host[h].packet
<1>2. /\ host[h].at = "queue" /\ UNCHANGED <<free, filled, smoltcp_owner, device>>
      /\ host' = [host EXCEPT ![h] = c]
      /\ queued' = [queued EXCEPT !["ingress"] = Append(@, slot)]
      /\ due' = [due EXCEPT !["ingress"] = Append(@, packet)]
  BY <1>1, Zenon DEF IngressQueue, Enqueue
<1>3. /\ packet \in Nat /\ filled["ingress"][slot] = packet
      /\ c.at = "idle" /\ c.slots = {}
      /\ CallSlots("ingress", c) = {} /\ CallSlots("egress", c) = {}
      /\ CallSlots("ingress", host[h]) = {slot} /\ CallSlots("egress", host[h]) = {}
  <2>1. host[h] \in Call
    BY <1>0, <1>2, CallsAre, Zenon
  <2> QED
    BY <1>1, <1>2, <2>1, Zenon DEF Call, CallSlots, NoCall, BridgeInv, Copied
<1>4. BridgeTyped'
  <2>1. c \in {NoCall} \cup Call
    BY Zenon
  <2>2. /\ queued["ingress"] \in Seq(Slots) /\ due["ingress"] \in Seq(Nat)
    BY <1>0, Zenon DEF BridgeTyped, Rings
  <2>3. /\ Append(queued["ingress"], slot) \in Seq(Slots) /\ Append(due["ingress"], packet) \in Seq(Nat)
    BY <1>3, <2>2
  <2> HIDE DEF c, packet
  <2> QED
    BY <1>0, <1>2, <2>1, <2>3, Zenon DEF BridgeTyped
<1> HIDE DEF c, packet
<1>5. x \in Holders /\ Moves("ingress", x) /\ Moves("egress", x)
  <2>1. x \in Holders /\ \A r \in Rings :
           /\ Leases(r)[x] = CallSlots(r, host[h])
           /\ Leases(r)' = [Leases(r) EXCEPT ![x] = CallSlots(r, c)]
           /\ CallSlots(r, c) = CallSlots(r, host[h]) => Leases(r)' = Leases(r)
    <3>1. device' = device /\ host' = [host EXCEPT ![h] = c]
      BY <1>2, Zenon
    <3> QED
      BY <1>0, <3>1, CallMoves, Zenon
  <2>2. /\ Leases("egress")' = Leases("egress") /\ Leases("ingress")[x] = {slot}
        /\ Leases("ingress")' = [Leases("ingress") EXCEPT ![x] = {}]
    BY <1>3, <2>1, Zenon DEF Rings
  <2> QED
    BY <1>0, <1>2, <2>1, <2>2, Zenon DEF Moves, BridgeTyped, Rings
<1>6. \A r \in Rings : QueueIntact(r)'
  <2> TAKE r \in Rings
  <2>1. QueueIntact(r) /\ Spared(r)
    BY <1>2, IntactIs, Zenon DEF BridgeInv, Spared
  <2>2. CASE r = "egress"
    BY <1>0, <1>2, <2>1, <2>2, QueueStays, Zenon DEF BridgeTyped
  <2>3. CASE r = "ingress"
    <3>1. /\ queued'[r] = Append(queued[r], slot) /\ due'[r] = Append(due[r], packet)
          /\ filled'[r][slot] = packet
      BY <1>0, <1>2, <1>3, <2>3, Zenon DEF BridgeTyped
    <3> QED
      BY <1>0, <1>3, <2>1, <3>1, QueueGrows, Zenon
  <2> QED
    BY <2>2, <2>3, Zenon DEF Rings
<1>7. CallIntact(h)'
  BY <1>0, <1>2, <1>3, Zenon DEF CallIntact, BridgeTyped
<1> QED
  BY <1>2, <1>3, <1>4, <1>5, <1>6, <1>7, CallKeeps, Zenon DEF Rings

\* poll_egress_ip_into takes the oldest packet.
LEMMA EgressPopStep ==
    ASSUME BridgeInv, NEW h \in HostCalls, NEW size \in OutputSizes, EgressPop(h, size)
    PROVE  BridgeInv'
<1>0. BridgeTyped
  BY Zenon DEF BridgeInv
<1> DEFINE slot == Head(queued["egress"])
           packet == Head(due["egress"])
           c == [at |-> "copy", slots |-> {slot}, packet |-> packet]
           x == <<"call", h>>
<1>2. /\ host[h].at = "idle" /\ UNCHANGED <<free, filled, smoltcp_owner, device>>
      /\ host' = [host EXCEPT ![h] = c]
      /\ queued["egress"] # <<>>
      /\ queued' = [queued EXCEPT !["egress"] = Tail(@)]
      /\ due' = [due EXCEPT !["egress"] = Tail(@)]
  BY Zenon DEF EgressPop, Dequeue
<1>3. /\ slot \in Slots /\ packet \in Nat /\ filled["egress"][slot] = packet
      /\ QueueIntact("egress")' /\ QueueIntact("ingress")'
  <2>1. /\ QueueIntact("egress") /\ Spared("egress") /\ QueueIntact("ingress") /\ Spared("ingress")
        /\ "egress" \in Rings /\ "ingress" \in Rings
    BY <1>2, IntactIs, Zenon DEF BridgeInv, Spared, Rings
  <2>2. /\ queued'["egress"] = Tail(queued["egress"]) /\ due'["egress"] = Tail(due["egress"])
        /\ queued'["ingress"] = queued["ingress"] /\ due'["ingress"] = due["ingress"]
    BY <1>0, <1>2, Zenon DEF BridgeTyped, Rings
  <2>3. QueueIntact("ingress")'
    BY <2>1, <2>2, QueueStays, Zenon
  <2> QED
    BY <1>0, <1>2, <2>1, <2>2, <2>3, QueueShrinks, Zenon
<1>4. Tail(queued["egress"]) \in Seq(Slots) /\ Tail(due["egress"]) \in Seq(Nat)
  <2>1. /\ queued["egress"] \in Seq(Slots) /\ due["egress"] \in Seq(Nat)
        /\ Len(due["egress"]) = Len(queued["egress"])
    BY <1>0, Zenon DEF BridgeTyped, Rings, BridgeInv, Intact
  <2> QED
    BY <1>2, <2>1
<1> HIDE DEF slot, packet
<1>5. /\ CallSlots("ingress", c) = {} /\ CallSlots("egress", c) = {slot} /\ c \in Call
      /\ c.at = "copy" /\ c.slots = {slot} /\ c.packet = packet
      /\ CallSlots("ingress", host[h]) = {} /\ CallSlots("egress", host[h]) = {}
  BY <1>0, <1>2, <1>3, CallsAre, Zenon DEF CallSlots, Call
<1> HIDE DEF c
<1>6. BridgeTyped'
  BY <1>0, <1>2, <1>4, <1>5, Zenon DEF BridgeTyped
<1>7. x \in Holders /\ Moves("ingress", x) /\ Moves("egress", x)
  <2>1. x \in Holders /\ \A r \in Rings :
           /\ Leases(r)[x] = CallSlots(r, host[h])
           /\ Leases(r)' = [Leases(r) EXCEPT ![x] = CallSlots(r, c)]
           /\ CallSlots(r, c) = CallSlots(r, host[h]) => Leases(r)' = Leases(r)
    <3>1. device' = device /\ host' = [host EXCEPT ![h] = c]
      BY <1>2, Zenon
    <3> QED
      BY <1>0, <3>1, CallMoves, Zenon
  <2>2. /\ Leases("ingress")' = Leases("ingress") /\ Leases("egress")[x] = {}
        /\ Leases("egress")' = [Leases("egress") EXCEPT ![x] = {slot}]
    BY <1>5, <2>1, Zenon DEF Rings
  <2> QED
    BY <1>0, <1>2, <2>1, <2>2, Zenon DEF Moves, BridgeTyped, Rings, slot
<1>8. CallIntact(h)'
  BY <1>0, <1>2, <1>3, <1>5, Zenon DEF CallIntact, BridgeTyped
<1> QED
  BY <1>2, <1>3, <1>5, <1>6, <1>7, <1>8, CallKeeps, Zenon DEF Rings

\* It gives the buffer back.
LEMMA EgressRecycleStep ==
    ASSUME BridgeInv, NEW h \in HostCalls, EgressRecycle(h)
    PROVE  BridgeInv'
<1>0. BridgeTyped
  BY Zenon DEF BridgeInv
<1> DEFINE c == NoCall
           x == <<"call", h>>
           slots == host[h].slots
<1>2. /\ host[h].at = "copy" /\ UNCHANGED <<queued, due, smoltcp_owner, device>>
      /\ host' = [host EXCEPT ![h] = c]
      /\ free' = [free EXCEPT !["egress"] = @ \cup slots]
      /\ filled' = [filled EXCEPT !["egress"] = Cleared("egress", slots)]
  BY Zenon DEF EgressRecycle, Recycle
<1>3. /\ slots \in SUBSET Slots /\ c.at = "idle" /\ c.slots = {}
      /\ CallSlots("ingress", c) = {} /\ CallSlots("egress", c) = {}
      /\ CallSlots("ingress", host[h]) = {} /\ CallSlots("egress", host[h]) = slots
  <2>1. host[h] \in Call
    BY <1>0, <1>2, CallsAre, Zenon
  <2> QED
    BY <1>2, <2>1, Zenon DEF Call, CallSlots, NoCall
<1>4. /\ Cleared("egress", slots) \in [Slots -> Nat]
      /\ \A s \in Slots : s \notin slots => Cleared("egress", slots)[s] = filled["egress"][s]
  BY <1>0, Zenon DEF Cleared, BridgeTyped, Rings
<1>5. BridgeTyped'
  <2>1. c \in {NoCall} \cup Call
    BY Zenon
  <2> HIDE DEF c, slots
  <2> QED
    BY <1>0, <1>2, <1>3, <1>4, <2>1, Zenon DEF BridgeTyped
<1> HIDE DEF c, slots
<1>6. x \in Holders /\ Moves("ingress", x) /\ Moves("egress", x) /\ Leases("egress")[x] = slots
  <2>1. x \in Holders /\ \A r \in Rings :
           /\ Leases(r)[x] = CallSlots(r, host[h])
           /\ Leases(r)' = [Leases(r) EXCEPT ![x] = CallSlots(r, c)]
           /\ CallSlots(r, c) = CallSlots(r, host[h]) => Leases(r)' = Leases(r)
    <3>1. device' = device /\ host' = [host EXCEPT ![h] = c]
      BY <1>2, Zenon
    <3> QED
      BY <1>0, <3>1, CallMoves, Zenon
  <2>2. /\ Leases("ingress")' = Leases("ingress") /\ Leases("egress")[x] = slots
        /\ Leases("egress")' = [Leases("egress") EXCEPT ![x] = {}]
    BY <1>3, <2>1, Zenon DEF Rings
  <2> QED
    BY <1>0, <1>2, <2>1, <2>2, Zenon DEF Moves, BridgeTyped, Rings
<1>7. \A r \in Rings, s \in Slots : s \notin Leases(r)[x] => filled'[r][s] = filled[r][s]
  BY <1>0, <1>2, <1>4, <1>6, Zenon DEF BridgeTyped, Rings
<1>8. \A r \in Rings : QueueIntact(r)'
  BY <1>2, <1>6, <1>7, QueuesStay, Zenon
<1>9. CallIntact(h)'
  BY <1>0, <1>2, <1>3, Zenon DEF CallIntact, BridgeTyped
<1> QED
  BY <1>2, <1>3, <1>5, <1>6, <1>7, <1>8, <1>9, CallKeeps, Zenon DEF Rings

\* The steps of a host call.
LEMMA HostKeeps ==
    ASSUME BridgeInv, NEW h \in HostCalls, HostStep(h)
    PROVE  BridgeInv'
  BY IngressLeaseStep, IngressFillStep, IngressQueueStep, EgressPopStep,
     EgressRecycleStep, Zenon
     DEF HostStep
-----------------------------------------------------------------------------
DeviceShape(d) ==
    /\ IF d.at \in {"process", "processed"} THEN \E s \in Slots : d.rx = {s} ELSE d.rx = {}
    /\ IF d.at \in {"receive", "process", "transmit"} THEN \E s \in Slots : d.tx = {s}
       ELSE d.tx = {}

\* What a step of one device must keep.
LEMMA TokenKeeps ==
    ASSUME BridgeInv, NEW o \in Owners, NEW d \in Device, device' = [device EXCEPT ![o] = d],
           host' = host, BridgeTyped', OneDevice', DeviceShape(d),
           \A r \in Rings : Moves(r, <<"token", o>>),
           \A r \in Rings : QueueIntact(r)', TokenIntact(o)',
           \A r \in Rings, s \in Slots : s \notin Leases(r)[<<"token", o>>] => filled'[r][s] = filled[r][s]
    PROVE  BridgeInv'
<1>0. BridgeTyped /\ <<"token", o>> \in Holders /\ Intact /\ Copied
  BY LeasesAre, Zenon DEF BridgeInv
<1>1. \A p \in Owners : device'[p] = IF p = o THEN d ELSE device[p]
  BY <1>0, Zenon DEF BridgeTyped
<1>2. Shape'
  BY <1>1, SMTT(30) DEF BridgeInv, Shape, DeviceShape
<1>3. \A r \in Rings : Owned(free[r], queued[r], Leases(r))'
  BY <1>0, MovesOwned, Zenon DEF BridgeInv
<1>4. \A r \in Rings, y \in Holders \ {<<"token", o>>} :
        \A s \in Leases(r)[y] : filled'[r][s] = filled[r][s]
  BY <1>0, Untouched, Zenon DEF BridgeInv
<1>5. ASSUME NEW h \in HostCalls PROVE CallIntact(h)'
  <2>1. <<"call", h>> \in Holders \ {<<"token", o>>} /\ "ingress" \in Rings /\ "egress" \in Rings
    BY Zenon DEF Holders, Rings
  <2>2. /\ host[h].at = "copy" => Leases("egress")[<<"call", h>>] = host[h].slots
        /\ host[h].at = "queue" => Leases("ingress")[<<"call", h>>] = host[h].slots
    BY <1>0, LeasesAre, CallsAre
  <2>3. CallIntact(h)
    BY <1>0, IntactIs, Zenon
  <2> QED
    BY <1>4, <2>1, <2>2, <2>3 DEF CallIntact
<1>6. ASSUME NEW p \in Owners, p # o PROVE TokenIntact(p)'
  <2>1. <<"token", p>> \in Holders \ {<<"token", o>>} /\ "ingress" \in Rings
    BY <1>6, Zenon DEF Holders, Rings
  <2>2. Leases("ingress")[<<"token", p>>] = device[p].rx
    BY <1>0, LeasesAre, Zenon DEF TokenSlots
  <2>3. TokenIntact(p) /\ device'[p] = device[p]
    BY <1>0, <1>1, <1>6, IntactIs, Zenon
  <2> QED
    BY <1>4, <2>1, <2>2, <2>3 DEF TokenIntact
<1>7. Intact' /\ Copied'
  <2>1. \A p \in Owners : TokenIntact(p)'
    BY <1>6, Zenon
  <2> QED
    BY <1>5, <2>1, IntactIs, Zenon DEF Intact, Copied, QueueIntact, CallIntact, TokenIntact
<1> QED
  BY <1>2, <1>3, <1>7, Zenon DEF BridgeInv

\* A device that polls stays the only one.
LEMMA SameDevice ==
    ASSUME BridgeInv, NEW o \in Owners, NEW d, device' = [device EXCEPT ![o] = d],
           device[o].at # "none", smoltcp_owner' = smoltcp_owner
    PROVE  OneDevice'
<1>1. \A p \in Owners : device'[p] = IF p = o THEN d ELSE device[p]
  BY Zenon DEF BridgeInv, BridgeTyped
<1> QED
  BY <1>1 DEF BridgeInv, OneDevice

\* A step that moves no buffer.
LEMMA QuietKeeps ==
    ASSUME BridgeInv, NEW o \in Owners, NEW d \in Device, device' = [device EXCEPT ![o] = d],
           host' = host, UNCHANGED <<free, queued, filled, due>>, smoltcp_owner' \in BOOLEAN,
           OneDevice', DeviceShape(d), d.rx = {}, d.tx = {}, device[o].rx = {}, device[o].tx = {}
    PROVE  BridgeInv'
<1>0. BridgeTyped
  BY Zenon DEF BridgeInv
<1> DEFINE x == <<"token", o>>
<1>1. BridgeTyped'
  BY <1>0, Zenon DEF BridgeTyped
<1>2. x \in Holders /\ \A r \in Rings : Moves(r, x)
  <2>1. x \in Holders /\ \A r \in Rings :
           /\ Leases(r)[x] = TokenSlots(r, device[o])
           /\ Leases(r)' = [Leases(r) EXCEPT ![x] = TokenSlots(r, d)]
           /\ TokenSlots(r, d) = TokenSlots(r, device[o]) => Leases(r)' = Leases(r)
    BY <1>0, TokenMoves, Zenon
  <2>2. \A r \in Rings : TokenSlots(r, d) = {} /\ TokenSlots(r, device[o]) = {}
    BY Zenon DEF TokenSlots
  <2> QED
    BY <2>1, <2>2, Zenon DEF Moves
<1>3. \A r \in Rings : QueueIntact(r)'
  BY <1>2, QueuesStay, Zenon
<1>4. TokenIntact(o)'
  BY <1>0, Zenon DEF TokenIntact, BridgeTyped
<1> QED
  BY <1>1, <1>2, <1>3, <1>4, TokenKeeps, Zenon

\* A transmit token is leased.
LEMMA TokenLeased ==
    ASSUME BridgeInv, NEW o \in Owners, NEW d \in Device, device' = [device EXCEPT ![o] = d],
           host' = host, UNCHANGED <<queued, filled, due, smoltcp_owner>>, device[o].at # "none",
           DeviceShape(d), d.rx = {}, device[o].rx = {}, device[o].tx = {},
           NEW slot \in Slots, Lease("egress", slot), d.tx = {slot}
    PROVE  BridgeInv'
<1>0. BridgeTyped
  BY Zenon DEF BridgeInv
<1> DEFINE x == <<"token", o>>
<1>1. BridgeTyped'
  BY <1>0, Zenon DEF BridgeTyped, Lease
<1>2. x \in Holders /\ Moves("ingress", x) /\ Moves("egress", x)
  <2>1. x \in Holders /\ \A r \in Rings :
           /\ Leases(r)[x] = TokenSlots(r, device[o])
           /\ Leases(r)' = [Leases(r) EXCEPT ![x] = TokenSlots(r, d)]
           /\ TokenSlots(r, d) = TokenSlots(r, device[o]) => Leases(r)' = Leases(r)
    BY <1>0, TokenMoves, ZenonT(60)
  <2>2. /\ TokenSlots("ingress", d) = {} /\ TokenSlots("ingress", device[o]) = {}
        /\ TokenSlots("egress", d) = {slot} /\ TokenSlots("egress", device[o]) = {}
    BY Zenon DEF TokenSlots
  <2>3. /\ Leases("ingress")' = Leases("ingress") /\ Leases("egress")[x] = {}
        /\ Leases("egress")' = [Leases("egress") EXCEPT ![x] = {slot}]
    BY <2>1, <2>2, Zenon DEF Rings
  <2> QED
    BY <1>0, <2>1, <2>3, Zenon DEF Moves, BridgeTyped, Rings, Lease
<1>3. \A r \in Rings : QueueIntact(r)'
  BY <1>2, QueuesStay, Zenon
<1>4. TokenIntact(o)'
  BY <1>0, Zenon DEF TokenIntact, BridgeTyped
<1> QED
  BY <1>1, <1>2, <1>3, <1>4, SameDevice, TokenKeeps, Zenon DEF Rings

\* The buffers a device holds in one ring, or in both, go back.
LEMMA TokenRecycled ==
    ASSUME BridgeInv, NEW o \in Owners, NEW d \in Device, device' = [device EXCEPT ![o] = d],
           host' = host, UNCHANGED <<queued, due, smoltcp_owner>>, device[o].at # "none",
           DeviceShape(d), NEW rings \in SUBSET Rings,
           \A r \in Rings : TokenSlots(r, d) = IF r \in rings THEN {} ELSE TokenSlots(r, device[o]),
           d.rx # {} => d.packet = device[o].packet,
           free' = [r \in Rings |-> IF r \in rings THEN free[r] \cup TokenSlots(r, device[o]) ELSE free[r]],
           filled' = [r \in Rings |-> IF r \in rings THEN Cleared(r, TokenSlots(r, device[o]))
                                      ELSE filled[r]]
    PROVE  BridgeInv'
<1>0. BridgeTyped
  BY Zenon DEF BridgeInv
<1> DEFINE x == <<"token", o>>
<1>a. \A r \in Rings : TokenSlots(r, device[o]) \in SUBSET Slots
  BY <1>0, Zenon DEF BridgeTyped, TokenSlots, Device
<1>b. \A r \in Rings : /\ Cleared(r, TokenSlots(r, device[o])) \in [Slots -> Nat]
                       /\ \A s \in Slots : s \notin TokenSlots(r, device[o]) =>
                            Cleared(r, TokenSlots(r, device[o]))[s] = filled[r][s]
  BY <1>0, SMTT(30) DEF Cleared, BridgeTyped
<1>1. BridgeTyped'
  BY <1>0, <1>a, <1>b, Zenon DEF BridgeTyped
<1>2. x \in Holders /\ \A r \in Rings :
         /\ Leases(r)[x] = TokenSlots(r, device[o])
         /\ Leases(r)' = [Leases(r) EXCEPT ![x] = TokenSlots(r, d)]
         /\ TokenSlots(r, d) = TokenSlots(r, device[o]) => Leases(r)' = Leases(r)
  BY <1>0, TokenMoves, ZenonT(60)
<1>3. \A r \in Rings : Moves(r, x)
  BY <1>2, Zenon DEF Moves
<1>4. \A r \in Rings, s \in Slots : s \notin Leases(r)[x] => filled'[r][s] = filled[r][s]
  BY <1>b, <1>2, ZenonT(60)
<1>5. \A r \in Rings : QueueIntact(r)'
  BY <1>2, <1>4, QueuesStay, Zenon
<1>6. TokenIntact(o)'
  <2>1. device'[o] = d /\ TokenIntact(o) /\ "ingress" \in Rings
    BY <1>0, IntactIs, Zenon DEF BridgeTyped, BridgeInv, Rings
  <2>2. CASE "ingress" \in rings
    BY <2>1, <2>2, Zenon DEF TokenIntact, TokenSlots
  <2>3. CASE "ingress" \notin rings
    BY <2>1, <2>3, Zenon DEF TokenIntact, TokenSlots
  <2> QED
    BY <2>2, <2>3, Zenon
<1> QED
  BY <1>1, <1>2, <1>3, <1>4, <1>5, <1>6, SameDevice, TokenKeeps, Zenon

\* A packet is written into the buffer of a transmit token and queued.
LEMMA TokenConsumed ==
    ASSUME BridgeInv, NEW o \in Owners, NEW d \in Device, device' = [device EXCEPT ![o] = d],
           host' = host, UNCHANGED <<free, smoltcp_owner>>, device[o].at # "none",
           DeviceShape(d), d.rx = device[o].rx, d.rx # {} => d.packet = device[o].packet,
           NEW slot \in Slots, device[o].tx = {slot}, d.tx = {}, NEW length \in Nat,
           Fill("egress", slot, length), Enqueue("egress", slot, length)
    PROVE  BridgeInv'
<1>0. BridgeTyped
  BY Zenon DEF BridgeInv
<1> DEFINE x == <<"token", o>>
<1>1. /\ filled' = [filled EXCEPT !["egress"][slot] = length]
      /\ queued' = [queued EXCEPT !["egress"] = Append(@, slot)]
      /\ due' = [due EXCEPT !["egress"] = Append(@, length)]
  BY Zenon DEF Fill, Enqueue
<1>2. BridgeTyped'
  <2>1. queued["egress"] \in Seq(Slots) /\ due["egress"] \in Seq(Nat)
    BY <1>0, Zenon DEF BridgeTyped, Rings
  <2>2. Append(queued["egress"], slot) \in Seq(Slots) /\ Append(due["egress"], length) \in Seq(Nat)
    BY <2>1
  <2> QED
    BY <1>0, <1>1, <2>2, ZenonT(60) DEF BridgeTyped
<1>3. /\ x \in Holders /\ Moves("ingress", x) /\ Moves("egress", x)
      /\ Leases("egress")[x] = {slot}
  <2>1. x \in Holders /\ \A r \in Rings :
           /\ Leases(r)[x] = TokenSlots(r, device[o])
           /\ Leases(r)' = [Leases(r) EXCEPT ![x] = TokenSlots(r, d)]
           /\ TokenSlots(r, d) = TokenSlots(r, device[o]) => Leases(r)' = Leases(r)
    BY <1>0, TokenMoves, ZenonT(60)
  <2>2. /\ TokenSlots("ingress", d) = TokenSlots("ingress", device[o])
        /\ TokenSlots("egress", d) = {} /\ TokenSlots("egress", device[o]) = {slot}
    BY Zenon DEF TokenSlots
  <2>3. /\ Leases("ingress")' = Leases("ingress") /\ Leases("egress")[x] = {slot}
        /\ Leases("egress")' = [Leases("egress") EXCEPT ![x] = {}]
    BY <2>1, <2>2, Zenon DEF Rings
  <2> QED
    BY <1>0, <1>1, <2>1, <2>3, Zenon DEF Moves, BridgeTyped, Rings
<1>4. \A r \in Rings, s \in Slots : s \notin Leases(r)[x] => filled'[r][s] = filled[r][s]
  BY <1>0, <1>1, <1>3, Zenon DEF BridgeTyped, Rings
<1>5. \A r \in Rings : QueueIntact(r)'
  <2> TAKE r \in Rings
  <2>1. QueueIntact(r) /\ Spared(r)
    BY <1>0, <1>3, <1>4, IntactIs, Untouched, ZenonT(60) DEF BridgeInv, Spared
  <2>2. CASE r = "ingress"
    BY <1>0, <1>1, <2>1, <2>2, QueueStays, ZenonT(60) DEF BridgeTyped
  <2>3. CASE r = "egress"
    <3>1. /\ queued'[r] = Append(queued[r], slot) /\ due'[r] = Append(due[r], length)
          /\ filled'[r][slot] = length
      BY <1>0, <1>1, <2>3, ZenonT(60) DEF BridgeTyped
    <3> QED
      BY <1>0, <2>1, <3>1, QueueGrows, ZenonT(60)
  <2> QED
    BY <2>2, <2>3, Zenon DEF Rings
<1>6. TokenIntact(o)'
  <2>1. device'[o] = d /\ TokenIntact(o) /\ filled'["ingress"] = filled["ingress"]
    BY <1>0, <1>1, IntactIs, ZenonT(60) DEF BridgeTyped, BridgeInv, Rings
  <2> QED
    BY <2>1, ZenonT(60) DEF TokenIntact
<1> QED
  BY <1>2, <1>3, <1>4, <1>5, <1>6, SameDevice, TokenKeeps, ZenonT(60) DEF Rings

\* A packet is taken for the stack to read.
LEMMA TokenReads ==
    ASSUME BridgeInv, NEW o \in Owners, NEW d \in Device, device' = [device EXCEPT ![o] = d],
           host' = host, UNCHANGED <<free, filled, smoltcp_owner>>, device[o].at # "none",
           DeviceShape(d), Dequeue("ingress"), device[o].rx = {}, d.tx = device[o].tx,
           d.rx = {Head(queued["ingress"])}, d.packet = Head(due["ingress"])
    PROVE  BridgeInv'
<1>0. BridgeTyped
  BY Zenon DEF BridgeInv
<1> DEFINE x == <<"token", o>>
<1>1. /\ queued["ingress"] # <<>>
      /\ queued' = [queued EXCEPT !["ingress"] = Tail(@)]
      /\ due' = [due EXCEPT !["ingress"] = Tail(@)]
  BY Zenon DEF Dequeue
<1>2. /\ filled["ingress"][Head(queued["ingress"])] = Head(due["ingress"])
      /\ QueueIntact("egress")' /\ QueueIntact("ingress")'
  <2>1. /\ QueueIntact("egress") /\ Spared("egress") /\ QueueIntact("ingress") /\ Spared("ingress")
        /\ "egress" \in Rings /\ "ingress" \in Rings
    BY IntactIs, Zenon DEF BridgeInv, Spared, Rings
  <2>2. /\ queued'["ingress"] = Tail(queued["ingress"]) /\ due'["ingress"] = Tail(due["ingress"])
        /\ queued'["egress"] = queued["egress"] /\ due'["egress"] = due["egress"]
    BY <1>0, <1>1, Zenon DEF BridgeTyped, Rings
  <2>3. QueueIntact("egress")'
    BY <2>1, <2>2, QueueStays, Zenon
  <2> QED
    BY <1>0, <1>1, <2>1, <2>2, <2>3, QueueShrinks, Zenon
<1>3. BridgeTyped'
  <2>1. /\ queued["ingress"] \in Seq(Slots) /\ due["ingress"] \in Seq(Nat)
        /\ Len(due["ingress"]) = Len(queued["ingress"])
    BY <1>0, Zenon DEF BridgeTyped, Rings, BridgeInv, Intact
  <2>2. Tail(queued["ingress"]) \in Seq(Slots) /\ Tail(due["ingress"]) \in Seq(Nat)
    BY <1>1, <2>1
  <2> QED
    BY <1>0, <1>1, <2>2, ZenonT(60) DEF BridgeTyped
<1>4. x \in Holders /\ Moves("ingress", x) /\ Moves("egress", x)
  <2>1. x \in Holders /\ \A r \in Rings :
           /\ Leases(r)[x] = TokenSlots(r, device[o])
           /\ Leases(r)' = [Leases(r) EXCEPT ![x] = TokenSlots(r, d)]
           /\ TokenSlots(r, d) = TokenSlots(r, device[o]) => Leases(r)' = Leases(r)
    BY <1>0, TokenMoves, ZenonT(60)
  <2>2. /\ TokenSlots("egress", d) = TokenSlots("egress", device[o])
        /\ TokenSlots("ingress", d) = {Head(queued["ingress"])}
        /\ TokenSlots("ingress", device[o]) = {}
    BY Zenon DEF TokenSlots
  <2>3. /\ Leases("egress")' = Leases("egress") /\ Leases("ingress")[x] = {}
        /\ Leases("ingress")' = [Leases("ingress") EXCEPT ![x] = {Head(queued["ingress"])}]
    BY <2>1, <2>2, Zenon DEF Rings
  <2> QED
    BY <1>0, <1>1, <2>1, <2>3, Zenon DEF Moves, BridgeTyped, Rings
<1>5. TokenIntact(o)'
  BY <1>0, <1>2, Zenon DEF TokenIntact, BridgeTyped
<1> QED
  BY <1>2, <1>3, <1>4, <1>5, SameDevice, TokenKeeps, Zenon DEF Rings

\* recycle of the buffers of one ring.
LEMMA RecycledOne ==
    ASSUME BridgeInv, NEW o \in Owners, NEW d \in Device, device' = [device EXCEPT ![o] = d],
           host' = host, UNCHANGED <<queued, due, smoltcp_owner>>, device[o].at # "none",
           DeviceShape(d), NEW q \in Rings, Recycle(q, TokenSlots(q, device[o])),
           \A r \in Rings : TokenSlots(r, d) = IF r = q THEN {} ELSE TokenSlots(r, device[o]),
           d.rx # {} => d.packet = device[o].packet
    PROVE  BridgeInv'
<1>1. {q} \in SUBSET Rings /\ \A r : r \in {q} <=> r = q
  BY Zenon
<1>2. /\ free' = [r \in Rings |-> IF r \in {q} THEN free[r] \cup TokenSlots(r, device[o]) ELSE free[r]]
      /\ filled' = [r \in Rings |-> IF r \in {q} THEN Cleared(r, TokenSlots(r, device[o]))
                                    ELSE filled[r]]
  BY ZenonT(60) DEF BridgeInv, BridgeTyped, Recycle
<1>3. \A r \in Rings : TokenSlots(r, d) = IF r \in {q} THEN {} ELSE TokenSlots(r, device[o])
  BY <1>1, Zenon
<1> QED
  BY <1>1, <1>2, <1>3, TokenRecycled, ZenonT(60)

\* consume of a transmit token, or its drop.
LEMMA TokenEnds ==
    ASSUME BridgeInv, NEW o \in Owners, NEW d \in Device, device' = [device EXCEPT ![o] = d],
           host' = host, smoltcp_owner' = smoltcp_owner, DeviceShape(d),
           device[o].at \in {"process", "transmit"}, d.tx = {}, d.rx = device[o].rx,
           d.rx # {} => d.packet = device[o].packet,
           \/ \E length \in Lengths : ConsumeToken(o, length)
           \/ Recycle("egress", device[o].tx) /\ UNCHANGED <<queued, due>>
    PROVE  BridgeInv'
<1>1. PICK slot \in Slots : device[o].tx = {slot}
  BY Zenon DEF BridgeInv, Shape
<1>2. CASE Recycle("egress", device[o].tx) /\ UNCHANGED <<queued, due>>
  <2>1. Recycle("egress", TokenSlots("egress", device[o])) /\ "egress" \in Rings
    BY <1>2, Zenon DEF TokenSlots, Rings
  <2>2. \A r \in Rings : TokenSlots(r, d) = IF r = "egress" THEN {} ELSE TokenSlots(r, device[o])
    BY Zenon DEF TokenSlots, Rings
  <2>3. UNCHANGED <<queued, due, smoltcp_owner>> /\ device[o].at # "none"
    BY <1>2, Zenon
  <2> QED
    BY <2>1, <2>2, <2>3, RecycledOne, ZenonT(60)
<1>3. ASSUME NEW length \in Lengths, Fill("egress", slot, length), Enqueue("egress", slot, length),
             free' = free
      PROVE  BridgeInv'
  <2>1. length \in Nat /\ UNCHANGED <<free, smoltcp_owner>> /\ device[o].at # "none"
    BY <1>3, BridgeAssumption, Zenon
  <2> QED
    BY <1>1, <1>3, <2>1, TokenConsumed, ZenonT(60)
<1> QED
  BY <1>1, <1>2, <1>3, Zenon DEF ConsumeToken

\* A device whose place and budget change.
LEMMA DeviceBudget ==
    ASSUME NEW d \in Device, NEW at \in {"rest", "ingress"}, NEW left \in Int
    PROVE  LET e == [d EXCEPT !.at = at, !.left = left]
           IN  e \in Device /\ e.at = at /\ e.rx = d.rx /\ e.tx = d.tx /\ e.packet = d.packet
<1>1. PICK e : e = [d EXCEPT !.at = at, !.left = left]
  BY Zenon
<1>2. e \in Device /\ e.at = at /\ e.rx = d.rx /\ e.tx = d.tx /\ e.packet = d.packet
  BY <1>1, Zenon DEF Device
<1> QED
  BY <1>1, <1>2, Zenon

\* A device that has sent its packet.
LEMMA DeviceSent ==
    ASSUME NEW d \in Device
    PROVE  LET e == [d EXCEPT !.at = "rest", !.tx = {}, !.left = 0]
           IN  e \in Device /\ e.at = "rest" /\ e.rx = d.rx /\ e.tx = {} /\ e.packet = d.packet
<1>0. PICK tx \in SUBSET Slots : tx = {}
  BY Zenon
<1>a. PICK left \in Int : left = 0
  OBVIOUS
<1>1. PICK e : e = [d EXCEPT !.at = "rest", !.tx = tx, !.left = left]
  BY Zenon
<1>2. e \in Device /\ e.at = "rest" /\ e.rx = d.rx /\ e.tx = tx /\ e.packet = d.packet
  BY <1>1, ZenonT(60) DEF Device
<1>3. e = [d EXCEPT !.at = "rest", !.tx = {}, !.left = 0]
  BY <1>0, <1>a, <1>1, Zenon
<1> QED
  BY <1>0, <1>2, <1>3, Zenon

\* The steps of a device.
LEMMA DeviceKeeps ==
    ASSUME BridgeInv, NEW o \in Owners,
           BuildDevice(o) \/ DropDevice(o) \/ PollBegins(o) \/ PollDevice(o)
    PROVE  BridgeInv'
<1>0. BridgeTyped /\ device[o] \in Device /\ DeviceShape(device[o])
  BY Zenon DEF BridgeInv, BridgeTyped, Shape, DeviceShape
<1>1. CASE BuildDevice(o) \/ DropDevice(o) \/ PollBegins(o) \/ EndPoll(o)
  <2>1. PICK d \in Device :
          /\ device' = [device EXCEPT ![o] = d]
          /\ \/ BuildDevice(o) /\ d.at = "rest"
             \/ DropDevice(o) /\ d.at = "none"
             \/ PollBegins(o) /\ d.at = "ingress"
             \/ EndPoll(o) /\ d.at = "rest"
          /\ d.rx = {} /\ d.tx = {} /\ device[o].rx = {} /\ device[o].tx = {}
    <3>1. device[o].at \in {"none", "rest", "egress"}
      BY <1>1, Zenon DEF BuildDevice, DropDevice, PollBegins, EndPoll, AtRest
    <3>2. device[o].rx = {} /\ device[o].tx = {}
      BY <1>0, <3>1, Zenon DEF DeviceShape
    <3>3. /\ NoDevice \in Device /\ [NoDevice EXCEPT !.at = "rest"] \in Device
          /\ NoDevice.at = "none" /\ NoDevice.rx = {} /\ NoDevice.tx = {}
      BY DEF NoDevice, Device
    <3>4. CASE BuildDevice(o)
      <4>1. device' = [device EXCEPT ![o] = [NoDevice EXCEPT !.at = "rest"]]
        BY <3>4, Zenon DEF BuildDevice, At
      <4> QED
        BY <3>2, <3>3, <3>4, <4>1, Zenon DEF NoDevice
    <3>5. CASE DropDevice(o)
      BY <3>2, <3>3, <3>5, Zenon DEF DropDevice, At
    <3>6. CASE PollBegins(o)
      <4> DEFINE d == [device[o] EXCEPT !.at = "ingress", !.left = max_packets_per_poll]
      <4>0. max_packets_per_poll \in Int
        BY BridgeAssumption
      <4>1. d \in Device /\ d.at = "ingress" /\ d.rx = {} /\ d.tx = {}
        BY <1>0, <3>2, <4>0, DeviceBudget, ZenonT(60)
      <4>2. device' = [device EXCEPT ![o] = d]
        BY <3>6, Zenon DEF PollBegins, At
      <4> HIDE DEF d
      <4> QED
        BY <3>2, <3>6, <4>1, <4>2, Zenon
    <3>7. CASE EndPoll(o)
      <4> DEFINE d == [device[o] EXCEPT !.at = "rest", !.left = 0]
      <4>0. 0 \in Int
        OBVIOUS
      <4>1. d \in Device /\ d.at = "rest" /\ d.rx = {} /\ d.tx = {}
        BY <1>0, <3>2, <4>0, DeviceBudget, ZenonT(60)
      <4>2. device' = [device EXCEPT ![o] = d]
        BY <3>7, Zenon DEF EndPoll, At
      <4> HIDE DEF d
      <4> QED
        BY <3>2, <3>7, <4>1, <4>2, Zenon
    <3> QED
      BY <1>1, <3>4, <3>5, <3>6, <3>7, Zenon
  <2>2. host' = host /\ UNCHANGED <<free, queued, filled, due>> /\ smoltcp_owner' \in BOOLEAN
    BY <1>0, <2>1, Zenon DEF BuildDevice, DropDevice, PollBegins, EndPoll, BridgeTyped
  <2>3. DeviceShape(d)
    BY <2>1, Zenon DEF DeviceShape
  <2>4. OneDevice'
    <3>1. \A p \in Owners : device'[p] = IF p = o THEN d ELSE device[p]
      BY <1>0, <2>1, Zenon DEF BridgeTyped
    <3>2. OneDevice
      BY Zenon DEF BridgeInv
    <3>3. CASE BuildDevice(o)
      BY <3>1, <3>2, <3>3, Zenon DEF BuildDevice, OneDevice
    <3>4. CASE DropDevice(o)
      BY <2>1, <3>1, <3>2, <3>4, Zenon DEF DropDevice, OneDevice, BuildDevice, PollBegins, EndPoll, AtRest
    <3>5. CASE PollBegins(o) \/ EndPoll(o)
      BY <3>1, <3>2, <3>5, SMTT(30) DEF PollBegins, EndPoll, OneDevice, AtRest
    <3> QED
      BY <1>1, <3>3, <3>4, <3>5, Zenon
  <2> QED
    BY <2>1, <2>2, <2>3, <2>4, QuietKeeps, ZenonT(60)
<1>2. CASE ReceiveLease(o) \/ TransmitLease(o)
  <2>1. /\ device[o].at \in {"ingress", "egress"} /\ device[o].rx = {} /\ device[o].tx = {}
        /\ host' = host /\ UNCHANGED <<queued, filled, due, smoltcp_owner>>
    BY <1>0, <1>2, Zenon DEF ReceiveLease, TransmitLease, DeviceShape
  <2>2. ASSUME NEW slot \in Slots, Lease("egress", slot), NEW at \in {"receive", "transmit"},
               At(o, [device[o] EXCEPT !.at = at, !.tx = {slot}])
        PROVE  BridgeInv'
    <3> DEFINE d == [device[o] EXCEPT !.at = at, !.tx = {slot}]
    <3>1. d \in Device /\ DeviceShape(d) /\ d.rx = {} /\ d.tx = {slot}
      BY <1>0, <2>1, <2>2, Zenon DEF Device, DeviceShape
    <3>2. device' = [device EXCEPT ![o] = d]
      BY <2>2, Zenon DEF At
    <3> HIDE DEF d
    <3> QED
      BY <2>1, <2>2, <3>1, <3>2, TokenLeased, Zenon
  <2>3. CASE free' = free /\ At(o, [device[o] EXCEPT !.at = "egress"])
    <3> DEFINE d == [device[o] EXCEPT !.at = "egress"]
    <3>1. d \in Device /\ DeviceShape(d) /\ d.rx = {} /\ d.tx = {}
      BY <1>0, <2>1, Zenon DEF Device, DeviceShape
    <3>2. device' = [device EXCEPT ![o] = d]
      BY <2>3, Zenon DEF At
    <3> HIDE DEF d
    <3>3. OneDevice' /\ smoltcp_owner' \in BOOLEAN
      BY <1>0, <2>1, <3>2, SameDevice, Zenon DEF BridgeTyped
    <3> QED
      BY <2>1, <2>3, <3>1, <3>2, <3>3, QuietKeeps, Zenon
  <2> QED
    BY <1>2, <2>2, <2>3, ZenonT(60) DEF ReceiveLease, TransmitLease
<1>3. CASE ReceiveRead(o)
  <2>1. /\ device[o].at = "receive" /\ device[o].rx = {}
        /\ host' = host /\ smoltcp_owner' = smoltcp_owner
    BY <1>0, <1>3, Zenon DEF ReceiveRead, DeviceShape
  <2>2. PICK slot \in Slots : device[o].tx = {slot}
    BY <1>0, <2>1, Zenon DEF DeviceShape
  <2>3. CASE Dequeue("ingress") /\ UNCHANGED <<free, filled>> /\
             At(o, [device[o] EXCEPT !.at = "process", !.rx = {Head(queued["ingress"])},
                                     !.packet = Head(due["ingress"])])
    <3> DEFINE d == [device[o] EXCEPT !.at = "process", !.rx = {Head(queued["ingress"])},
                                      !.packet = Head(due["ingress"])]
    <3>1. Head(queued["ingress"]) \in Slots /\ Head(due["ingress"]) \in Nat
      <4>1. /\ queued["ingress"] \in Seq(Slots) /\ due["ingress"] \in Seq(Nat)
            /\ Len(due["ingress"]) = Len(queued["ingress"])
        BY <1>0, Zenon DEF BridgeTyped, Rings, BridgeInv, Intact
      <4> QED
        BY <2>3, <4>1 DEF Dequeue
    <3>2. /\ d \in Device /\ d.rx = {Head(queued["ingress"])} /\ d.tx = device[o].tx
          /\ d.packet = Head(due["ingress"]) /\ DeviceShape(d)
      BY <1>0, <2>2, <3>1, Zenon DEF Device, DeviceShape
    <3>3. device' = [device EXCEPT ![o] = d]
      BY <2>3, Zenon DEF At
    <3> HIDE DEF d
    <3> QED
      BY <2>1, <2>3, <3>2, <3>3, TokenReads, Zenon
  <2>4. CASE Recycle("egress", device[o].tx) /\ UNCHANGED <<queued, due>> /\
             At(o, [device[o] EXCEPT !.at = "egress", !.tx = {}])
    <3> DEFINE d == [device[o] EXCEPT !.at = "egress", !.tx = {}]
    <3>1. d \in Device /\ DeviceShape(d) /\ d.rx = {} /\ d.tx = {}
      BY <1>0, <2>1, Zenon DEF Device, DeviceShape
    <3>2. device' = [device EXCEPT ![o] = d]
      BY <2>4, Zenon DEF At
    <3> HIDE DEF d
    <3>3. Recycle("egress", TokenSlots("egress", device[o])) /\ "egress" \in Rings
      BY <2>4, Zenon DEF TokenSlots, Rings
    <3>4. \A r \in Rings : TokenSlots(r, d) = IF r = "egress" THEN {} ELSE TokenSlots(r, device[o])
      BY <2>1, <3>1, Zenon DEF TokenSlots, Rings
    <3> QED
      <4>1. UNCHANGED <<queued, due, smoltcp_owner>> /\ device[o].at # "none"
        BY <2>1, <2>4, Zenon
      <4> QED
        BY <2>1, <3>1, <3>2, <3>3, <3>4, <4>1, RecycledOne, Zenon
  <2> QED
    BY <1>3, <2>3, <2>4, Zenon DEF ReceiveRead
<1>4. CASE Process(o)
  <2> DEFINE d == [device[o] EXCEPT !.at = "processed", !.tx = {}]
  <2>1. /\ device[o].at = "process" /\ device' = [device EXCEPT ![o] = d]
        /\ host' = host /\ smoltcp_owner' = smoltcp_owner
    BY <1>4, Zenon DEF Process, At
  <2>2. /\ d \in Device /\ DeviceShape(d) /\ d.rx = device[o].rx /\ d.tx = {}
        /\ d.packet = device[o].packet
    BY <1>0, <2>1, Zenon DEF Device, DeviceShape
  <2> HIDE DEF d
  <2> QED
    BY <1>4, <2>1, <2>2, TokenEnds, Zenon DEF Process
<1>5. CASE \E length \in Lengths : Transmit(o, length)
  <2> DEFINE d == [device[o] EXCEPT !.at = "rest", !.tx = {}, !.left = 0]
  <2>1. /\ device[o].at = "transmit" /\ device' = [device EXCEPT ![o] = d]
        /\ host' = host /\ smoltcp_owner' = smoltcp_owner
        /\ \E length \in Lengths : ConsumeToken(o, length)
    BY <1>5, Zenon DEF Transmit, At
  <2>a. /\ d \in Device /\ d.at = "rest" /\ d.rx = device[o].rx /\ d.tx = {}
        /\ d.packet = device[o].packet
    BY <1>0, DeviceSent, Zenon
  <2>2. DeviceShape(d)
    BY <1>0, <2>1, <2>a, Zenon DEF DeviceShape
  <2> HIDE DEF d
  <2> QED
    BY <2>1, <2>2, <2>a, TokenEnds, Zenon
<1>6. CASE Processed(o)
  <2> DEFINE d == [device[o] EXCEPT !.at = IF device[o].left = 1 THEN "egress" ELSE "ingress",
                                    !.rx = {}, !.left = @ - 1, !.packet = 0]
  <2>1. /\ device[o].at = "processed" /\ device' = [device EXCEPT ![o] = d]
        /\ host' = host /\ smoltcp_owner' = smoltcp_owner /\ UNCHANGED <<queued, due>>
        /\ Recycle("ingress", device[o].rx)
    BY <1>6, Zenon DEF Processed, At
  <2>a. /\ d \in Device /\ d.at \in {"egress", "ingress"} /\ d.rx = {} /\ d.tx = device[o].tx
        /\ device[o].tx = {}
    <3> DEFINE at == IF device[o].left = 1 THEN "egress" ELSE "ingress"
    <3>1. at \in {"egress", "ingress"} /\ device[o].left - 1 \in Int
      BY <1>0 DEF Device
    <3>2. device[o].tx = {}
      BY <1>0, <2>1, Zenon DEF DeviceShape
    <3> HIDE DEF at
    <3>3. d = [device[o] EXCEPT !.at = at, !.rx = {}, !.left = device[o].left - 1, !.packet = 0]
      BY Zenon DEF at
    <3> HIDE DEF d
    <3>4. d \in Device /\ d.at = at /\ d.rx = {} /\ d.tx = device[o].tx
      <4>1. PICK left \in Int : left = device[o].left - 1
        BY <3>1, Zenon
      <4>2. PICK was \in Device : was = device[o]
        BY <1>0, Zenon
      <4>3. PICK rx \in SUBSET Slots, packet \in Nat : rx = {} /\ packet = 0
        BY Zenon
      <4>4. d = [was EXCEPT !.at = at, !.rx = rx, !.left = left, !.packet = packet]
        BY <3>3, <4>1, <4>2, <4>3, Zenon
      <4>5. d \in Device /\ d.at = at /\ d.rx = rx /\ d.tx = was.tx
        BY <3>1, <4>4, Zenon DEF Device
      <4> QED
        BY <4>2, <4>3, <4>5, Zenon
    <3> QED
      BY <3>1, <3>2, <3>4, Zenon
  <2>2. d \in Device /\ DeviceShape(d) /\ d.rx = {} /\ d.tx = {} /\ device[o].tx = {}
    BY <1>0, <2>a, Zenon DEF Device, DeviceShape
  <2> HIDE DEF d
  <2>3. Recycle("ingress", TokenSlots("ingress", device[o])) /\ "ingress" \in Rings
    BY <2>1, Zenon DEF TokenSlots, Rings
  <2>4. \A r \in Rings : TokenSlots(r, d) = IF r = "ingress" THEN {} ELSE TokenSlots(r, device[o])
    BY <2>2, Zenon DEF TokenSlots, Rings
  <2> QED
    <3>1. UNCHANGED <<queued, due, smoltcp_owner>> /\ device[o].at # "none"
      BY <2>1, Zenon
    <3> QED
      BY <2>1, <2>2, <2>3, <2>4, <3>1, RecycledOne, Zenon
<1>7. CASE Unwind(o)
  <2> DEFINE d == [NoDevice EXCEPT !.at = "rest"]
  <2>1. /\ device[o].at # "none" /\ device' = [device EXCEPT ![o] = d]
        /\ host' = host /\ UNCHANGED <<queued, due, smoltcp_owner>>
    BY <1>7, Zenon DEF Unwind, At
  <2>2. d \in Device /\ DeviceShape(d) /\ d.rx = {} /\ d.tx = {}
    BY DEF Device, DeviceShape, NoDevice
  <2> HIDE DEF d
  <2>0. PICK rings \in SUBSET Rings : rings = Rings
    BY Zenon
  <2>3. \A r \in Rings : TokenSlots(r, d) = IF r \in rings THEN {} ELSE TokenSlots(r, device[o])
    BY <2>0, <2>2, Zenon DEF TokenSlots, Rings
  <2>4. free' = [r \in Rings |-> IF r \in rings THEN free[r] \cup TokenSlots(r, device[o])
                                 ELSE free[r]]
    BY <1>0, <1>7, <2>0, ZenonT(60) DEF Unwind, BridgeTyped, TokenSlots, Rings
  <2>5. filled' = [r \in Rings |-> IF r \in rings THEN Cleared(r, TokenSlots(r, device[o]))
                                   ELSE filled[r]]
    BY <1>7, <2>0, Zenon DEF Unwind, TokenSlots
  <2> QED
    <3>1. d.rx # {} => d.packet = device[o].packet
      BY <2>2, Zenon
    <3>2. host' = host /\ UNCHANGED <<queued, due, smoltcp_owner>>
      BY <2>1, Zenon
    <3> QED
      BY <2>1, <2>2, <2>3, <2>4, <2>5, <3>1, <3>2, TokenRecycled, ZenonT(60)
<1> QED
  BY <1>1, <1>2, <1>3, <1>4, <1>5, <1>6, <1>7, Zenon DEF PollDevice

\* Every step keeps the invariant.
LEMMA BridgeStep == BridgeInv /\ [BridgeNext]_bridgeVars => BridgeInv'
<1> SUFFICES ASSUME BridgeInv, [BridgeNext]_bridgeVars PROVE BridgeInv'
  BY Zenon
<1>1. CASE UNCHANGED bridgeVars
  <2>1. UNCHANGED <<free, queued, filled, due, host, smoltcp_owner, device>>
    BY <1>1, Zenon DEF bridgeVars
  <2>2. BridgeTyped' /\ Shape' /\ OneDevice'
    BY <2>1, ZenonT(60) DEF BridgeInv, BridgeTyped, Shape, OneDevice
  <2>3. Intact' /\ Copied'
    BY <2>1, Zenon DEF BridgeInv, Intact, Copied
  <2>4. ASSUME NEW r \in Rings PROVE Owned(free[r], queued[r], Leases(r))'
    <3>1. Leases(r)' = Leases(r) /\ Owned(free[r], queued[r], Leases(r))
      BY <2>1, Zenon DEF Leases, CallSlots, TokenSlots, BridgeInv
    <3> QED
      BY <2>1, <3>1, Zenon DEF Owned
  <2> QED
    BY <2>2, <2>3, <2>4, Zenon DEF BridgeInv
<1> QED
  BY <1>1, HostKeeps, DeviceKeeps, Zenon DEF BridgeNext

\* It holds in every state.
LEMMA BridgeInvariant == BridgeSpec => []BridgeInv
  BY InitBridge, BridgeStep, PTL DEF BridgeSpec

\* A packet is what was put in, in order, until its reader has given the buffer back,
\* however host calls, polls, dropped tokens and panics interleave.
THEOREM PacketsIntact == BridgeSpec => []Intact
<1>1. BridgeInv => Intact
  BY Zenon DEF BridgeInv
<1> QED
  BY <1>1, BridgeInvariant, PTL

\* Every buffer of a ring has one owner, the free list, a place in the queue or a lease,
\* and there is one device, for any number of buffers, host calls and owners.
THEOREM BuffersOwned == BridgeSpec => []OneOwner
<1>1. BridgeInv => OneOwner
  <2> SUFFICES ASSUME BridgeInv PROVE OneOwner
    BY Zenon
  <2>1. BridgeTyped
    BY Zenon DEF BridgeInv
  <2>2. ASSUME NEW r \in Rings, NEW slot \in Slots
        PROVE  LET places == {<<"free", 0>> : s \in free[r] \cap {slot}}
                         \cup {<<"queue", i>> : i \in {i \in DOMAIN queued[r] : queued[r][i] = slot}}
                         \cup {<<"call", h>> : h \in {h \in HostCalls : slot \in CallLease(r, h)}}
                         \cup {<<"token", o>> : o \in {o \in Owners : slot \in TokenLease(r, o)}}
               IN  Cardinality(places) = 1
    <3> DEFINE places == {<<"free", 0>> : s \in free[r] \cap {slot}}
                         \cup {<<"queue", i>> : i \in {i \in DOMAIN queued[r] : queued[r][i] = slot}}
                         \cup {<<"call", h>> : h \in {h \in HostCalls : slot \in CallLease(r, h)}}
                         \cup {<<"token", o>> : o \in {o \in Owners : slot \in TokenLease(r, o)}}
    <3>1. /\ \A h \in HostCalls : <<"call", h>> \in Holders
                                  /\ CallLease(r, h) = Leases(r)[<<"call", h>>]
          /\ \A o \in Owners : <<"token", o>> \in Holders
                                  /\ TokenLease(r, o) = Leases(r)[<<"token", o>>]
      <4>1. \A h \in HostCalls : CallLease(r, h) = CallSlots(r, host[h])
        BY SMTT(30) DEF CallLease, CallSlots
      <4>2. \A o \in Owners : TokenLease(r, o) = TokenSlots(r, device[o])
        BY Zenon DEF TokenLease, TokenSlots
      <4> QED
        BY <2>1, <4>1, <4>2, LeasesAre, Zenon
    <3>2. \A p : p \in places <=>
            \/ p = <<"free", 0>> /\ slot \in free[r]
            \/ \E i \in DOMAIN queued[r] : p = <<"queue", i>> /\ queued[r][i] = slot
            \/ p \in Holders /\ slot \in Leases(r)[p]
      <4>1. \A p \in Holders : \/ \E h \in HostCalls : p = <<"call", h>>
                               \/ \E o \in Owners : p = <<"token", o>>
        BY DEF Holders
      <4> QED
        BY <3>1, <4>1
    <3>3. Owned(free[r], queued[r], Leases(r))
      BY Zenon DEF BridgeInv
    <3>4. \E p \in places : \A q \in places : q = p
      <4>1. \A p \in Holders : p # <<"free", 0>> /\ \A i : p # <<"queue", i>>
        BY DEF Holders
      <4> HIDE DEF places
      <4>2. CASE slot \in free[r]
        <5>1. /\ \A i \in DOMAIN queued[r] : queued[r][i] # slot
              /\ \A x \in Holders : slot \notin Leases(r)[x]
          BY <3>3, <4>2, Zenon DEF Owned
        <5>2. <<"free", 0>> \in places
          BY <3>2, <4>2, Zenon
        <5>3. ASSUME NEW q \in places PROVE q = <<"free", 0>>
          BY <3>2, <5>1, Zenon
        <5> QED
          BY <5>2, <5>3, Zenon
      <4>3. CASE \E i \in DOMAIN queued[r] : queued[r][i] = slot
        <5>1. PICK i \in DOMAIN queued[r] : queued[r][i] = slot
          BY <4>3, Zenon
        <5>2. /\ slot \notin free[r] /\ \A x \in Holders : slot \notin Leases(r)[x]
              /\ \A j \in DOMAIN queued[r] : queued[r][j] = slot => i = j
          BY <3>3, <5>1, Zenon DEF Owned
        <5>3. <<"queue", i>> \in places
          BY <3>2, <5>1, Zenon
        <5>4. ASSUME NEW q \in places PROVE q = <<"queue", i>>
          <6>1. PICK j \in DOMAIN queued[r] : q = <<"queue", j>> /\ queued[r][j] = slot
            BY <3>2, <5>2, Zenon
          <6> QED
            BY <5>2, <6>1, Zenon
        <5> QED
          BY <5>3, <5>4, Zenon
      <4>4. CASE \E x \in Holders : slot \in Leases(r)[x]
        <5>1. PICK x \in Holders : slot \in Leases(r)[x]
          BY <4>4, Zenon
        <5>2. /\ slot \notin free[r] /\ \A i \in DOMAIN queued[r] : queued[r][i] # slot
              /\ \A y \in Holders : slot \in Leases(r)[y] => x = y
          BY <3>3, <5>1 DEF Owned
        <5>3. x \in places
          BY <3>2, <5>1, Zenon
        <5>4. ASSUME NEW q \in places PROVE q = x
          <6>1. q \in Holders /\ slot \in Leases(r)[q]
            BY <3>2, <5>2, Zenon
          <6> QED
            BY <5>2, <6>1, Zenon
        <5> QED
          BY <5>3, <5>4, Zenon
      <4> QED
        BY <3>3, <4>2, <4>3, <4>4, Zenon DEF Owned
    <3> HIDE DEF places
    <3>5. PICK p : places = {p}
      BY <3>4
    <3>6. Cardinality(places) = 1
      BY <3>5, FS_Singleton, Zenon
    <3> QED
      BY <3>6, Zenon DEF places
  <2> QED
    BY <2>2, Zenon DEF OneOwner, BridgeInv, OneDevice
<1> QED
  BY <1>1, BridgeInvariant, PTL
=============================================================================
