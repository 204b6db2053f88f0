--------------------------- MODULE AdmissionProofs --------------------------
(***************************************************************************)
(* Proofs about what lets a call in, for any calls, peers, limits, tokens, *)
(* cache sizes and clocks: the cache that admits an early attempt once,    *)
(* the permits and the charge of early bytes, and that a call's bytes      *)
(* reach the application at most once.                                     *)
(***************************************************************************)
EXTENDS Admission, FiniteSetTheorems, TLAPS

-----------------------------------------------------------------------------
(***************************************************************************)
(* That no attempt is admitted twice, for every cache size, clock and      *)
(* order of the readings.                                                  *)
(***************************************************************************)
ReplayTypeOK ==
    /\ clock \in Times /\ latest \in Times
    /\ epoch \in Epochs
    /\ tokens \subseteq Tokens
    /\ attempts \subseteq Admission
    /\ admitted \subseteq Admission

ReplayInvariant == ReplayTypeOK /\ Remembered

\* A server starts with what its callers kept, and nothing admitted.
LEMMA ReplayStarts == ReplayInit => ReplayInvariant
  <1> SUFFICES ASSUME ReplayInit PROVE ReplayInvariant
    BY Zenon
  <1>1. clock = 0 /\ epoch = 0 /\ latest = 0 /\ attempts = {} /\ admitted = {}
    BY Zenon DEF ReplayInit
  <1>2. tokens = {} \/ \E token \in KeptTokens : tokens = {token}
    BY DEF ReplayInit
  <1>3. tokens \subseteq Tokens /\ \A token \in tokens : token.epoch = 0
    BY <1>2, ReplayAssumption
  <1>4. ReplayTypeOK
    BY <1>1, <1>3, ReplayAssumption DEF ReplayTypeOK, Times, Epochs
  <1>5. \A one, other \in tokens : one = other
    BY <1>2, Zenon
  <1> QED  BY <1>1, <1>3, <1>4, <1>5 DEF ReplayInvariant, Remembered

\* issue draws an identity no token has.
LEMMA IssuePreserves ==
    ASSUME ReplayInvariant, NEW ttl \in Times, NEW capabilities \in Capabilities,
           Issue(ttl, capabilities)
    PROVE  ReplayInvariant'
  <1>1. PICK identity \in Identities :
            /\ \A token \in tokens : token.identity # identity
            /\ tokens' = tokens \cup {[identity |-> identity, epoch |-> epoch,
                                       expiry |-> clock + ttl, capabilities |-> capabilities]}
    BY DEF Issue
  <1>2. ReplayTypeOK'
    BY <1>1, ReplayAssumption
       DEF Issue, ReplayInvariant, ReplayTypeOK, Tokens, Times, Epochs
  <1>3. Remembered'
    BY <1>1, ReplayAssumption
       DEF Issue, ReplayInvariant, ReplayTypeOK, Remembered, Tokens, Times, Epochs, Admission
  <1> QED  BY <1>2, <1>3, Zenon DEF ReplayInvariant

\* What a server's token was admitted for is the entry admit would make of it now.
LEMMA SameEntry ==
    ASSUME ReplayInvariant, NEW token \in tokens, NEW nonce \in Nonces,
           token.epoch = epoch, NEW earlier \in admitted,
           earlier.attempt = <<token.identity, nonce>>
    PROVE  earlier = [attempt |-> <<token.identity, nonce>>, expiry |-> token.expiry,
    epoch |-> epoch]
  <1>1. PICK origin \in tokens : /\ origin.identity = earlier.attempt[1]
                                 /\ origin.expiry = earlier.expiry /\ origin.epoch = earlier.epoch
    BY Zenon DEF ReplayInvariant, Remembered
  <1>2. origin = token
    BY <1>1 DEF ReplayInvariant, Remembered
  <1> QED  BY <1>1, <1>2, Zenon DEF ReplayInvariant, ReplayTypeOK, Admission

\* admit adds one entry and forgets only what its reading has passed.
LEMMA RememberPreserves ==
    ASSUME ReplayInvariant, NEW token \in tokens, NEW nonce \in Nonces,
           NEW capabilities \in Capabilities,
           NEW now \in Times, Presentable(token, capabilities, now), Remember(token, nonce, now)
    PROVE  ReplayInvariant'
  <1> DEFINE attempt == <<token.identity, nonce>>
             entry == [attempt |-> attempt, expiry |-> token.expiry, epoch |-> epoch]
  <1>1. now \in Nat /\ latest \in Nat /\ latest' \in Times \cap Nat /\ latest' >= latest /\ latest' >= now
    BY ReplayAssumption DEF Remember, ReplayInvariant, ReplayTypeOK, Times
  <1>2. entry \in Admission /\ entry.epoch = token.epoch
    BY Zenon DEF Presentable, ReplayInvariant, ReplayTypeOK, Tokens, Admission, Attempts
  <1>3. CASE ~Admits(attempt, now)
    <2>1. UNCHANGED <<clock, epoch, tokens, attempts, admitted>>
      BY <1>3, Zenon DEF Remember
    <2>2. \A e \in admitted : e.expiry \in Nat
      BY ReplayAssumption DEF ReplayInvariant, ReplayTypeOK, Admission, Times
    <2> QED  BY <1>1, <2>1, <2>2 DEF ReplayInvariant, ReplayTypeOK, Remembered
  <1>4. CASE Admits(attempt, now)
    <2>1. /\ attempts' = {kept \in Retained(now) : kept.attempt # attempt} \cup {entry}
          /\ admitted' = admitted \cup {entry}
          /\ UNCHANGED <<clock, epoch, tokens>>
      BY <1>4, Zenon DEF Remember
    <2>2. Retained(now) \subseteq attempts
      BY Zenon DEF Retained
    <2>3. ReplayTypeOK'
      BY <1>1, <1>2, <2>1, <2>2, Zenon DEF ReplayInvariant, ReplayTypeOK
    <2>4. \A e \in attempts : e \in Retained(now) \/ e.expiry < now
      BY ReplayAssumption DEF Retained, ReplayInvariant, ReplayTypeOK, Admission, Times
    <2>5. ASSUME NEW e \in admitted', e.epoch = epoch'
          PROVE  e \in attempts' \/ e.expiry < latest'
      <3>1. CASE e = entry
        BY <3>1, <2>1, Zenon
      <3>2. CASE e # entry
        <4>1. e \in admitted /\ e.epoch = epoch /\ e.expiry \in Nat
          BY <3>2, <2>1, <2>5, ReplayAssumption DEF ReplayInvariant, ReplayTypeOK, Admission, Times
        <4>2. e.attempt # attempt
          BY <4>1, <3>2, SameEntry, Zenon DEF Presentable
        <4>3. e \in attempts \/ e.expiry < latest
          BY <4>1, Zenon DEF ReplayInvariant, Remembered
        <4> QED  BY <4>1, <4>2, <4>3, <2>1, <2>4, <1>1
      <3> QED  BY <3>1, <3>2, Zenon
    <2>6. \A e \in admitted' : \E t \in tokens' :
              t.identity = e.attempt[1] /\ t.expiry = e.expiry /\ t.epoch = e.epoch
      BY <2>1, <1>2 DEF ReplayInvariant, Remembered
    <2> QED  BY <2>1, <2>3, <2>5, <2>6 DEF ReplayInvariant, Remembered
  <1> QED  BY <1>3, <1>4, Zenon

\* A restart forgets the cache, but none of its tokens is of the new epoch.
LEMMA RestartPreserves == ReplayInvariant /\ Restart => ReplayInvariant'
  <1> SUFFICES ASSUME ReplayInvariant, Restart PROVE ReplayInvariant'
    OBVIOUS
  <1>1. epoch' = epoch + 1 /\ epoch \in Nat /\ epoch' \in Epochs
    BY ReplayAssumption DEF Restart, ReplayInvariant, ReplayTypeOK, Epochs
  <1>2. ReplayTypeOK'
    BY <1>1, ReplayAssumption DEF Restart, ReplayInvariant, ReplayTypeOK, Times
  <1>3. \A token \in tokens : token.epoch \in Nat /\ token.epoch <= epoch
    <2>1. tokens \subseteq Tokens /\ \A token \in tokens : token.epoch <= epoch
      BY DEF ReplayInvariant, ReplayTypeOK, Remembered
    <2>2. \A token \in Tokens : token.epoch \in Nat
      BY ReplayAssumption DEF Tokens, Epochs
    <2> QED  BY <2>1, <2>2, Zenon
  <1>4. \A entry \in admitted : entry.epoch # epoch'
    BY <1>1, <1>3 DEF ReplayInvariant, Remembered
  <1> QED  BY <1>1, <1>2, <1>3, <1>4 DEF Restart, ReplayInvariant, Remembered

\* Every step of the issuer and its cache keeps the invariant.
LEMMA ReplayStep == ReplayInvariant /\ [ReplayNext]_replayVars => ReplayInvariant'
  <1> SUFFICES ASSUME ReplayInvariant, [ReplayNext]_replayVars PROVE ReplayInvariant'
    BY Zenon
  <1>1. CASE SetClock
    BY <1>1, Zenon DEF SetClock, ReplayInvariant, ReplayTypeOK, Remembered
  <1>2. CASE UNCHANGED replayVars
    BY <1>2, Zenon DEF replayVars, ReplayInvariant, ReplayTypeOK, Remembered
  <1> QED  BY <1>1, <1>2, IssuePreserves, RememberPreserves, RestartPreserves, Zenon DEF ReplayNext

\* What this server admitted, it remembers until a reading passes the expiry.
THEOREM AlwaysRemembered == ReplaySpec => []Remembered
  <1>1. ReplayInvariant => Remembered
    BY Zenon DEF ReplayInvariant
  <1> QED  BY <1>1, ReplayStarts, ReplayStep, PTL DEF ReplaySpec

\* No order in which callers read the clock and reach the cache, and no restart,
\* admits an attempt twice before a reading has passed its expiry.
THEOREM NeverAdmittedTwice == ReplaySpec => AdmittedOnce
  <1> DEFINE Once == \A entry \in attempts' \ attempts :
                 (\E earlier \in admitted : earlier.attempt = entry.attempt) => entry.expiry < latest
  <1>1. ASSUME ReplayInvariant, ReplayNext PROVE Once
    <2> SUFFICES ASSUME NEW entry \in attempts' \ attempts, NEW earlier \in admitted,
                        earlier.attempt = entry.attempt
                 PROVE  entry.expiry < latest
      BY Zenon
    <2>1. PICK token \in tokens, nonce \in Nonces, capabilities \in Capabilities, now \in Times :
              Presentable(token, capabilities, now) /\ Remember(token, nonce, now)
      BY <1>1, Zenon DEF ReplayNext, Issue, SetClock, Restart
    <2> DEFINE attempt == <<token.identity, nonce>>
    <2>2. Admits(attempt, now) /\ entry = [attempt |-> attempt, expiry |-> token.expiry, epoch |-> epoch]
      BY <2>1 DEF Remember, Retained
    <2>3. earlier = entry /\ entry.epoch = epoch
      BY <1>1, <2>1, <2>2, SameEntry, Zenon DEF Presentable
    <2>4. entry \notin attempts
      BY <2>1, <2>2, Zenon DEF Admits, Replayed, Presentable
    <2> QED  BY <1>1, <2>3, <2>4, Zenon DEF ReplayInvariant, Remembered
  <1>2. ReplayInvariant /\ [ReplayNext]_replayVars => [Once]_replayVars
    BY <1>1, Zenon
  <1> QED  BY <1>2, ReplayStarts, ReplayStep, PTL DEF ReplaySpec, AdmittedOnce

-----------------------------------------------------------------------------
(***************************************************************************)
(* The server's side of a call, and the permits and charges that go with   *)
(* it.                                                                     *)
(***************************************************************************)
ServerState ==
    [pc : {"none", "refused", "handshake", "live", "gone"}, handle : BOOLEAN,
     flow : {"none", "checking", "pending", "open", "detached", "closed"},
     charge : {0, 1}, reading : Times]
LinkState ==
    [open : BOOLEAN, handshake : {"pending", "client", "both"},
     zero_rtt : {"none", "offered", "accepted", "rejected"},
     up : {"none", "early", "open", "data"}, down : {"none", "ok", "reset", "refused"}]
CallState ==
    [pc : {"idle", "early", "connecting", "verdict", "open", "done", "failed"},
     result : {"none", "ok", "error"}, token : Tokens \cup {NoToken}, nonce : Nonces]

AdmissionTyped ==
    /\ profile \in Profiles
    /\ call \in [Calls -> CallState]
    /\ link \in [Calls -> LinkState]
    /\ server \in [Calls -> ServerState]
    /\ active \in Nat /\ per_peer \in [Peers -> Nat] /\ reserved \in Nat
    /\ exposed \in [Calls -> Nat] /\ denied \in SUBSET Calls

\* Only a live connection has a flow, only a flow the server holds has early bytes.
Sound(s) ==
    /\ s.handle => s.pc \in {"handshake", "live"}
    /\ s.flow # "none" => s.pc = "live"
    /\ s.charge = 1 => s.flow \in {"checking", "pending", "open"}

\* The calls a permit is held for, in all and of one peer, and those with early bytes.
Holding(all) == {c \in Calls : Holds(all[c])}
HoldingOf(all, p) == {c \in Calls : PeerOf[c] = p /\ Holds(all[c])}
Charged(all) == {c \in Calls : all[c].charge = 1}

\* The calls are finitely many.
LEMMA Counted ==
    ASSUME NEW S, S \subseteq Calls
    PROVE  IsFiniteSet(S) /\ Cardinality(S) \in Nat
BY FS_Subset, FS_CardinalityType, AdmissionAssumption, Zenon

\* One more.
LEMMA CountMore ==
    ASSUME NEW S, S \subseteq Calls, NEW c, c \notin S
    PROVE  Cardinality(S \cup {c}) = Cardinality(S) + 1
BY Counted, FS_AddElement, Zenon

\* One less.
LEMMA CountLess ==
    ASSUME NEW S, S \subseteq Calls, NEW c, c \in S
    PROVE  Cardinality(S \ {c}) = Cardinality(S) - 1
BY Counted, FS_RemoveElement, Zenon

\* What the counters of the budgets say of the servers' sides.
Budgets(all, a, pp, r) ==
    /\ a = Cardinality(Holding(all)) /\ a <= max_active
    /\ \A p \in Peers : pp[p] = Cardinality(HoldingOf(all, p)) /\ pp[p] <= profile.max_per_peer
    /\ r = Cardinality(Charged(all)) /\ r <= EarlyLimit

PermitInv ==
    /\ AdmissionTyped
    /\ \A c \in Calls : Sound(server[c])
    /\ Budgets(server, active, per_peer, reserved)

\* BudgetExact is what the counters say and where the early bytes are.
LEMMA PermitsExact == PermitInv => BudgetExact
BY Zenon DEF PermitInv, Budgets, BudgetExact, Holding, HoldingOf, Charged, Sound

\* The sides with one of them replaced.
With(all, c, s) == [all EXCEPT ![c] = s]

\* One side changes: only its call joins or leaves the three sets.
LEMMA OneSide ==
    ASSUME NEW all \in [Calls -> ServerState], NEW c \in Calls, NEW s \in ServerState
    PROVE  /\ Holding(With(all, c, s)) = IF Holds(s) THEN Holding(all) \cup {c} ELSE Holding(all) \ {c}
           /\ \A p : HoldingOf(With(all, c, s), p) =
                  IF PeerOf[c] # p THEN HoldingOf(all, p)
                  ELSE IF Holds(s) THEN HoldingOf(all, p) \cup {c} ELSE HoldingOf(all, p) \ {c}
           /\ Charged(With(all, c, s)) = IF s.charge = 1 THEN Charged(all) \cup {c} ELSE Charged(all) \ {c}
  <1>1. With(all, c, s)[c] = s /\ \A d \in Calls \ {c} : With(all, c, s)[d] = all[d]
    BY Zenon DEF With
  <1>2. /\ Holding(With(all, c, s)) \subseteq Calls /\ Holding(all) \subseteq Calls
        /\ Charged(With(all, c, s)) \subseteq Calls /\ Charged(all) \subseteq Calls
        /\ \A p : HoldingOf(With(all, c, s), p) \subseteq Calls /\ HoldingOf(all, p) \subseteq Calls
    BY Zenon DEF Holding, HoldingOf, Charged
  <1>3. \A d \in Calls : /\ d \in Holding(With(all, c, s)) <=> Holds(With(all, c, s)[d])
                         /\ d \in Holding(all) <=> Holds(all[d])
                         /\ d \in Charged(With(all, c, s)) <=> With(all, c, s)[d].charge = 1
                         /\ d \in Charged(all) <=> all[d].charge = 1
    BY Zenon DEF Holding, Charged
  <1>4. \A p : \A d \in Calls :
                            /\ d \in HoldingOf(With(all, c, s), p) <=> PeerOf[d] = p /\ Holds(With(all, c, s)[d])
                            /\ d \in HoldingOf(all, p) <=> PeerOf[d] = p /\ Holds(all[d])
    BY Zenon DEF HoldingOf
  <1>5. Holding(With(all, c, s)) = IF Holds(s) THEN Holding(all) \cup {c} ELSE Holding(all) \ {c}
    <2>1. \A d : d \in Holding(With(all, c, s)) <=> d \in IF Holds(s) THEN Holding(all) \cup {c} ELSE Holding(all) \ {c}
      BY <1>1, <1>2, <1>3, Zenon
    <2> QED  BY <2>1, Zenon
  <1>6. Charged(With(all, c, s)) = IF s.charge = 1 THEN Charged(all) \cup {c} ELSE Charged(all) \ {c}
    <2>1. \A d : d \in Charged(With(all, c, s)) <=> d \in IF s.charge = 1 THEN Charged(all) \cup {c} ELSE Charged(all) \ {c}
      BY <1>1, <1>2, <1>3, Zenon
    <2> QED  BY <2>1, Zenon
  <1>7. ASSUME NEW p
        PROVE  HoldingOf(With(all, c, s), p) =
                   IF PeerOf[c] # p THEN HoldingOf(all, p)
                   ELSE IF Holds(s) THEN HoldingOf(all, p) \cup {c} ELSE HoldingOf(all, p) \ {c}
    <2>1. CASE PeerOf[c] # p
      <3>1. \A d : d \in HoldingOf(With(all, c, s), p) <=> d \in HoldingOf(all, p)
        BY <1>1, <1>2, <1>4, <2>1, Zenon
      <3> QED  BY <3>1, <2>1, Zenon
    <2>2. CASE PeerOf[c] = p /\ Holds(s)
      <3>1. \A d : d \in HoldingOf(With(all, c, s), p) <=> d \in HoldingOf(all, p) \cup {c}
        BY <1>1, <1>2, <1>4, <2>2
      <3> QED  BY <3>1, <2>2, Zenon
    <2>3. CASE PeerOf[c] = p /\ ~Holds(s)
      <3>1. \A d : d \in HoldingOf(With(all, c, s), p) <=> d \in HoldingOf(all, p) \ {c}
        BY <1>1, <1>2, <1>4, <2>3
      <3> QED  BY <3>1, <2>3, Zenon
    <2> QED  BY <2>1, <2>2, <2>3, Zenon
  <1> QED  BY <1>5, <1>6, <1>7, Zenon

\* A permit is taken: the call is counted once in all and once for its peer.
LEMMA PermitTaken ==
    ASSUME NEW all \in [Calls -> ServerState], NEW c \in Calls, NEW s \in ServerState,
           ~Holds(all[c]), Holds(s)
    PROVE  /\ Cardinality(Holding(With(all, c, s))) = Cardinality(Holding(all)) + 1
           /\ \A p : Cardinality(HoldingOf(With(all, c, s), p)) =
                  IF PeerOf[c] = p THEN Cardinality(HoldingOf(all, p)) + 1
                  ELSE Cardinality(HoldingOf(all, p))
  <1>1. c \notin Holding(all) /\ Holding(all) \subseteq Calls
    BY Zenon DEF Holding
  <1>2. \A p : c \notin HoldingOf(all, p) /\ HoldingOf(all, p) \subseteq Calls
    BY Zenon DEF HoldingOf
  <1>3. Cardinality(Holding(all) \cup {c}) = Cardinality(Holding(all)) + 1
    BY <1>1, CountMore, Zenon
  <1>4. \A p : Cardinality(HoldingOf(all, p) \cup {c}) = Cardinality(HoldingOf(all, p)) + 1
    BY <1>2, CountMore, Zenon
  <1>5. Holding(With(all, c, s)) = Holding(all) \cup {c}
    BY OneSide, Zenon
  <1>6. \A p : HoldingOf(With(all, c, s), p) = IF PeerOf[c] # p THEN HoldingOf(all, p) ELSE HoldingOf(all, p) \cup {c}
    BY OneSide
  <1> QED  BY <1>3, <1>4, <1>5, <1>6, Zenon

\* A permit is dropped: the call is counted nowhere any more.
LEMMA PermitDropped ==
    ASSUME NEW all \in [Calls -> ServerState], NEW c \in Calls, NEW s \in ServerState,
           Holds(all[c]), ~Holds(s)
    PROVE  /\ Cardinality(Holding(With(all, c, s))) = Cardinality(Holding(all)) - 1
           /\ \A p : Cardinality(HoldingOf(With(all, c, s), p)) =
                  IF PeerOf[c] = p THEN Cardinality(HoldingOf(all, p)) - 1
                  ELSE Cardinality(HoldingOf(all, p))
  <1>1. c \in Holding(all) /\ Holding(all) \subseteq Calls
    BY Zenon DEF Holding
  <1>2. \A p : /\ PeerOf[c] = p => c \in HoldingOf(all, p)
               /\ HoldingOf(all, p) \subseteq Calls
    BY Zenon DEF HoldingOf
  <1>3. Cardinality(Holding(all) \ {c}) = Cardinality(Holding(all)) - 1
    BY <1>1, CountLess, Zenon
  <1>4. \A p : PeerOf[c] = p => Cardinality(HoldingOf(all, p) \ {c}) = Cardinality(HoldingOf(all, p)) - 1
    BY <1>2, CountLess, Zenon
  <1>5. Holding(With(all, c, s)) = Holding(all) \ {c}
    BY OneSide
  <1>6. \A p : HoldingOf(With(all, c, s), p) = IF PeerOf[c] # p THEN HoldingOf(all, p) ELSE HoldingOf(all, p) \ {c}
    BY OneSide
  <1> QED  BY <1>3, <1>4, <1>5, <1>6, Zenon

\* The permit stays where it was: so do the counts.
LEMMA PermitKept ==
    ASSUME NEW all \in [Calls -> ServerState], NEW c \in Calls, NEW s \in ServerState,
           Holds(all[c]) <=> Holds(s)
    PROVE  Holding(With(all, c, s)) = Holding(all) /\ \A p : HoldingOf(With(all, c, s), p) = HoldingOf(all, p)
  <1>1. c \in Holding(all) <=> Holds(s)
    BY Zenon DEF Holding
  <1>2. \A p : c \in HoldingOf(all, p) <=> PeerOf[c] = p /\ Holds(s)
    BY Zenon DEF HoldingOf
  <1>3. Holding(With(all, c, s)) = Holding(all)
    <2>1. Holding(With(all, c, s)) = IF Holds(s) THEN Holding(all) \cup {c} ELSE Holding(all) \ {c}
      BY OneSide
    <2> QED  BY <1>1, <2>1, Zenon
  <1>4. ASSUME NEW p PROVE HoldingOf(With(all, c, s), p) = HoldingOf(all, p)
    <2>1. HoldingOf(With(all, c, s), p) =
              IF PeerOf[c] # p THEN HoldingOf(all, p)
              ELSE IF Holds(s) THEN HoldingOf(all, p) \cup {c} ELSE HoldingOf(all, p) \ {c}
      BY OneSide
    <2>2. c \in HoldingOf(all, p) <=> PeerOf[c] = p /\ Holds(s)
      BY <1>2, Zenon
    <2> QED  BY <2>1, <2>2, Zenon
  <1> QED  BY <1>3, <1>4, Zenon

\* The charge follows the early bytes.
LEMMA ChargeFollows ==
    ASSUME NEW all \in [Calls -> ServerState], NEW c \in Calls, NEW s \in ServerState
    PROVE  Cardinality(Charged(With(all, c, s))) = Cardinality(Charged(all)) - all[c].charge + s.charge
  <1>1. Charged(all) \subseteq Calls /\ (c \in Charged(all) <=> all[c].charge = 1)
    BY Zenon DEF Charged
  <1>2. all[c].charge \in {0, 1} /\ s.charge \in {0, 1}
    BY Zenon DEF ServerState
  <1>3. Charged(With(all, c, s)) = IF s.charge = 1 THEN Charged(all) \cup {c} ELSE Charged(all) \ {c}
    BY OneSide
  <1>4. Cardinality(Charged(all)) \in Nat
    BY <1>1, Counted, Zenon
  <1>5. CASE all[c].charge = s.charge
    <2>1. Charged(With(all, c, s)) = Charged(all)
      BY <1>1, <1>2, <1>3, <1>5, Zenon
    <2> QED  BY <2>1, <1>2, <1>4, <1>5
  <1>6. CASE all[c].charge = 0 /\ s.charge = 1
    <2>1. Cardinality(Charged(With(all, c, s))) = Cardinality(Charged(all)) + 1
      <3>1. c \notin Charged(all) /\ Charged(With(all, c, s)) = Charged(all) \cup {c}
        BY <1>1, <1>3, <1>6
      <3> QED  BY <1>1, <3>1, CountMore, Zenon
    <2> QED  BY <2>1, <1>4, <1>6
  <1>7. CASE all[c].charge = 1 /\ s.charge = 0
    <2>1. Cardinality(Charged(With(all, c, s))) = Cardinality(Charged(all)) - 1
      <3>1. c \in Charged(all) /\ Charged(With(all, c, s)) = Charged(all) \ {c}
        BY <1>1, <1>3, <1>7
      <3> QED  BY <1>1, <3>1, CountLess, Zenon
    <2> QED  BY <2>1, <1>4, <1>7
  <1> QED  BY <1>2, <1>5, <1>6, <1>7, Zenon

\* A link that differs at most in whether its connection is still open.
SameLink(k, l) ==
    /\ k.handshake = l.handshake /\ k.zero_rtt = l.zero_rtt
    /\ k.up = l.up /\ k.down = l.down
    /\ k.open => l.open

\* What a step of the server leaves when it makes a call's side s and its link l.
ServerMoved(c, s, l) ==
    /\ server' = With(server, c, s)
    /\ \A d \in Calls : Sound(server'[d])
    /\ server' \in [Calls -> ServerState]
    /\ active' \in Nat /\ per_peer' \in [Peers -> Nat] /\ reserved' \in Nat
    /\ Budgets(server, active, per_peer, reserved)'
    /\ \E k \in LinkState : SameLink(k, l) /\ link' = [link EXCEPT ![c] = k]

\* Sound sides stay sound when the one that changes is.
LEMMA SoundWith ==
    ASSUME PermitInv, NEW c \in Calls, NEW s \in ServerState, Sound(s)
    PROVE  /\ With(server, c, s) \in [Calls -> ServerState]
           /\ \A d \in Calls : Sound(With(server, c, s)[d])
  <1>1. server \in [Calls -> ServerState] /\ \A d \in Calls : Sound(server[d])
    BY Zenon DEF PermitInv, AdmissionTyped
  <1>2. \A d \in Calls : With(server, c, s)[d] = IF d = c THEN s ELSE server[d]
    BY <1>1, Zenon DEF With
  <1>3. With(server, c, s) \in [Calls -> ServerState]
    BY <1>1, Zenon DEF With
  <1> QED  BY <1>1, <1>2, <1>3, Zenon

\* Becomes: a permit no one holds any more leaves the counts with the step that drops
\* it, and early bytes are charged as they come and go.
LEMMA BecomesKeeps ==
    ASSUME PermitInv, NEW c \in Calls, NEW s \in ServerState, NEW l \in LinkState,
           Becomes(c, s, l), profile' = profile, Sound(s),
           Holds(s) => Holds(server[c]),
           s.charge = 1 /\ server[c].charge = 0 => reserved # EarlyLimit
    PROVE  ServerMoved(c, s, l)
  <1> USE AdmissionAssumption
  <1>1. /\ server \in [Calls -> ServerState] /\ link \in [Calls -> LinkState]
        /\ active \in Nat /\ per_peer \in [Peers -> Nat] /\ reserved \in Nat
        /\ PeerOf[c] \in Peers
    BY Zenon DEF PermitInv, AdmissionTyped, Peers
  <1>2. /\ active = Cardinality(Holding(server)) /\ active <= max_active
        /\ \A p \in Peers : per_peer[p] = Cardinality(HoldingOf(server, p)) /\ per_peer[p] <= profile.max_per_peer
        /\ reserved = Cardinality(Charged(server)) /\ reserved <= EarlyLimit
    BY Zenon DEF PermitInv, Budgets
  <1>3. server' = With(server, c, s) /\ reserved' = reserved - server[c].charge + s.charge
    BY Zenon DEF Becomes, With
  <1>4. /\ server' \in [Calls -> ServerState]
        /\ \A d \in Calls : Sound(server'[d])
    BY <1>3, SoundWith, Zenon
  <1>5. reserved' = Cardinality(Charged(server')) /\ reserved' \in Nat /\ reserved' <= EarlyLimit
    <2>1. reserved' = Cardinality(Charged(server'))
      BY <1>1, <1>2, <1>3, ChargeFollows, Zenon
    <2>2. Charged(server') \subseteq Calls
      BY Zenon DEF Charged
    <2>3. reserved' \in Nat
      BY <2>1, <2>2, Counted, Zenon
    <2>4. server[c].charge \in {0, 1} /\ s.charge \in {0, 1}
      BY <1>1, Zenon DEF ServerState
    <2>5. reserved' <= EarlyLimit
      BY <1>1, <1>2, <1>3, <2>3, <2>4
    <2> QED  BY <2>1, <2>3, <2>5, Zenon
  <1>6. /\ active' = Cardinality(Holding(server')) /\ active' \in Nat /\ active' <= max_active
        /\ per_peer' \in [Peers -> Nat]
        /\ \A p \in Peers : /\ per_peer'[p] = Cardinality(HoldingOf(server', p))
                            /\ per_peer'[p] <= profile.max_per_peer
    <2>1. CASE Holds(server[c]) /\ ~Holds(s)
      <3>1. Released(c)
        BY <2>1, Zenon DEF Becomes
      <3>2. /\ Cardinality(Holding(server')) = Cardinality(Holding(server)) - 1
            /\ \A p : Cardinality(HoldingOf(server', p)) =
                   IF PeerOf[c] = p THEN Cardinality(HoldingOf(server, p)) - 1
                   ELSE Cardinality(HoldingOf(server, p))
        BY <1>1, <1>3, <2>1, PermitDropped
      <3>3. Cardinality(Holding(server')) \in Nat
        BY Counted, Zenon DEF Holding
      <3>4. \A p : Cardinality(HoldingOf(server', p)) \in Nat
        BY Counted, Zenon DEF HoldingOf
      <3>5. active' = active - 1 /\ active' \in Nat
        BY <1>1, <1>2, <3>1, <3>2, <3>3 DEF Released
      <3>6. per_peer[PeerOf[c]] # 0
        BY <1>1, <1>2, <3>2, <3>4
      <3>7. \A p \in Peers : per_peer'[p] = IF PeerOf[c] = p THEN per_peer[p] - 1 ELSE per_peer[p]
        BY <1>1, <3>1, <3>6, Zenon DEF Released
      <3>8. per_peer' \in [Peers -> Nat]
        BY <1>1, <3>1, <3>6 DEF Released
      <3>9. profile.max_per_peer \in Nat /\ max_active \in Nat
        BY DEF PermitInv, AdmissionTyped
      <3>10. active' = Cardinality(Holding(server')) /\ active' <= max_active
        BY <1>1, <1>2, <3>2, <3>5, <3>9
      <3>11. ASSUME NEW p \in Peers
             PROVE  /\ per_peer'[p] = Cardinality(HoldingOf(server', p))
                    /\ per_peer'[p] <= profile.max_per_peer
        <4>1. per_peer[p] \in Nat /\ per_peer[p] = Cardinality(HoldingOf(server, p)) /\ per_peer[p] <= profile.max_per_peer
          BY <1>1, <1>2, Zenon
        <4>2. per_peer'[p] = IF PeerOf[c] = p THEN per_peer[p] - 1 ELSE per_peer[p]
          BY <3>7, Zenon
        <4> QED  BY <4>1, <4>2, <3>2, <3>9
      <3> QED  BY <3>5, <3>8, <3>10, <3>11, Zenon
    <2>2. CASE ~(Holds(server[c]) /\ ~Holds(s))
      <3>1. UNCHANGED budget
        BY <2>2, Zenon DEF Becomes
      <3>2. Holding(server') = Holding(server) /\ \A p : HoldingOf(server', p) = HoldingOf(server, p)
        BY <1>1, <1>3, <2>2, PermitKept, Zenon
      <3> QED  BY <1>1, <1>2, <3>1, <3>2, Zenon DEF budget
    <2> QED  BY <2>1, <2>2, Zenon
  <1>7. \E k \in LinkState : SameLink(k, l) /\ link' = [link EXCEPT ![c] = k]
    <2> DEFINE shut == [l EXCEPT !.open = @ /\ s.flow = "detached"]
    <2>1. shut \in LinkState /\ SameLink(shut, l) /\ SameLink(l, l)
      BY Zenon DEF LinkState, SameLink
    <2>2. link' = [link EXCEPT ![c] = shut] \/ link' = [link EXCEPT ![c] = l]
      BY Zenon DEF Becomes
    <2> QED  BY <2>1, <2>2, Zenon
  <1>8. Budgets(server, active, per_peer, reserved)'
    BY <1>5, <1>6, Zenon DEF Budgets, Holding, HoldingOf, Charged
  <1> QED  BY <1>3, <1>4, <1>5, <1>6, <1>7, <1>8, Zenon DEF ServerMoved

-----------------------------------------------------------------------------
(***************************************************************************)
(* That the bytes of a call reach the application at most once.  What went *)
(* with the early open and what goes after the status are told apart by    *)
(* the verdict on the early data, which never changes once the server has  *)
(* seen the call.                                                          *)
(***************************************************************************)
\* Before the server has seen the call.
Unseen(C, L, S, x) ==
    /\ S.pc = "none" => x = 0 /\ L.zero_rtt \in {"none", "offered"}
                        /\ L.handshake = "pending" /\ L.down = "none"
    /\ C.pc = "idle" => /\ S.pc = "none" /\ C.result = "none"
                        /\ ~L.open /\ L.up = "none" /\ L.zero_rtt = "none"
    /\ C.pc = "verdict" => C.result # "none"
    /\ L.zero_rtt = "offered" =>
           S.pc \in {"none", "refused", "gone"} /\ L.handshake = "pending" /\ x = 0 /\ L.down = "none"
           /\ C.pc \in {"early", "verdict", "failed"} /\ C.result # "ok" /\ L.up = "early"

\* The bytes went with the early open.
EarlyBytes(C, L, S, x) ==
    /\ C.pc \in {"early", "verdict", "done", "failed"}
    /\ L.up \in {"none", "early"}
    /\ IF x = 0
       THEN /\ S.flow \in {"none", "checking"} /\ L.down # "ok" /\ C.result # "ok" /\ C.pc # "done"
            /\ S.flow = "checking" => L.up = "none"
       ELSE x = 1 /\ L.up = "none" /\ (S.pc = "gone" \/ S.flow \notin {"none", "checking"})

\* The bytes go after the status.
LateBytes(C, L, S, x) ==
    /\ L.up # "early" /\ S.flow # "checking"
    /\ L.up = "data" => C.pc = "done" /\ x = 0
    /\ x # 0 => x = 1 /\ C.pc = "done" /\ L.up = "none"

Delivers(C, L, S, x, refused) ==
    /\ Unseen(C, L, S, x)
    /\ L.zero_rtt = "accepted" => EarlyBytes(C, L, S, x)
    /\ L.zero_rtt \in {"none", "rejected"} => LateBytes(C, L, S, x)
    /\ refused => L.zero_rtt = "accepted" /\ L.up = "none" /\ x = 0 /\ S.flow = "none"

Delivered(c) == Delivers(call[c], link[c], server[c], exposed[c], c \in denied)

AdmissionInv == ReplayInvariant /\ PermitInv /\ \A c \in Calls : Delivered(c)

\* What the application was given is what DeliveredOnce allows.
LEMMA DeliveredMeans == AdmissionInv => DeliveredOnce
  <1> SUFFICES ASSUME AdmissionInv, NEW c \in Calls
               PROVE  /\ exposed[c] <= IF c \in denied THEN 0 ELSE 1
                      /\ call[c].pc = "done" /\ link[c].zero_rtt = "accepted" => exposed[c] = 1
    BY Zenon DEF DeliveredOnce
  <1>1. exposed[c] \in Nat /\ link[c] \in LinkState
    BY Zenon DEF AdmissionInv, PermitInv, AdmissionTyped
  <1>2. Delivered(c)
    BY Zenon DEF AdmissionInv
  <1> QED  BY <1>1, <1>2 DEF Delivered, Delivers, Unseen, EarlyBytes, LateBytes, LinkState

\* A step of one call leaves the others as they are.
LEMMA OthersKeep ==
    ASSUME \A d \in Calls : Delivered(d), NEW c \in Calls,
           \A d \in Calls \ {c} : /\ call'[d] = call[d] /\ link'[d] = link[d]
                                  /\ server'[d] = server[d] /\ exposed'[d] = exposed[d]
                                  /\ d \in denied' <=> d \in denied,
           Delivered(c)'
    PROVE  \A d \in Calls : Delivered(d)'
  <1> SUFFICES ASSUME NEW d \in Calls, d # c PROVE Delivered(d)'
    BY Zenon
  <1>1. /\ call'[d] = call[d] /\ link'[d] = link[d] /\ server'[d] = server[d]
        /\ exposed'[d] = exposed[d] /\ (d \in denied' <=> d \in denied)
    BY Zenon
  <1>2. Delivered(d)
    BY Zenon
  <1> QED  BY <1>1, <1>2 DEF Delivered, Delivers, Unseen, EarlyBytes, LateBytes

\* A step of the client or of the transport: a call and its link change.
LEMMA ClientKeeps ==
    ASSUME AdmissionInv, NEW c \in Calls, NEW C \in CallState, NEW l \in LinkState,
           call' = [call EXCEPT ![c] = C], link' = [link EXCEPT ![c] = l],
           UNCHANGED ClientOnly,
           Delivers(C, l, server[c], exposed[c], c \in denied)
    PROVE  AdmissionInv'
  <1>1. /\ UNCHANGED replayVars /\ profile' = profile /\ server' = server
        /\ active' = active /\ per_peer' = per_peer /\ reserved' = reserved
        /\ exposed' = exposed /\ denied' = denied
    BY Zenon DEF ClientOnly, budget, history
  <1>2. ReplayInvariant'
    BY <1>1, ReplayStep, Zenon DEF AdmissionInv
  <1>3. AdmissionTyped
    BY Zenon DEF AdmissionInv, PermitInv
  <1>4. call' \in [Calls -> CallState] /\ link' \in [Calls -> LinkState]
    BY <1>3, Zenon DEF AdmissionTyped
  <1>5. AdmissionTyped'
    BY <1>1, <1>3, <1>4, Zenon DEF AdmissionTyped
  <1>6. PermitInv'
    BY <1>1, <1>5, Zenon DEF AdmissionInv, PermitInv, Budgets, Holding, HoldingOf, Charged
  <1>7. \A d \in Calls \ {c} : call'[d] = call[d] /\ link'[d] = link[d]
    BY <1>3, Zenon DEF AdmissionTyped
  <1>8. call'[c] = C /\ link'[c] = l
    BY <1>3, Zenon DEF AdmissionTyped
  <1>9. Delivered(c)'
    BY <1>1, <1>8, Zenon DEF Delivered
  <1>10. \A d \in Calls : Delivered(d)'
    BY <1>1, <1>7, <1>9, OthersKeep, Zenon DEF AdmissionInv
  <1> QED  BY <1>2, <1>6, <1>10, Zenon DEF AdmissionInv

\* A step of the server: a side and its link change, and perhaps what was exposed.
LEMMA ServerKeeps ==
    ASSUME AdmissionInv, NEW c \in Calls, NEW s \in ServerState, NEW l \in LinkState,
           ServerMoved(c, s, l), ReplayInvariant', profile' = profile, call' = call,
           NEW x \in Nat, exposed' = [exposed EXCEPT ![c] = x],
           denied' \in SUBSET Calls, \A d \in Calls \ {c} : d \in denied' <=> d \in denied,
           \A k \in LinkState : SameLink(k, l) => Delivers(call[c], k, s, x, c \in denied')
    PROVE  AdmissionInv'
  <1>1. AdmissionTyped
    BY Zenon DEF AdmissionInv, PermitInv
  <1>2. PICK k \in LinkState : SameLink(k, l) /\ link' = [link EXCEPT ![c] = k]
    BY Zenon DEF ServerMoved
  <1>3. /\ server' \in [Calls -> ServerState] /\ server' = With(server, c, s)
        /\ active' \in Nat /\ per_peer' \in [Peers -> Nat] /\ reserved' \in Nat
        /\ \A d \in Calls : Sound(server'[d])
        /\ Budgets(server, active, per_peer, reserved)'
    BY Zenon DEF ServerMoved
  <1>4. link' \in [Calls -> LinkState] /\ exposed' \in [Calls -> Nat]
    BY <1>1, <1>2, Zenon DEF AdmissionTyped
  <1>5. AdmissionTyped'
    BY <1>1, <1>3, <1>4, Zenon DEF AdmissionTyped
  <1>6. PermitInv'
    BY <1>3, <1>5, Zenon DEF PermitInv
  <1>7. \A d \in Calls \ {c} : link'[d] = link[d] /\ server'[d] = server[d] /\ exposed'[d] = exposed[d]
    BY <1>1, <1>2, <1>3, Zenon DEF AdmissionTyped, With
  <1>8. link'[c] = k /\ server'[c] = s /\ exposed'[c] = x
    BY <1>1, <1>2, <1>3, Zenon DEF AdmissionTyped, With
  <1>9. Delivers(call[c], k, s, x, c \in denied')
    BY <1>2, Zenon
  <1>10. Delivered(c)'
    BY <1>8, <1>9, Zenon DEF Delivered
  <1>11. \A d \in Calls : Delivered(d)'
    BY <1>7, <1>10, OthersKeep, Zenon DEF AdmissionInv
  <1> QED  BY <1>6, <1>11, Zenon DEF AdmissionInv

\* The call, its link and its side, as the invariant has them.
LEMMA CallFacts ==
    ASSUME AdmissionInv, NEW c \in Calls
    PROVE  /\ call[c] \in CallState /\ link[c] \in LinkState /\ server[c] \in ServerState
           /\ exposed[c] \in Nat /\ Sound(server[c])
           /\ Delivers(call[c], link[c], server[c], exposed[c], c \in denied)
  <1>1. AdmissionTyped
    BY Zenon DEF AdmissionInv, PermitInv
  <1>2. call[c] \in CallState /\ link[c] \in LinkState /\ server[c] \in ServerState /\ exposed[c] \in Nat
    BY <1>1, Zenon DEF AdmissionTyped
  <1>3. Sound(server[c])
    BY Zenon DEF AdmissionInv, PermitInv
  <1>4. Delivered(c)
    BY Zenon DEF AdmissionInv
  <1> QED  BY <1>2, <1>3, <1>4, Zenon DEF Delivered

\* Moves: the call and its link, and nothing of the server.
LEMMA MovesKeeps ==
    ASSUME AdmissionInv, NEW c \in Calls, NEW pc, NEW l \in LinkState, Moves(c, pc, l),
           pc \in {"idle", "early", "connecting", "verdict", "open", "done", "failed"},
           Delivers([call[c] EXCEPT !.pc = pc, !.result = "none"], l, server[c], exposed[c], c \in denied)
    PROVE  AdmissionInv'
  <1> DEFINE C == [call[c] EXCEPT !.pc = pc, !.result = "none"]
  <1>1. call \in [Calls -> CallState] /\ call[c] \in CallState
    BY Zenon DEF AdmissionInv, PermitInv, AdmissionTyped
  <1>2. C \in CallState
    BY <1>1, Zenon DEF CallState
  <1>3. call' = [call EXCEPT ![c] = C]
    BY <1>1, Zenon DEF Moves
  <1> QED  BY <1>2, <1>3, ClientKeeps, Zenon DEF Moves

\* A call that fails has not sent its bytes after a status.
LEMMA FailsKeeps ==
    ASSUME AdmissionInv, NEW c \in Calls, Fails(c), call[c].pc \notin {"idle", "done"}
    PROVE  AdmissionInv'
  <1> DEFINE l == [link[c] EXCEPT !.open = FALSE, !.down = "none"]
             C == [call[c] EXCEPT !.pc = "failed", !.result = "none"]
  <1>1. /\ call[c] \in CallState /\ link[c] \in LinkState /\ exposed[c] \in Nat
        /\ Delivers(call[c], link[c], server[c], exposed[c], c \in denied)
    BY CallFacts, Zenon
  <1>2. l \in LinkState /\ l.open = FALSE /\ l.down = "none" /\ l.handshake = link[c].handshake
        /\ l.zero_rtt = link[c].zero_rtt /\ l.up = link[c].up
    BY <1>1, Zenon DEF LinkState
  <1>3. C.pc = "failed" /\ C.result = "none"
    BY <1>1, Zenon DEF CallState
  <1>4. Delivers(C, l, server[c], exposed[c], c \in denied)
    <2> HIDE DEF C, l
    <2> QED  BY <1>1, <1>2, <1>3, Zenon DEF Delivers, Unseen, EarlyBytes, LateBytes
  <1> QED  BY <1>2, <1>4, MovesKeeps, Zenon DEF Fails

\* connect_replay_safe and connect send the early bytes, or none.
LEMMA ConnectKeeps ==
    ASSUME AdmissionInv, NEW c \in Calls, NEW early \in BOOLEAN, Connect(c, early)
    PROVE  AdmissionInv'
  <1>1. PICK token \in IF early THEN tokens ELSE {NoToken}, nonce \in Nonces :
            call' = [call EXCEPT ![c] = [@ EXCEPT !.pc = IF early THEN "early" ELSE "connecting",
                                                  !.token = token, !.nonce = nonce]]
    BY Zenon DEF Connect
  <1> DEFINE C == [call[c] EXCEPT !.pc = IF early THEN "early" ELSE "connecting",
                                  !.token = token, !.nonce = nonce]
             l == [link[c] EXCEPT !.open = TRUE, !.zero_rtt = IF early THEN "offered" ELSE "none",
                                  !.up = IF early THEN "early" ELSE "none"]
  <1>2. /\ call[c] \in CallState /\ link[c] \in LinkState /\ exposed[c] \in Nat
        /\ Delivers(call[c], link[c], server[c], exposed[c], c \in denied) /\ Sound(server[c])
    BY CallFacts, Zenon
  <1>3. token \in Tokens \cup {NoToken}
    BY Zenon DEF AdmissionInv, ReplayInvariant, ReplayTypeOK
  <1>4. C \in CallState /\ l \in LinkState
    BY <1>2, <1>3, Zenon DEF CallState, LinkState
  <1>5. /\ call[c].pc = "idle" /\ C.result = call[c].result
        /\ C.pc = IF early THEN "early" ELSE "connecting"
        /\ l.zero_rtt = IF early THEN "offered" ELSE "none"
        /\ l.up = IF early THEN "early" ELSE "none"
        /\ l.open = TRUE /\ l.handshake = link[c].handshake /\ l.down = link[c].down
    BY <1>2, Zenon DEF Connect, CallState, LinkState
  <1>6. call[c].result # "ok"
    BY <1>2, <1>5, Zenon DEF Delivers, Unseen
  <1>7. Delivers(C, l, server[c], exposed[c], c \in denied)
    <2> HIDE DEF C, l
    <2> QED  BY <1>2, <1>5, <1>6, Zenon DEF Delivers, Unseen, EarlyBytes, LateBytes, Sound
  <1>8. call' = [call EXCEPT ![c] = C] /\ link' = [link EXCEPT ![c] = l] /\ UNCHANGED ClientOnly
    BY <1>1, Zenon DEF Connect
  <1> QED  BY <1>4, <1>7, <1>8, ClientKeeps, Zenon

\* The early open ends with a status only for bytes the application has.
LEMMA EarlyEndsKeeps ==
    ASSUME AdmissionInv, NEW c \in Calls, EarlyEnds(c)
    PROVE  AdmissionInv'
  <1> DEFINE C == [call[c] EXCEPT !.pc = "verdict",
                                  !.result = IF link[c].down = "ok" THEN "ok" ELSE "error"]
             l == [link[c] EXCEPT !.down = "none"]
  <1>1. /\ call[c] \in CallState /\ link[c] \in LinkState /\ exposed[c] \in Nat
        /\ Delivers(call[c], link[c], server[c], exposed[c], c \in denied)
    BY CallFacts, Zenon
  <1>2. C \in CallState /\ l \in LinkState
    BY <1>1, Zenon DEF CallState, LinkState
  <1>3. /\ call[c].pc = "early" /\ C.pc = "verdict"
        /\ C.result = IF link[c].down = "ok" THEN "ok" ELSE "error"
        /\ l.down = "none" /\ l.zero_rtt = link[c].zero_rtt /\ l.up = link[c].up
        /\ l.open = link[c].open /\ l.handshake = link[c].handshake
    BY <1>1, Zenon DEF EarlyEnds, CallState, LinkState
  <1>4. Delivers(C, l, server[c], exposed[c], c \in denied)
    <2> HIDE DEF C, l
    <2> QED  BY <1>1, <1>3, Zenon DEF Delivers, Unseen, EarlyBytes, LateBytes
  <1>5. call \in [Calls -> CallState] /\ link \in [Calls -> LinkState]
    BY Zenon DEF AdmissionInv, PermitInv, AdmissionTyped
  <1>6. call' = [call EXCEPT ![c] = C] /\ link' = [link EXCEPT ![c] = l] /\ UNCHANGED ClientOnly
    BY <1>5, Zenon DEF EarlyEnds
  <1> QED  BY <1>2, <1>4, <1>6, ClientKeeps, Zenon

\* A call gets a flow made early only for bytes the application has, and opens an
\* ordinary one only where the early data were not accepted.
LEMMA BackupKeeps ==
    ASSUME AdmissionInv, NEW c \in Calls, NEW installed \in BOOLEAN, NEW has_flow \in BOOLEAN,
           BackupInstalled(c, installed, has_flow),
           call[c].pc \in {"verdict", "connecting"}, link[c].handshake # "pending",
           has_flow => link[c].zero_rtt = "accepted" /\ call[c].result = "ok",
           ~has_flow => link[c].zero_rtt # "accepted"
    PROVE  AdmissionInv'
  <1>1. /\ call[c] \in CallState /\ link[c] \in LinkState /\ exposed[c] \in Nat
        /\ Delivers(call[c], link[c], server[c], exposed[c], c \in denied)
    BY CallFacts, Zenon
  <1>2. CASE ~installed
    BY <1>2, FailsKeeps, Zenon DEF BackupInstalled
  <1>3. CASE installed /\ has_flow
    <2> DEFINE C == [call[c] EXCEPT !.pc = "done", !.result = "none"]
    <2>1. C.pc = "done" /\ C.result = "none"
      BY <1>1, Zenon DEF CallState
    <2>2. Delivers(C, link[c], server[c], exposed[c], c \in denied)
      <3> HIDE DEF C
      <3> QED  BY <1>1, <1>3, <2>1, Zenon DEF Delivers, Unseen, EarlyBytes, LateBytes
    <2>3. Moves(c, "done", link[c])
      BY <1>3, Zenon DEF BackupInstalled
    <2> QED  BY <1>1, <2>2, <2>3, MovesKeeps, Zenon
  <1>4. CASE installed /\ ~has_flow
    <2> DEFINE C == [call[c] EXCEPT !.pc = "open", !.result = "none"]
               l == [link[c] EXCEPT !.up = "open"]
    <2>1. C.pc = "open" /\ C.result = "none"
      BY <1>1, Zenon DEF CallState
    <2>2. /\ l \in LinkState /\ l.up = "open" /\ l.zero_rtt = link[c].zero_rtt
          /\ l.open = link[c].open /\ l.handshake = link[c].handshake /\ l.down = link[c].down
      BY <1>1, Zenon DEF LinkState
    <2>3. Delivers(C, l, server[c], exposed[c], c \in denied)
      <3> HIDE DEF C, l
      <3> QED  BY <1>1, <1>4, <2>1, <2>2, Zenon DEF Delivers, Unseen, EarlyBytes, LateBytes
    <2>4. Moves(c, "open", l)
      BY <1>4, Zenon DEF BackupInstalled
    <2> QED  BY <2>2, <2>3, <2>4, MovesKeeps, Zenon
  <1> QED  BY <1>2, <1>3, <1>4, Zenon

\* The verdict on the early data, and the end of an ordinary handshake.
LEMMA VerdictKeeps ==
    ASSUME AdmissionInv, NEW c \in Calls, NEW installed \in BOOLEAN,
           Accepted(c, installed) \/ Connected(c, installed)
    PROVE  AdmissionInv'
  <1>1. /\ call[c] \in CallState /\ link[c] \in LinkState
        /\ Delivers(call[c], link[c], server[c], exposed[c], c \in denied)
    BY CallFacts, Zenon
  <1>2. CASE Connected(c, installed)
    <2>1. link[c].zero_rtt # "accepted"
      BY <1>1, <1>2, Zenon DEF Connected, Delivers, EarlyBytes
    <2> QED  BY <1>2, <2>1, BackupKeeps, Zenon DEF Connected
  <1>3. CASE Accepted(c, installed) /\ link[c].zero_rtt = "accepted" /\ call[c].result = "error"
    BY <1>3, FailsKeeps, Zenon DEF Accepted
  <1>4. CASE Accepted(c, installed) /\ link[c].zero_rtt = "accepted" /\ call[c].result # "error"
    <2>1. call[c].result = "ok"
      BY <1>1, <1>4, Zenon DEF Accepted, Delivers, Unseen, EarlyBytes, CallState
    <2> QED  BY <1>4, <2>1, BackupKeeps, Zenon DEF Accepted
  <1>5. CASE Accepted(c, installed) /\ link[c].zero_rtt # "accepted"
    BY <1>5, BackupKeeps, Zenon DEF Accepted
  <1> QED  BY <1>2, <1>3, <1>4, <1>5, Zenon

\* The status is read, and the bytes go once.
LEMMA OpenedKeeps ==
    ASSUME AdmissionInv, NEW c \in Calls, Opened(c) \/ Aborted(c)
    PROVE  AdmissionInv'
  <1>1. /\ call[c] \in CallState /\ link[c] \in LinkState /\ exposed[c] \in Nat
        /\ Delivers(call[c], link[c], server[c], exposed[c], c \in denied)
    BY CallFacts, Zenon
  <1>2. CASE Aborted(c)
    BY <1>2, FailsKeeps, Zenon DEF Aborted
  <1>3. CASE Opened(c) /\ link[c].down # "ok"
    BY <1>3, FailsKeeps, Zenon DEF Opened
  <1>4. CASE Opened(c) /\ link[c].down = "ok"
    <2> DEFINE C == [call[c] EXCEPT !.pc = "done", !.result = "none"]
               l == [link[c] EXCEPT !.up = "data", !.down = "none"]
    <2>1. C.pc = "done" /\ C.result = "none" /\ call[c].pc = "open"
      BY <1>1, <1>4, Zenon DEF Opened, CallState
    <2>2. /\ l \in LinkState /\ l.up = "data" /\ l.zero_rtt = link[c].zero_rtt
          /\ l.open = link[c].open /\ l.handshake = link[c].handshake /\ l.down = "none"
      BY <1>1, Zenon DEF LinkState
    <2>3. Delivers(C, l, server[c], exposed[c], c \in denied)
      <3> HIDE DEF C, l
      <3> QED  BY <1>1, <2>1, <2>2, Zenon DEF Delivers, Unseen, EarlyBytes, LateBytes
    <2>4. Moves(c, "done", l)
      BY <1>4, Zenon DEF Opened
    <2> QED  BY <2>2, <2>3, <2>4, MovesKeeps, Zenon
  <1> QED  BY <1>2, <1>3, <1>4, Zenon

\* The transport's steps carry nothing.
LEMMA TransportKeeps ==
    ASSUME AdmissionInv, NEW c \in Calls, Handshake(c) \/ Lost(c)
    PROVE  AdmissionInv'
  <1>1. /\ call[c] \in CallState /\ link[c] \in LinkState /\ exposed[c] \in Nat
        /\ Delivers(call[c], link[c], server[c], exposed[c], c \in denied)
    BY CallFacts, Zenon
  <1>2. call \in [Calls -> CallState] /\ link \in [Calls -> LinkState]
    BY Zenon DEF AdmissionInv, PermitInv, AdmissionTyped
  <1>3. call' = [call EXCEPT ![c] = call[c]] /\ UNCHANGED ClientOnly
    BY <1>2, Zenon DEF Handshake, Lost, TransportOnly, ClientOnly
  <1>4. CASE Handshake(c)
    <2> DEFINE l == [link[c] EXCEPT !.handshake = IF @ = "pending" THEN "client" ELSE "both"]
    <2>1. /\ l \in LinkState /\ l.up = link[c].up /\ l.zero_rtt = link[c].zero_rtt
          /\ l.open = link[c].open /\ l.down = link[c].down
      BY <1>1, Zenon DEF LinkState
    <2>2. link' = [link EXCEPT ![c] = l]
      BY <1>2, <1>4, Zenon DEF Handshake
    <2>3. Delivers(call[c], l, server[c], exposed[c], c \in denied)
      <3> HIDE DEF l
      <3> QED  BY <1>1, <1>4, <2>1, Zenon DEF Handshake, Delivers, Unseen, EarlyBytes, LateBytes
    <2> QED  BY <1>1, <1>3, <2>1, <2>2, <2>3, ClientKeeps, Zenon
  <1>5. CASE Lost(c)
    <2> DEFINE l == [link[c] EXCEPT !.open = FALSE]
    <2>1. /\ l \in LinkState /\ l.up = link[c].up /\ l.zero_rtt = link[c].zero_rtt
          /\ ~l.open /\ l.down = link[c].down /\ l.handshake = link[c].handshake
      BY <1>1, Zenon DEF LinkState
    <2>2. link' = [link EXCEPT ![c] = l]
      BY <1>2, <1>5, Zenon DEF Lost
    <2>3. Delivers(call[c], l, server[c], exposed[c], c \in denied)
      <3> HIDE DEF l
      <3> QED  BY <1>1, <2>1, Zenon DEF Delivers, Unseen, EarlyBytes, LateBytes
    <2> QED  BY <1>1, <1>3, <2>1, <2>2, <2>3, ClientKeeps, Zenon
  <1> QED  BY <1>4, <1>5, Zenon

\* A step of the server that gives the application nothing.
LEMMA QuietKeeps ==
    ASSUME AdmissionInv, NEW c \in Calls, NEW s \in ServerState, NEW l \in LinkState,
           Becomes(c, s, l), ReplayInvariant', UNCHANGED <<profile, call, exposed>>,
           denied' = denied \/ denied' = denied \cup {c},
           Sound(s), Holds(s) => Holds(server[c]),
           s.charge = 1 /\ server[c].charge = 0 => reserved # EarlyLimit,
           \A k \in LinkState : SameLink(k, l) => Delivers(call[c], k, s, exposed[c], c \in denied')
    PROVE  AdmissionInv'
  <1>1. exposed \in [Calls -> Nat] /\ denied \in SUBSET Calls
    BY Zenon DEF AdmissionInv, PermitInv, AdmissionTyped
  <1>2. exposed' = [exposed EXCEPT ![c] = exposed[c]] /\ exposed[c] \in Nat
    BY <1>1, Zenon
  <1>3. denied' \in SUBSET Calls /\ \A d \in Calls \ {c} : d \in denied' <=> d \in denied
    BY <1>1, Zenon
  <1>4. ServerMoved(c, s, l)
    BY BecomesKeeps, Zenon DEF AdmissionInv
  <1> QED  BY <1>2, <1>3, <1>4, ServerKeeps, Zenon

\* The cache is left alone.
LEMMA CacheKept == AdmissionInv /\ UNCHANGED replayVars => ReplayInvariant'
BY ReplayStep, Zenon DEF AdmissionInv

\* incoming.await ends, or is dropped with the permit.
LEMMA HandshakeEndsKeeps ==
    ASSUME AdmissionInv, NEW c \in Calls, HandshakeEnds(c)
    PROVE  AdmissionInv'
  <1>1. /\ call[c] \in CallState /\ link[c] \in LinkState /\ server[c] \in ServerState
        /\ exposed[c] \in Nat /\ Sound(server[c])
        /\ Delivers(call[c], link[c], server[c], exposed[c], c \in denied)
    BY CallFacts, Zenon
  <1>2. /\ ReplayInvariant' /\ UNCHANGED <<profile, call, exposed>> /\ denied' = denied
        /\ server[c].pc = "handshake"
    BY CacheKept, Zenon DEF HandshakeEnds, ServerOnly, history
  <1>3. server[c].flow = "none" /\ server[c].charge = 0
    BY <1>1, <1>2, Zenon DEF Sound, ServerState
  <1>4. CASE Becomes(c, [server[c] EXCEPT !.pc = "live"], link[c])
    <2> DEFINE s == [server[c] EXCEPT !.pc = "live"]
    <2>1. /\ s \in ServerState /\ s.pc = "live" /\ s.handle = server[c].handle
          /\ s.flow = server[c].flow /\ s.charge = server[c].charge
      BY <1>1, Zenon DEF ServerState
    <2>0. Becomes(c, s, link[c])
      BY <1>4, Zenon
    <2> HIDE DEF s
    <2>2. Sound(s)   /\ (Holds(s) => Holds(server[c]))
      BY <1>1, <1>3, <2>1, Zenon DEF Sound, Holds
    <2>3. ASSUME NEW k \in LinkState, SameLink(k, link[c])
          PROVE  Delivers(call[c], k, s, exposed[c], c \in denied')
      BY <1>1, <1>2, <1>3, <2>1, <2>3, Zenon DEF SameLink, Delivers, Unseen, EarlyBytes, LateBytes
    <2> QED  BY <1>1, <1>2, <1>3, <2>0, <2>1, <2>2, <2>3, QuietKeeps
  <1>5. CASE Becomes(c, [server[c] EXCEPT !.pc = "gone", !.handle = FALSE], link[c])
    <2> DEFINE s == [server[c] EXCEPT !.pc = "gone", !.handle = FALSE]
    <2>1. /\ s \in ServerState /\ s.pc = "gone" /\ s.handle = FALSE
          /\ s.flow = server[c].flow /\ s.charge = server[c].charge
      BY <1>1, Zenon DEF ServerState
    <2>0. Becomes(c, s, link[c])
      BY <1>5, Zenon
    <2> HIDE DEF s
    <2>2. Sound(s) /\ (Holds(s) => Holds(server[c]))
      BY <1>1, <1>3, <2>1, Zenon DEF Sound, Holds
    <2>3. ASSUME NEW k \in LinkState, SameLink(k, link[c])
          PROVE  Delivers(call[c], k, s, exposed[c], c \in denied')
      BY <1>1, <1>2, <1>3, <2>1, <2>3, Zenon DEF SameLink, Delivers, Unseen, EarlyBytes, LateBytes
    <2> QED  BY <1>1, <1>2, <1>3, <2>0, <2>1, <2>2, <2>3, QuietKeeps
  <1> QED  BY <1>4, <1>5, Zenon DEF HandshakeEnds

\* An open that is dropped leaves no flow, and refuses the early bytes it carried.
LEMMA DroppedKeeps ==
    ASSUME AdmissionInv, NEW c \in Calls, Becomes(c, server[c], Dropped(c)),
           ReplayInvariant', UNCHANGED <<profile, call, exposed>>,
           server[c].pc = "live", server[c].flow = "none", link[c].up \in {"open", "early"},
           denied' = IF Early(c) THEN denied \cup {c} ELSE denied
    PROVE  AdmissionInv'
  <1>1. /\ call[c] \in CallState /\ link[c] \in LinkState /\ server[c] \in ServerState
        /\ exposed[c] \in Nat /\ Sound(server[c])
        /\ Delivers(call[c], link[c], server[c], exposed[c], c \in denied)
    BY CallFacts, Zenon
  <1> DEFINE l == Dropped(c)
  <1>2. /\ l \in LinkState /\ l.up = "none" /\ l.down = "reset" /\ l.open = link[c].open
        /\ l.handshake = link[c].handshake /\ l.zero_rtt = link[c].zero_rtt
    BY <1>1, Zenon DEF LinkState, Dropped
  <1> HIDE DEF l
  <1>3. c \in denied' => link[c].up = "early"
    BY <1>1, Zenon DEF Early, Delivers
  <1>4. ASSUME NEW k \in LinkState, SameLink(k, l)
        PROVE  Delivers(call[c], k, server[c], exposed[c], c \in denied')
    BY <1>1, <1>2, <1>3, <1>4, Zenon DEF SameLink, Delivers, Unseen, EarlyBytes, LateBytes, LinkState
  <1>5. denied' = denied \/ denied' = denied \cup {c}
    BY Zenon
  <1> QED  BY <1>1, <1>2, <1>4, <1>5, QuietKeeps DEF l

\* An ordinary OPEN makes a flow, without bytes.
LEMMA PendingKeeps ==
    ASSUME AdmissionInv, NEW c \in Calls,
           Becomes(c, [server[c] EXCEPT !.flow = "pending"], [link[c] EXCEPT !.up = "none"]),
           ReplayInvariant', UNCHANGED <<profile, call, exposed>>, denied' = denied,
           server[c].pc = "live", server[c].handle, server[c].flow = "none", link[c].up = "open"
    PROVE  AdmissionInv'
  <1>1. /\ call[c] \in CallState /\ link[c] \in LinkState /\ server[c] \in ServerState
        /\ exposed[c] \in Nat /\ Sound(server[c])
        /\ Delivers(call[c], link[c], server[c], exposed[c], c \in denied)
    BY CallFacts, Zenon
  <1> DEFINE l == [link[c] EXCEPT !.up = "none"]
             s == [server[c] EXCEPT !.flow = "pending"]
  <1>2. /\ l \in LinkState /\ l.up = "none" /\ l.down = link[c].down /\ l.open = link[c].open
        /\ l.handshake = link[c].handshake /\ l.zero_rtt = link[c].zero_rtt
    BY <1>1, Zenon DEF LinkState
  <1>3. /\ s \in ServerState /\ s.pc = "live" /\ s.handle = server[c].handle
        /\ s.flow = "pending" /\ s.charge = server[c].charge
    BY <1>1, Zenon DEF ServerState
  <1>0. Becomes(c, s, l)
    BY Zenon
  <1> HIDE DEF l, s
  <1>4. Sound(s) /\ (Holds(s) => Holds(server[c]))
    BY <1>1, <1>3, Zenon DEF Sound, Holds
  <1>5. ASSUME NEW k \in LinkState, SameLink(k, l)
        PROVE  Delivers(call[c], k, s, exposed[c], c \in denied')
    BY <1>1, <1>2, <1>3, <1>5, Zenon DEF SameLink, Delivers, Unseen, EarlyBytes, LateBytes
  <1> QED  BY <1>0, <1>1, <1>2, <1>3, <1>4, <1>5, QuietKeeps

\* accept_flow_backend
LEMMA AcceptFlowKeeps ==
    ASSUME AdmissionInv, NEW c \in Calls, AcceptFlow(c)
    PROVE  AdmissionInv'
  <1>1. /\ ReplayInvariant' /\ UNCHANGED <<profile, call, exposed>>
        /\ server[c].pc = "live" /\ server[c].handle /\ server[c].flow = "none"
        /\ link[c].up \in {"open", "early"}
        /\ denied' = IF Early(c) THEN denied \cup {c} ELSE denied
    BY CacheKept, Zenon DEF AcceptFlow
  <1>2. CASE ~Early(c) /\ negotiate_capabilities
    BY <1>1, <1>2, PendingKeeps, Zenon DEF AcceptFlow, Early
  <1>3. CASE ~(~Early(c) /\ negotiate_capabilities)
    BY <1>1, <1>3, DroppedKeeps, Zenon DEF AcceptFlow
  <1> QED  BY <1>2, <1>3, Zenon

\* accept_replay_safe_backend: the charge fits the budget before the bytes are kept.
LEMMA AcceptReplaySafeKeeps ==
    ASSUME AdmissionInv, NEW c \in Calls, AcceptReplaySafe(c)
    PROVE  AdmissionInv'
  <1> DEFINE refused == ~negotiate_capabilities \/ (Early(c) /\ Evident(c) /\ reserved = EarlyLimit)
  <1>1. /\ ReplayInvariant' /\ UNCHANGED <<profile, call, exposed>>
        /\ server[c].pc = "live" /\ server[c].handle /\ server[c].flow = "none"
        /\ link[c].up \in {"open", "early"}
        /\ denied' = IF refused /\ Early(c) THEN denied \cup {c} ELSE denied
    BY CacheKept, Zenon DEF AcceptReplaySafe
  <1>2. \/ refused /\ Becomes(c, server[c], Dropped(c))
        \/ /\ ~refused /\ ~Early(c)
           /\ Becomes(c, [server[c] EXCEPT !.flow = "pending"], [link[c] EXCEPT !.up = "none"])
        \/ /\ ~refused /\ Early(c) /\ Evident(c)
           /\ Becomes(c, [server[c] EXCEPT !.flow = "checking", !.charge = 1, !.reading = clock],
                      [link[c] EXCEPT !.up = "none"])
    BY Zenon DEF AcceptReplaySafe
  <1>3. CASE refused /\ Becomes(c, server[c], Dropped(c))
    <2>1. denied' = IF Early(c) THEN denied \cup {c} ELSE denied
      BY <1>1, <1>3, Zenon
    <2> QED  BY <1>1, <1>3, <2>1, DroppedKeeps, Zenon
  <1>4. CASE /\ ~refused /\ ~Early(c)
             /\ Becomes(c, [server[c] EXCEPT !.flow = "pending"], [link[c] EXCEPT !.up = "none"])
    BY <1>1, <1>4, PendingKeeps, Zenon DEF Early
  <1>5. CASE /\ ~refused /\ Early(c) /\ Evident(c)
             /\ Becomes(c, [server[c] EXCEPT !.flow = "checking", !.charge = 1, !.reading = clock],
                        [link[c] EXCEPT !.up = "none"])
    <2> DEFINE l == [link[c] EXCEPT !.up = "none"]
               s == [server[c] EXCEPT !.flow = "checking", !.charge = 1, !.reading = clock]
    <2>1. /\ call[c] \in CallState /\ link[c] \in LinkState /\ server[c] \in ServerState
          /\ exposed[c] \in Nat /\ Sound(server[c])
          /\ Delivers(call[c], link[c], server[c], exposed[c], c \in denied)
      BY CallFacts, Zenon
    <2>2. clock \in Times
      BY Zenon DEF AdmissionInv, ReplayInvariant, ReplayTypeOK
    <2>3. /\ l \in LinkState /\ l.up = "none" /\ l.down = link[c].down /\ l.open = link[c].open
          /\ l.handshake = link[c].handshake /\ l.zero_rtt = link[c].zero_rtt
      BY <2>1, Zenon DEF LinkState
    <2>4. /\ s \in ServerState /\ s.pc = "live" /\ s.handle = server[c].handle
          /\ s.flow = "checking" /\ s.charge = 1
      BY <1>1, <2>1, <2>2, Zenon DEF ServerState
    <2>5. Becomes(c, s, l)
      BY <1>5, Zenon
    <2> HIDE DEF l, s
    <2>6. Sound(s) /\ (Holds(s) => Holds(server[c]))
      BY <1>1, <2>4, Zenon DEF Sound, Holds
    <2>7. denied' = denied /\ reserved # EarlyLimit /\ link[c].up = "early"
      BY <1>1, <1>5, Zenon DEF Early
    <2>8. ASSUME NEW k \in LinkState, SameLink(k, l)
          PROVE  Delivers(call[c], k, s, exposed[c], c \in denied')
      BY <1>1, <2>1, <2>3, <2>4, <2>7, <2>8, Zenon DEF SameLink, Delivers, Unseen, EarlyBytes, LateBytes, LinkState
    <2> QED  BY <1>1, <2>3, <2>4, <2>5, <2>6, <2>7, <2>8, QuietKeeps, Zenon
  <1> QED  BY <1>2, <1>3, <1>4, <1>5, Zenon

\* What the server's clocks and its negotiation give the cache.
LEMMA CacheTypes ==
    ASSUME AdmissionInv, NEW c \in Calls
    PROVE  /\ server[c].reading \in Times /\ call[c].nonce \in Nonces
           /\ negotiated \in Capabilities
  <1>1. server[c] \in ServerState /\ call[c] \in CallState
    BY CallFacts, Zenon
  <1>2. negotiated \in BOOLEAN
    BY Zenon DEF negotiated
  <1> QED  BY <1>1, <1>2, AdmissionAssumption, Zenon DEF ServerState, CallState

\* To the cache, admit is a step of its own.
LEMMA AdmitRefines ==
    ASSUME AdmissionInv, NEW c \in Calls, Admit(c)
    PROVE  [ReplayNext]_replayVars
  <1>1. CASE Presentable(call[c].token, negotiated, server[c].reading)
    <2>1. Remember(call[c].token, call[c].nonce, server[c].reading) /\ call[c].token \in tokens
      BY <1>1, Zenon DEF Admit, Presentable
    <2> QED  BY <1>1, <2>1, CacheTypes, Zenon DEF ReplayNext
  <1>2. CASE ~Presentable(call[c].token, negotiated, server[c].reading)
    BY <1>2, Zenon DEF Admit
  <1> QED  BY <1>1, <1>2, Zenon

\* admit exposes the bytes once, or drops them with their charge.
LEMMA AdmitKeeps ==
    ASSUME AdmissionInv, NEW c \in Calls, Admit(c)
    PROVE  AdmissionInv'
  <1>1. /\ call[c] \in CallState /\ link[c] \in LinkState /\ server[c] \in ServerState
        /\ exposed[c] \in Nat /\ Sound(server[c])
        /\ Delivers(call[c], link[c], server[c], exposed[c], c \in denied)
    BY CallFacts, Zenon
  <1>2. ReplayInvariant'
    BY AdmitRefines, ReplayStep, Zenon DEF AdmissionInv
  <1>3. server[c].flow = "checking" /\ server[c].pc = "live" /\ UNCHANGED <<profile, call>>
    BY <1>1, Zenon DEF Admit, Sound
  <1>4. link[c].zero_rtt = "accepted" /\ exposed[c] = 0 /\ c \notin denied /\ link[c].up = "none"
    BY <1>1, <1>3 DEF Delivers, Unseen, EarlyBytes, LateBytes, LinkState
  <1>5. 0 \in Times
    BY ReplayAssumption DEF Times
  <1>6. \/ /\ Becomes(c, [server[c] EXCEPT !.flow = "pending", !.reading = 0], link[c])
           /\ exposed' = [exposed EXCEPT ![c] = @ + 1] /\ UNCHANGED denied
        \/ /\ Becomes(c, [server[c] EXCEPT !.flow = "none", !.charge = 0, !.reading = 0], Dropped(c))
           /\ denied' = denied \cup {c} /\ UNCHANGED exposed
    BY Zenon DEF Admit
  <1>7. CASE /\ Becomes(c, [server[c] EXCEPT !.flow = "pending", !.reading = 0], link[c])
             /\ exposed' = [exposed EXCEPT ![c] = @ + 1] /\ UNCHANGED denied
    <2> DEFINE s == [server[c] EXCEPT !.flow = "pending", !.reading = 0]
    <2>1. /\ s \in ServerState /\ s.pc = "live" /\ s.handle = server[c].handle
          /\ s.flow = "pending" /\ s.charge = server[c].charge
      BY <1>1, <1>3, <1>5, Zenon DEF ServerState
    <2>2. Becomes(c, s, link[c])
      BY <1>7, Zenon
    <2> HIDE DEF s
    <2>3. Sound(s) /\ (Holds(s) => Holds(server[c])) /\ s.charge \in {0, 1}
      BY <1>1, <1>3, <2>1, Zenon DEF Sound, Holds, ServerState
    <2>4. exposed \in [Calls -> Nat] /\ denied \in SUBSET Calls
      BY Zenon DEF AdmissionInv, PermitInv, AdmissionTyped
    <2>5. exposed' = [exposed EXCEPT ![c] = 1]
      BY <1>4, <1>7, <2>4
    <2>6. ASSUME NEW k \in LinkState, SameLink(k, link[c])
          PROVE  Delivers(call[c], k, s, 1, c \in denied')
      BY <1>1, <1>3, <1>4, <1>7, <2>1, <2>6 DEF SameLink, Delivers, Unseen, EarlyBytes, LateBytes
    <2>7. PermitInv
      BY Zenon DEF AdmissionInv
    <2>8. ServerMoved(c, s, link[c])
      BY <1>1, <1>3, <2>1, <2>2, <2>3, <2>7, BecomesKeeps
    <2>9. denied' \in SUBSET Calls /\ \A d \in Calls \ {c} : d \in denied' <=> d \in denied
      BY <1>7, <2>4, Zenon
    <2> QED  BY <1>1, <1>2, <1>3, <2>1, <2>5, <2>6, <2>8, <2>9, ServerKeeps, Zenon
  <1>8. CASE /\ Becomes(c, [server[c] EXCEPT !.flow = "none", !.charge = 0, !.reading = 0], Dropped(c))
             /\ denied' = denied \cup {c} /\ UNCHANGED exposed
    <2> DEFINE s == [server[c] EXCEPT !.flow = "none", !.charge = 0, !.reading = 0]
               l == Dropped(c)
    <2>1. /\ s \in ServerState /\ s.pc = "live" /\ s.handle = server[c].handle
          /\ s.flow = "none" /\ s.charge = 0
      BY <1>1, <1>3, <1>5, Zenon DEF ServerState
    <2>2. /\ l \in LinkState /\ l.up = "none" /\ l.down = "reset" /\ l.open = link[c].open
          /\ l.handshake = link[c].handshake /\ l.zero_rtt = link[c].zero_rtt
      BY <1>1, Zenon DEF LinkState, Dropped
    <2>3. Becomes(c, s, l)
      BY <1>8, Zenon
    <2> HIDE DEF s, l
    <2>4. Sound(s) /\ (Holds(s) => Holds(server[c]))
      BY <1>1, <1>3, <2>1 DEF Sound, Holds
    <2>5. ASSUME NEW k \in LinkState, SameLink(k, l)
          PROVE  Delivers(call[c], k, s, exposed[c], c \in denied')
      BY <1>1, <1>3, <1>4, <2>1, <2>2, <2>5, Zenon DEF SameLink, Delivers, Unseen, EarlyBytes, LateBytes
    <2>6. denied' = denied \/ denied' = denied \cup {c}
      BY <1>8, Zenon
    <2> QED  BY <1>2, <1>3, <1>8, <2>1, <2>2, <2>3, <2>4, <2>5, <2>6, QuietKeeps
  <1> QED  BY <1>6, <1>7, <1>8, Zenon

\* The answer to a flow gives no bytes, and a rejected one keeps none.
LEMMA DecideKeeps ==
    ASSUME AdmissionInv, NEW c \in Calls, NEW accepts \in BOOLEAN, Decide(c, accepts)
    PROVE  AdmissionInv'
  <1>1. /\ call[c] \in CallState /\ link[c] \in LinkState /\ server[c] \in ServerState
        /\ exposed[c] \in Nat /\ Sound(server[c])
        /\ Delivers(call[c], link[c], server[c], exposed[c], c \in denied)
    BY CallFacts, Zenon
  <1>2. /\ ReplayInvariant' /\ UNCHANGED <<profile, call, exposed>> /\ denied' = denied
        /\ server[c].flow = "pending" /\ server[c].pc = "live"
    BY <1>1, CacheKept, Zenon DEF Decide, ServerOnly, history, Sound
  <1>3. CASE accepts /\ link[c].open
    <2> DEFINE s == [server[c] EXCEPT !.flow = "open"]
               l == [link[c] EXCEPT !.down = "ok"]
    <2>1. /\ s \in ServerState /\ s.pc = "live" /\ s.handle = server[c].handle
          /\ s.flow = "open" /\ s.charge = server[c].charge
      BY <1>1, <1>2, Zenon DEF ServerState
    <2>2. /\ l \in LinkState /\ l.up = link[c].up /\ l.down = "ok" /\ l.open = link[c].open
          /\ l.handshake = link[c].handshake /\ l.zero_rtt = link[c].zero_rtt
      BY <1>1, Zenon DEF LinkState
    <2>3. Becomes(c, s, l)
      BY <1>3, Zenon DEF Decide
    <2> HIDE DEF s, l
    <2>4. Sound(s) /\ (Holds(s) => Holds(server[c]))
      BY <1>1, <1>2, <2>1, Zenon DEF Sound, Holds
    <2>5. ASSUME NEW k \in LinkState, SameLink(k, l)
          PROVE  Delivers(call[c], k, s, exposed[c], c \in denied')
      BY <1>1, <1>2, <2>1, <2>2, <2>5, Zenon DEF SameLink, Delivers, Unseen, EarlyBytes, LateBytes
    <2> QED  BY <1>2, <2>1, <2>2, <2>3, <2>4, <2>5, QuietKeeps
  <1>4. CASE ~(accepts /\ link[c].open)
    <2> DEFINE s == [server[c] EXCEPT !.flow = "closed", !.charge = 0]
               l == [link[c] EXCEPT !.down = IF accepts THEN "reset" ELSE "refused"]
    <2>1. /\ s \in ServerState /\ s.pc = "live" /\ s.handle = server[c].handle
          /\ s.flow = "closed" /\ s.charge = 0
      BY <1>1, <1>2, Zenon DEF ServerState
    <2>2. /\ l \in LinkState /\ l.up = link[c].up /\ l.down \in {"reset", "refused"}
          /\ l.open = link[c].open
          /\ l.handshake = link[c].handshake /\ l.zero_rtt = link[c].zero_rtt
      BY <1>1, Zenon DEF LinkState
    <2>3. Becomes(c, s, l)
      BY <1>4, Zenon DEF Decide
    <2> HIDE DEF s, l
    <2>4. Sound(s) /\ (Holds(s) => Holds(server[c]))
      BY <1>1, <1>2, <2>1 DEF Sound, Holds
    <2>5. ASSUME NEW k \in LinkState, SameLink(k, l)
          PROVE  Delivers(call[c], k, s, exposed[c], c \in denied')
      BY <1>1, <1>2, <2>1, <2>2, <2>5, Zenon DEF SameLink, Delivers, Unseen, EarlyBytes, LateBytes
    <2> QED  BY <1>2, <2>1, <2>2, <2>3, <2>4, <2>5, QuietKeeps
  <1> QED  BY <1>3, <1>4, Zenon

\* The application reads early bytes it was given, or bytes that came late, once.
LEMMA ReadEarlyKeeps ==
    ASSUME AdmissionInv, NEW c \in Calls, ReadEarly(c)
    PROVE  AdmissionInv'
  <1>1. /\ call[c] \in CallState /\ link[c] \in LinkState /\ server[c] \in ServerState
        /\ exposed[c] \in Nat /\ Sound(server[c])
        /\ Delivers(call[c], link[c], server[c], exposed[c], c \in denied)
    BY CallFacts, Zenon
  <1>2. /\ ReplayInvariant' /\ UNCHANGED <<profile, call>> /\ denied' = denied
        /\ server[c].flow = "open" /\ server[c].pc = "live"
    BY <1>1, CacheKept, Zenon DEF ReadEarly, Sound
  <1>3. CASE server[c].charge = 1 /\ Becomes(c, [server[c] EXCEPT !.charge = 0], link[c]) /\ UNCHANGED exposed
    <2> DEFINE s == [server[c] EXCEPT !.charge = 0]
    <2>1. /\ s \in ServerState /\ s.pc = "live" /\ s.handle = server[c].handle
          /\ s.flow = "open" /\ s.charge = 0
      BY <1>1, <1>2, Zenon DEF ServerState
    <2>2. Becomes(c, s, link[c])
      BY <1>3, Zenon
    <2> HIDE DEF s
    <2>3. Sound(s) /\ (Holds(s) => Holds(server[c]))
      BY <1>1, <1>2, <2>1, Zenon DEF Sound, Holds
    <2>4. ASSUME NEW k \in LinkState, SameLink(k, link[c])
          PROVE  Delivers(call[c], k, s, exposed[c], c \in denied')
      BY <1>1, <1>2, <2>1, <2>4, Zenon DEF SameLink, Delivers, Unseen, EarlyBytes, LateBytes
    <2> QED  BY <1>1, <1>2, <1>3, <2>1, <2>2, <2>3, <2>4, QuietKeeps
  <1>4. CASE /\ link[c].up = "data" /\ Becomes(c, server[c], [link[c] EXCEPT !.up = "none"])
             /\ exposed' = [exposed EXCEPT ![c] = @ + 1]
    <2> DEFINE l == [link[c] EXCEPT !.up = "none"]
    <2>1. /\ l \in LinkState /\ l.up = "none" /\ l.down = link[c].down /\ l.open = link[c].open
          /\ l.handshake = link[c].handshake /\ l.zero_rtt = link[c].zero_rtt
      BY <1>1, Zenon DEF LinkState
    <2>2. Becomes(c, server[c], l)
      BY <1>4, Zenon
    <2> HIDE DEF l
    <2>3. /\ link[c].zero_rtt \in {"none", "rejected"} /\ exposed[c] = 0 /\ call[c].pc = "done"
          /\ c \notin denied
      BY <1>1, <1>4, Zenon DEF Delivers, Unseen, EarlyBytes, LateBytes, LinkState
    <2>4. exposed \in [Calls -> Nat] /\ denied \in SUBSET Calls
      BY Zenon DEF AdmissionInv, PermitInv, AdmissionTyped
    <2>5. exposed' = [exposed EXCEPT ![c] = 1]
      BY <1>4, <2>3, <2>4
    <2>6. ASSUME NEW k \in LinkState, SameLink(k, l)
          PROVE  Delivers(call[c], k, server[c], 1, c \in denied')
      BY <1>1, <1>2, <2>1, <2>3, <2>6, Zenon DEF SameLink, Delivers, Unseen, EarlyBytes, LateBytes
    <2>7. PermitInv
      BY Zenon DEF AdmissionInv
    <2>8. ServerMoved(c, server[c], l)
      BY <1>1, <1>2, <2>1, <2>2, <2>7, BecomesKeeps
    <2>9. denied' \in SUBSET Calls /\ \A d \in Calls \ {c} : d \in denied' <=> d \in denied
      BY <1>2, <2>4, Zenon
    <2> QED  BY <1>1, <1>2, <2>1, <2>5, <2>6, <2>8, <2>9, ServerKeeps, Zenon
  <1> QED  BY <1>3, <1>4, Zenon DEF ReadEarly

\* A dropped flow releases the bytes it had not read, and a dropped connection none.
LEMMA DropKeeps ==
    ASSUME AdmissionInv, NEW c \in Calls, DropFlow(c) \/ DropConnection(c)
    PROVE  AdmissionInv'
  <1>1. /\ call[c] \in CallState /\ link[c] \in LinkState /\ server[c] \in ServerState
        /\ exposed[c] \in Nat /\ Sound(server[c])
        /\ Delivers(call[c], link[c], server[c], exposed[c], c \in denied)
    BY CallFacts, Zenon
  <1>2. ReplayInvariant' /\ UNCHANGED <<profile, call, exposed>> /\ denied' = denied
    BY CacheKept, Zenon DEF DropFlow, DropConnection, ServerOnly, history
  <1>3. CASE DropFlow(c)
    <2> DEFINE s == [server[c] EXCEPT !.flow = IF @ = "open" THEN "detached" ELSE "closed", !.charge = 0]
               l == [link[c] EXCEPT !.down = IF server[c].flow = "pending" THEN "reset" ELSE @]
    <2>1. server[c].flow \in {"pending", "open"} /\ server[c].pc = "live"
      BY <1>1, <1>3, Zenon DEF DropFlow, Sound
    <2>2. /\ s \in ServerState /\ s.pc = "live" /\ s.handle = server[c].handle
          /\ s.flow \in {"detached", "closed"} /\ s.charge = 0
      BY <1>1, <2>1, Zenon DEF ServerState
    <2>3. /\ l \in LinkState /\ l.up = link[c].up /\ l.down \in {"reset", link[c].down}
          /\ l.open = link[c].open
          /\ l.handshake = link[c].handshake /\ l.zero_rtt = link[c].zero_rtt
      BY <1>1, Zenon DEF LinkState
    <2>4. Becomes(c, s, l)
      BY <1>3, Zenon DEF DropFlow
    <2> HIDE DEF s, l
    <2>5. Sound(s) /\ (Holds(s) => Holds(server[c]))
      BY <1>1, <2>1, <2>2 DEF Sound, Holds
    <2>6. ASSUME NEW k \in LinkState, SameLink(k, l)
          PROVE  Delivers(call[c], k, s, exposed[c], c \in denied')
      BY <1>1, <1>2, <2>1, <2>2, <2>3, <2>6, Zenon DEF SameLink, Delivers, Unseen, EarlyBytes, LateBytes
    <2> QED  BY <1>2, <2>2, <2>3, <2>4, <2>5, <2>6, QuietKeeps
  <1>4. CASE DropConnection(c)
    <2> DEFINE s == [server[c] EXCEPT !.handle = FALSE]
    <2>1. /\ s \in ServerState /\ s.pc = server[c].pc /\ s.handle = FALSE
          /\ s.flow = server[c].flow /\ s.charge = server[c].charge
      BY <1>1, Zenon DEF ServerState
    <2>2. Becomes(c, s, link[c])
      BY <1>4, Zenon DEF DropConnection
    <2> HIDE DEF s
    <2>3. Sound(s) /\ (Holds(s) => Holds(server[c]))
      BY <1>1, <2>1, Zenon DEF Sound, Holds
    <2>4. ASSUME NEW k \in LinkState, SameLink(k, link[c])
          PROVE  Delivers(call[c], k, s, exposed[c], c \in denied')
      BY <1>1, <1>2, <2>1, <2>4, Zenon DEF SameLink, Delivers, Unseen, EarlyBytes, LateBytes
    <2> QED  BY <1>1, <1>2, <2>1, <2>2, <2>3, <2>4, QuietKeeps
  <1> QED  BY <1>3, <1>4, Zenon

\* try_acquire: the permit is taken within both limits.
LEMMA AcquiredKeeps ==
    ASSUME PermitInv, NEW c \in Calls, NEW s \in ServerState, NEW l \in LinkState,
           try_acquire(c), Acquired(c), server' = With(server, c, s), reserved' = reserved,
           link' = [link EXCEPT ![c] = l], profile' = profile, Sound(s),
           ~Holds(server[c]), Holds(s), s.charge = server[c].charge
    PROVE  ServerMoved(c, s, l)
  <1> USE AdmissionAssumption
  <1>1. /\ server \in [Calls -> ServerState] /\ PeerOf[c] \in Peers
        /\ active \in Nat /\ per_peer \in [Peers -> Nat] /\ reserved \in Nat
        /\ profile.max_per_peer \in Nat
    BY DEF PermitInv, AdmissionTyped, Peers
  <1>2. /\ active = Cardinality(Holding(server)) /\ active <= max_active
        /\ \A p \in Peers : per_peer[p] = Cardinality(HoldingOf(server, p)) /\ per_peer[p] <= profile.max_per_peer
        /\ reserved = Cardinality(Charged(server)) /\ reserved <= EarlyLimit
    BY Zenon DEF PermitInv, Budgets
  <1>3. /\ server' \in [Calls -> ServerState]
        /\ \A d \in Calls : Sound(server'[d])
    BY SoundWith, Zenon
  <1>4. reserved' = Cardinality(Charged(server'))
    <2>1. Cardinality(Charged(server')) = reserved - server[c].charge + s.charge
      BY <1>1, <1>2, ChargeFollows, Zenon
    <2>2. s.charge \in {0, 1}
      BY Zenon DEF ServerState
    <2> QED  BY <1>1, <2>1, <2>2
  <1>5. /\ Cardinality(Holding(server')) = Cardinality(Holding(server)) + 1
        /\ \A p : Cardinality(HoldingOf(server', p)) =
               IF PeerOf[c] = p THEN Cardinality(HoldingOf(server, p)) + 1
               ELSE Cardinality(HoldingOf(server, p))
    BY <1>1, PermitTaken
  <1>6. active' = Cardinality(Holding(server')) /\ active' \in Nat /\ active' <= max_active
    BY <1>1, <1>2, <1>5 DEF Acquired, try_acquire
  <1>7. per_peer' \in [Peers -> Nat]
    BY <1>1 DEF Acquired
  <1>8. ASSUME NEW p \in Peers
        PROVE  /\ per_peer'[p] = Cardinality(HoldingOf(server', p))
               /\ per_peer'[p] <= profile.max_per_peer
    <2>1. /\ per_peer[p] \in Nat /\ per_peer[p] = Cardinality(HoldingOf(server, p))
          /\ per_peer[p] <= profile.max_per_peer
      BY <1>1, <1>2, Zenon
    <2>2. per_peer'[p] = IF PeerOf[c] = p THEN per_peer[p] + 1 ELSE per_peer[p]
      BY <1>1, Zenon DEF Acquired
    <2>3. Cardinality(HoldingOf(server', p)) = IF PeerOf[c] = p THEN per_peer[p] + 1 ELSE per_peer[p]
      BY <1>5, <2>1, Zenon
    <2>4. PeerOf[c] = p => per_peer[p] + 1 <= profile.max_per_peer
      BY <1>1, <2>1 DEF try_acquire
    <2> QED  BY <2>1, <2>2, <2>3, <2>4, Zenon
  <1>9. Budgets(server, active, per_peer, reserved)'
    BY <1>2, <1>4, <1>6, <1>8, Zenon DEF Budgets, Holding, HoldingOf, Charged
  <1>10. \E k \in LinkState : SameLink(k, l) /\ link' = [link EXCEPT ![c] = k]
    BY Zenon DEF SameLink
  <1> QED  BY <1>1, <1>3, <1>6, <1>7, <1>9, <1>10, Zenon DEF ServerMoved

\* IncomingConnection::handshake and ::accept_replay_safe.
LEMMA IncomingKeeps ==
    ASSUME AdmissionInv, NEW c \in Calls, Incoming(c)
    PROVE  AdmissionInv'
  <1>1. /\ call[c] \in CallState /\ link[c] \in LinkState /\ server[c] \in ServerState
        /\ exposed[c] \in Nat /\ Sound(server[c])
        /\ Delivers(call[c], link[c], server[c], exposed[c], c \in denied)
    BY CallFacts, Zenon
  <1>2. /\ ReplayInvariant' /\ UNCHANGED <<profile, call, exposed, reserved>> /\ denied' = denied
        /\ link[c].open /\ server[c].pc = "none"
    BY CacheKept, Zenon DEF Incoming, ServerOnly, history
  <1>3. /\ server \in [Calls -> ServerState] /\ link \in [Calls -> LinkState] /\ reserved \in Nat
        /\ exposed \in [Calls -> Nat] /\ denied \in SUBSET Calls /\ PermitInv
    BY Zenon DEF AdmissionInv, PermitInv, AdmissionTyped
  <1>4. server[c].flow = "none" /\ server[c].charge = 0 /\ server[c].handle = FALSE
    BY <1>1, <1>2, Zenon DEF Sound, ServerState
  <1>5. ~Holds(server[c])
    BY <1>4, Zenon DEF Holds
  <1>6. /\ exposed[c] = 0 /\ link[c].zero_rtt \in {"none", "offered"} /\ c \notin denied
        /\ link[c].handshake = "pending" /\ link[c].down = "none"
    BY <1>1, <1>2, Zenon DEF Delivers, Unseen
  <1>7. CASE ~try_acquire(c)
    <2> DEFINE s == [server[c] EXCEPT !.pc = "refused"]
               l == [link[c] EXCEPT !.open = FALSE]
    <2>1. /\ s \in ServerState /\ s.pc = "refused" /\ s.handle = FALSE
          /\ s.flow = "none" /\ s.charge = 0
      BY <1>1, <1>4, Zenon DEF ServerState
    <2>2. /\ l \in LinkState /\ l.up = link[c].up /\ l.down = link[c].down /\ l.open = FALSE
          /\ l.handshake = link[c].handshake /\ l.zero_rtt = link[c].zero_rtt
      BY <1>1, Zenon DEF LinkState
    <2>3. server' = [server EXCEPT ![c] = s] /\ link' = [link EXCEPT ![c] = l] /\ UNCHANGED budget
      BY <1>3, <1>7, Zenon DEF Incoming
    <2> HIDE DEF s, l
    <2>4. reserved' = reserved - server[c].charge + s.charge
      BY <1>2, <1>3, <1>4, <2>1
    <2>5. Becomes(c, s, l)
      BY <1>5, <2>3, <2>4, Zenon DEF Becomes
    <2>6. Sound(s) /\ ~Holds(s)
      BY <2>1 DEF Sound, Holds
    <2>7. ASSUME NEW k \in LinkState, SameLink(k, l)
          PROVE  Delivers(call[c], k, s, exposed[c], c \in denied')
      BY <1>1, <1>2, <1>6, <2>1, <2>2, <2>7, Zenon DEF SameLink, Delivers, Unseen, EarlyBytes, LateBytes
    <2>8. s.charge # 1
      BY <2>1
    <2> QED  BY <1>2, <2>1, <2>2, <2>5, <2>6, <2>7, <2>8, QuietKeeps, Zenon
  <1>8. CASE try_acquire(c)
    <2>1. PICK z \in IF link[c].zero_rtt = "none" THEN {"none"} ELSE {"accepted", "rejected"} :
              link' = [link EXCEPT ![c].zero_rtt = z,
                                   ![c].up = IF z = "rejected" THEN "none" ELSE @]
      BY <1>8, Zenon DEF Incoming
    <2> DEFINE s == [server[c] EXCEPT !.pc = IF profile.replay_safe THEN "live" ELSE "handshake",
                                      !.handle = TRUE]
               l == [link[c] EXCEPT !.zero_rtt = z, !.up = IF z = "rejected" THEN "none" ELSE @]
    <2>2. /\ s \in ServerState /\ s.pc \in {"live", "handshake"} /\ s.handle = TRUE
          /\ s.flow = "none" /\ s.charge = 0
      BY <1>1, <1>4, Zenon DEF ServerState
    <2>3. /\ l \in LinkState /\ l.up = (IF z = "rejected" THEN "none" ELSE link[c].up)
          /\ l.down = link[c].down /\ l.open = link[c].open
          /\ l.handshake = link[c].handshake /\ l.zero_rtt = z
      BY <1>1, <2>1, Zenon DEF LinkState
    <2>4. server' = With(server, c, s) /\ Acquired(c)
      BY <1>3, <1>8, Zenon DEF Incoming, With
    <2>5. link' = [link EXCEPT ![c] = l]
      BY <1>3, <2>1, Zenon
    <2> HIDE DEF s, l
    <2>6. Sound(s) /\ Holds(s) /\ s.charge = server[c].charge
      BY <1>4, <2>2 DEF Sound, Holds
    <2>7. ServerMoved(c, s, l)
      BY <1>2, <1>3, <1>5, <1>8, <2>2, <2>3, <2>4, <2>5, <2>6, AcquiredKeeps, Zenon
    <2>8. ASSUME NEW k \in LinkState, SameLink(k, l)
          PROVE  Delivers(call[c], k, s, 0, c \in denied')
      <3>1. /\ k.up = l.up /\ k.down = "none" /\ k.zero_rtt = z /\ k.handshake = "pending"
            /\ z \in {"none", "accepted", "rejected"} /\ (z = "none" <=> link[c].zero_rtt = "none")
        BY <1>6, <2>1, <2>3, <2>8, Zenon DEF SameLink
      <3>2. c \notin denied' /\ call[c].pc # "idle" /\ s.pc # "none"
        BY <1>1, <1>2, <1>6, <2>2, Zenon DEF Delivers, Unseen
      <3>3. call[c].pc = "verdict" => call[c].result # "none"
        BY <1>1, Zenon DEF Delivers, Unseen
      <3>4. z # "none" => link[c].up = "early" /\ call[c].pc \in {"early", "verdict", "failed"}
                          /\ call[c].result # "ok"
        BY <1>1, <1>6, <3>1, Zenon DEF Delivers, Unseen
      <3>5. z = "none" => LateBytes(call[c], link[c], server[c], 0)
        BY <1>1, <1>6, <3>1, Zenon DEF Delivers
      <3> QED  BY <2>2, <2>3, <3>1, <3>2, <3>3, <3>4, <3>5, Zenon
               DEF Delivers, Unseen, EarlyBytes, LateBytes
    <2>9. exposed' = [exposed EXCEPT ![c] = 0]
      BY <1>2, <1>3, <1>6, Zenon
    <2>10. denied' \in SUBSET Calls /\ \A d \in Calls \ {c} : d \in denied' <=> d \in denied
      BY <1>2, <1>3, Zenon
    <2>11. 0 \in Nat
      BY Zenon
    <2> QED  BY <1>2, <2>2, <2>3, <2>7, <2>8, <2>9, <2>10, <2>11, ServerKeeps, Zenon
  <1> QED  BY <1>7, <1>8, Zenon

\* Only the cache moves: a token is issued, or the clock is set.
LEMMA CacheOnlyKeeps ==
    ASSUME AdmissionInv, ReplayInvariant',
           UNCHANGED <<profile, call, link, server, active, per_peer, reserved, exposed, denied>>
    PROVE  AdmissionInv'
  <1>1. /\ profile' = profile /\ call' = call /\ link' = link /\ server' = server /\ active' = active
        /\ per_peer' = per_peer /\ reserved' = reserved /\ exposed' = exposed /\ denied' = denied
    BY Zenon
  <1>2. PermitInv'
    BY <1>1, Zenon DEF AdmissionInv, PermitInv, AdmissionTyped, Budgets, Holding, HoldingOf, Charged
  <1>3. \A c \in Calls : Delivered(c)'
    BY <1>1, Zenon DEF AdmissionInv, Delivered
  <1> QED  BY <1>2, <1>3, Zenon DEF AdmissionInv

\* No side holds a permit or early bytes: nothing is counted.
LEMMA NothingCounted ==
    ASSUME NEW all, \A c \in Calls : ~Holds(all[c]) /\ all[c].charge = 0
    PROVE  /\ Cardinality(Holding(all)) = 0 /\ Cardinality(Charged(all)) = 0
           /\ \A p : Cardinality(HoldingOf(all, p)) = 0
  <1>1. Holding(all) = {} /\ \A p : HoldingOf(all, p) = {}
    BY Zenon DEF Holding, HoldingOf
  <1>2. Charged(all) = {}
    BY DEF Charged
  <1>3. Cardinality({}) = 0
    BY FS_EmptySet, Zenon
  <1> QED  BY <1>1, <1>2, <1>3, Zenon

\* The sides of a server that has nothing: its budgets are at zero.
LEMMA EmptyBudgets ==
    ASSUME NEW all, \A c \in Calls : ~Holds(all[c]) /\ all[c].charge = 0,
           NEW pp, pp = [p \in Peers |-> 0], profile \in Profiles
    PROVE  Budgets(all, 0, pp, 0) /\ pp \in [Peers -> Nat] /\ 0 \in Nat
  <1>1. 0 <= max_active /\ 0 <= profile.max_per_peer /\ 0 <= EarlyLimit
    BY AdmissionAssumption
  <1>2. \A p \in Peers : pp[p] = 0
    BY Zenon
  <1>3. pp \in [Peers -> Nat] /\ 0 \in Nat
    BY Zenon
  <1> QED  BY <1>1, <1>2, <1>3, NothingCounted, Zenon DEF Budgets

\* A restart: what the applications were given stays given.
LEMMA RestartKeeps ==
    ASSUME AdmissionInv, RestartServer
    PROVE  AdmissionInv'
  <1>1. /\ Restart /\ active' = 0 /\ per_peer' = [p \in Peers |-> 0] /\ reserved' = 0
        /\ profile' = profile /\ call' = call /\ exposed' = exposed /\ denied' = denied
    BY Zenon DEF RestartServer, history
  <1>2. ReplayInvariant'
    BY <1>1, RestartPreserves, Zenon DEF AdmissionInv
  <1>3. AdmissionTyped
    BY Zenon DEF AdmissionInv, PermitInv
  <1>4. /\ server' = [c \in Calls |-> IF server[c].pc = "none" THEN NoServer
                                      ELSE [NoServer EXCEPT !.pc = "gone"]]
        /\ link' = [c \in Calls |-> IF server[c].pc = "none" THEN link[c]
                                    ELSE [link[c] EXCEPT !.open = FALSE]]
    BY Zenon DEF RestartServer
  <1>5. ASSUME NEW c \in Calls
        PROVE  /\ server'[c] \in ServerState /\ server'[c].flow = "none" /\ server'[c].charge = 0
               /\ server'[c].handle = FALSE
               /\ server'[c].pc = IF server[c].pc = "none" THEN "none" ELSE "gone"
    <2>1. 0 \in Times
      BY ReplayAssumption DEF Times
    <2> QED  BY <1>4, <2>1, Zenon DEF NoServer, ServerState
  <1>6. ASSUME NEW c \in Calls
        PROVE  /\ link'[c] \in LinkState /\ SameLink(link'[c], link[c])
    <2>1. link[c] \in LinkState
      BY <1>3, Zenon DEF AdmissionTyped
    <2> QED  BY <1>4, <2>1, Zenon DEF SameLink, LinkState
  <1>7. \A c \in Calls : ~Holds(server'[c]) /\ server'[c].charge = 0 /\ Sound(server'[c])
    <2> TAKE c \in Calls
    <2>1. server'[c].flow = "none" /\ server'[c].charge = 0 /\ server'[c].handle = FALSE
      BY <1>5, Zenon
    <2> QED  BY <2>1 DEF Holds, Sound
  <1>8. server' \in [Calls -> ServerState] /\ link' \in [Calls -> LinkState]
    BY <1>4, <1>5, <1>6, Zenon
  <1>9. Budgets(server, active, per_peer, reserved)' /\ per_peer' \in [Peers -> Nat]
        /\ active' \in Nat /\ reserved' \in Nat
    <2>1. profile \in Profiles
      BY <1>3, Zenon DEF AdmissionTyped
    <2>2. Budgets(server', 0, per_peer', 0) /\ per_peer' \in [Peers -> Nat] /\ 0 \in Nat
      BY <1>1, <1>7, <2>1, EmptyBudgets, Zenon
    <2> QED  BY <1>1, <2>2, Zenon DEF Budgets, Holding, HoldingOf, Charged
  <1>10. AdmissionTyped'
    BY <1>1, <1>3, <1>8, <1>9, Zenon DEF AdmissionTyped
  <1>11. ASSUME NEW c \in Calls PROVE Delivered(c)'
    <2>1. /\ call[c] \in CallState /\ link[c] \in LinkState /\ server[c] \in ServerState
          /\ exposed[c] \in Nat /\ Sound(server[c])
          /\ Delivers(call[c], link[c], server[c], exposed[c], c \in denied)
      BY CallFacts, Zenon
    <2>2. /\ server'[c].flow = "none" /\ server'[c].pc = IF server[c].pc = "none" THEN "none" ELSE "gone"
      BY <1>5, Zenon
    <2>3. SameLink(link'[c], link[c])
      BY <1>6, Zenon
    <2>4. Delivers(call[c], link'[c], server'[c], exposed[c], c \in denied)
      BY <2>1, <2>2, <2>3 DEF SameLink, Sound, Delivers, Unseen, EarlyBytes, LateBytes, LinkState
    <2> QED  BY <1>1, <2>4, Zenon DEF Delivered
  <1>12. PermitInv'
    BY <1>7, <1>9, <1>10, Zenon DEF PermitInv
  <1> QED  BY <1>2, <1>11, <1>12, Zenon DEF AdmissionInv

\* A server starts with nothing, and the calls are still to come.
LEMMA AdmissionBegins == AdmissionInit => AdmissionInv
  <1> SUFFICES ASSUME AdmissionInit PROVE AdmissionInv
    BY Zenon
  <1>1. /\ ReplayInit /\ profile \in Profiles /\ call = [c \in Calls |-> Idle]
        /\ link = [c \in Calls |-> NewLink] /\ server = [c \in Calls |-> NoServer]
        /\ active = 0 /\ per_peer = [p \in Peers |-> 0] /\ reserved = 0
        /\ exposed = [c \in Calls |-> 0] /\ denied = {}
    BY Zenon DEF AdmissionInit
  <1>2. ReplayInvariant
    BY <1>1, ReplayStarts, Zenon
  <1>3. NoServer \in ServerState /\ NewLink \in LinkState /\ Sound(NoServer) /\ ~Holds(NoServer)
        /\ NoServer.charge = 0
    <2>1. 0 \in Times
      BY ReplayAssumption DEF Times
    <2> QED  BY <2>1 DEF NoServer, ServerState, NewLink, LinkState, Sound, Holds
  <1>4. Idle \in CallState
    <2>1. \E n \in Nonces : TRUE
      BY ReplayAssumption
    <2>2. PICK n \in Nonces : n = CHOOSE m \in Nonces : TRUE
      BY <2>1, Zenon
    <2>3. Idle = [pc |-> "idle", result |-> "none", token |-> NoToken, nonce |-> n]
      BY <2>2, Zenon DEF Idle
    <2> QED  BY <2>3 DEF CallState
  <1>5. \A c \in Calls : call[c] = Idle /\ link[c] = NewLink /\ server[c] = NoServer /\ exposed[c] = 0
    BY <1>1, Zenon
  <1>6. Budgets(server, active, per_peer, reserved) /\ per_peer \in [Peers -> Nat]
        /\ active \in Nat /\ reserved \in Nat
    BY <1>1, <1>3, <1>5, EmptyBudgets, Zenon
  <1>7. /\ call \in [Calls -> CallState] /\ link \in [Calls -> LinkState]
        /\ server \in [Calls -> ServerState] /\ exposed \in [Calls -> Nat]
    <2>1. 0 \in Nat
      OBVIOUS
    <2> QED  BY <1>1, <1>3, <1>4, <2>1, Zenon
  <1>8. AdmissionTyped
    BY <1>1, <1>6, <1>7, Zenon DEF AdmissionTyped
  <1>9. PermitInv
    BY <1>3, <1>5, <1>6, <1>8, Zenon DEF PermitInv
  <1>10. ASSUME NEW c \in Calls PROVE Delivers(Idle, NewLink, NoServer, 0, c \in denied)
    <2>1. Idle.pc = "idle" /\ Idle.result = "none"
      BY Zenon DEF Idle
    <2>2. /\ NewLink.open = FALSE /\ NewLink.up = "none" /\ NewLink.zero_rtt = "none"
          /\ NewLink.handshake = "pending" /\ NewLink.down = "none"
          /\ NoServer.pc = "none" /\ NoServer.flow = "none"
      BY DEF NewLink, NoServer
    <2>3. c \notin denied
      BY <1>1, Zenon
    <2> QED  BY <2>1, <2>2, <2>3 DEF Delivers, Unseen, EarlyBytes, LateBytes
  <1>11. \A c \in Calls : Delivered(c)
    BY <1>5, <1>10, Zenon DEF Delivered
  <1> QED  BY <1>2, <1>9, <1>11, Zenon DEF AdmissionInv

\* Every step of a client, of the transport and of the server keeps the invariant.
LEMMA AdmissionStep ==
    ASSUME AdmissionInv, [AdmissionNext]_admissionVars
    PROVE  AdmissionInv'
  <1>1. ASSUME NEW c \in Calls, ClientStep(c) PROVE AdmissionInv'
    <2>1. CASE \E early \in BOOLEAN : Connect(c, early)
      BY <2>1, ConnectKeeps, Zenon
    <2>2. CASE EarlyEnds(c)
      BY <2>2, EarlyEndsKeeps, Zenon
    <2>3. CASE Opened(c) \/ Aborted(c)
      BY <2>3, OpenedKeeps, Zenon
    <2>4. CASE \E installed \in BOOLEAN : Accepted(c, installed) \/ Connected(c, installed)
      BY <2>4, VerdictKeeps, Zenon
    <2> QED  BY <1>1, <2>1, <2>2, <2>3, <2>4, Zenon DEF ClientStep
  <1>2. ASSUME NEW c \in Calls, ServerStep(c) PROVE AdmissionInv'
    <2>1. CASE Incoming(c)
      BY <2>1, IncomingKeeps, Zenon
    <2>2. CASE HandshakeEnds(c)
      BY <2>2, HandshakeEndsKeeps, Zenon
    <2>3. CASE AcceptFlow(c)
      BY <2>3, AcceptFlowKeeps, Zenon
    <2>4. CASE AcceptReplaySafe(c)
      BY <2>4, AcceptReplaySafeKeeps, Zenon
    <2>5. CASE Admit(c)
      BY <2>5, AdmitKeeps, Zenon
    <2>6. CASE \E accepts \in BOOLEAN : Decide(c, accepts)
      BY <2>6, DecideKeeps, Zenon
    <2>7. CASE ReadEarly(c)
      BY <2>7, ReadEarlyKeeps, Zenon
    <2>8. CASE DropFlow(c) \/ DropConnection(c)
      BY <2>8, DropKeeps, Zenon
    <2> QED  BY <1>2, <2>1, <2>2, <2>3, <2>4, <2>5, <2>6, <2>7, <2>8, Zenon DEF ServerStep
  <1>3. ASSUME NEW c \in Calls, Handshake(c) \/ Lost(c) PROVE AdmissionInv'
    BY <1>3, TransportKeeps, Zenon
  <1>4. ASSUME NEW c \in Calls, NEW ttl \in Times, IssueToken(c, ttl) PROVE AdmissionInv'
    <2>1. negotiated \in Capabilities
      BY CacheTypes, Zenon
    <2>2. ReplayInvariant'
      BY <1>4, <2>1, IssuePreserves, Zenon DEF IssueToken, AdmissionInv
    <2> QED  BY <1>4, <2>2, CacheOnlyKeeps, Zenon DEF IssueToken, sides, budget, history
  <1>5. CASE RestartServer
    BY <1>5, RestartKeeps, Zenon
  <1>6. CASE Time
    <2>1. ReplayInvariant'
      BY <1>6, ReplayStep, Zenon DEF Time, AdmissionInv, ReplayNext
    <2> QED  BY <1>6, <2>1, CacheOnlyKeeps, Zenon DEF Time, sides, budget, history
  <1>7. CASE UNCHANGED admissionVars
    <2>1. ReplayInvariant'
      BY <1>7, CacheKept, Zenon DEF admissionVars
    <2> QED  BY <1>7, <2>1, CacheOnlyKeeps, Zenon DEF admissionVars, sides, budget, history
  <1> QED  BY <1>1, <1>2, <1>3, <1>4, <1>5, <1>6, <1>7, Zenon DEF AdmissionNext

\* To the issuer and its cache, every step is one of their own or none.
LEMMA CacheStep ==
    ASSUME AdmissionInv, [AdmissionNext]_admissionVars
    PROVE  [ReplayNext]_replayVars
  <1>1. ASSUME NEW c \in Calls, Admit(c) PROVE [ReplayNext]_replayVars
    BY <1>1, AdmitRefines, Zenon
  <1>2. ASSUME NEW c \in Calls, ClientStep(c) PROVE UNCHANGED replayVars
    <2>1. ASSUME UNCHANGED ClientOnly PROVE UNCHANGED replayVars
      BY <2>1, Zenon DEF ClientOnly
    <2>2. ASSUME NEW pc, NEW l, Moves(c, pc, l) PROVE UNCHANGED replayVars
      BY <2>1, <2>2, Zenon DEF Moves
    <2>3. ASSUME NEW installed \in BOOLEAN, NEW has_flow \in BOOLEAN, BackupInstalled(c, installed, has_flow)
          PROVE  UNCHANGED replayVars
      BY <2>2, <2>3, Zenon DEF BackupInstalled, Fails
    <2>4. ASSUME NEW installed \in BOOLEAN, Accepted(c, installed) \/ Connected(c, installed)
          PROVE  UNCHANGED replayVars
      BY <2>2, <2>3, <2>4, Zenon DEF Accepted, Connected, Fails
    <2> QED  BY <1>2, <2>1, <2>2, <2>4, Zenon DEF ClientStep, Connect, EarlyEnds, Opened, Aborted, Fails
  <1>3. ASSUME NEW c \in Calls, ServerStep(c), ~Admit(c) PROVE UNCHANGED replayVars
    BY <1>3, Zenon DEF ServerStep, Incoming, HandshakeEnds, AcceptFlow, AcceptReplaySafe, Decide,
       ReadEarly, DropFlow, DropConnection, ServerOnly
  <1>4. ASSUME NEW c \in Calls, Handshake(c) \/ Lost(c) PROVE UNCHANGED replayVars
    BY <1>4, Zenon DEF Handshake, Lost, TransportOnly
  <1>5. ASSUME NEW c \in Calls, NEW ttl \in Times, IssueToken(c, ttl) PROVE ReplayNext
    <2>1. negotiated \in Capabilities
      BY CacheTypes, Zenon
    <2> QED  BY <1>5, <2>1, Zenon DEF IssueToken, ReplayNext
  <1>6. CASE RestartServer
    BY <1>6, Zenon DEF RestartServer, ReplayNext
  <1>7. CASE Time
    BY <1>7, Zenon DEF Time, ReplayNext
  <1>8. CASE UNCHANGED admissionVars
    BY <1>8, Zenon DEF admissionVars
  <1>9. ASSUME NEW c \in Calls, ServerStep(c) PROVE [ReplayNext]_replayVars
    BY <1>1, <1>3, <1>9, Zenon
  <1> QED  BY <1>2, <1>4, <1>5, <1>6, <1>7, <1>8, <1>9, Zenon DEF AdmissionNext

\* The inductive invariant of the calls, for any calls, peers, profiles and limits.
THEOREM AdmissionHolds == AdmissionSpec => []AdmissionInv
  <1>1. AdmissionInv /\ [AdmissionNext]_admissionVars => AdmissionInv'
    BY AdmissionStep, Zenon
  <1> QED  BY <1>1, AdmissionBegins, PTL DEF AdmissionSpec

\* The connection budget and the recovery budget are exact and within their limits,
\* whichever accept, handshake or admission fails, is dropped or ends with the process.
THEOREM BudgetsExact == AdmissionSpec => []BudgetExact
  <1>1. AdmissionInv => BudgetExact
    BY PermitsExact, Zenon DEF AdmissionInv
  <1> QED  BY <1>1, AdmissionHolds, PTL

\* The bytes of a call reach the application at most once, with the early open or by
\* its fallback, and not at all once the early open was refused.
THEOREM BytesDeliveredOnce == AdmissionSpec => []DeliveredOnce
  <1> QED  BY DeliveredMeans, AdmissionHolds, PTL

\* The server uses its issuer and cache only as they are meant to be used.
THEOREM AdmissionIsReplay == AdmissionSpec => ReplaySpec
  <1>1. AdmissionInit => ReplayInit
    BY Zenon DEF AdmissionInit
  <1>2. AdmissionInv /\ [AdmissionNext]_admissionVars => [ReplayNext]_replayVars
    BY CacheStep, Zenon
  <1> QED  BY <1>1, <1>2, AdmissionHolds, PTL DEF AdmissionSpec, ReplaySpec

\* So among all its calls, no attempt is admitted twice before its expiry has passed.
THEOREM AdmissionOnce == AdmissionSpec => AdmittedOnce /\ []Remembered
  <1> QED  BY AdmissionIsReplay, NeverAdmittedTwice, AlwaysRemembered, PTL
=============================================================================
