--------------------------- MODULE ReplayAdmission ---------------------------
(***************************************************************************)
(* The issuer of replay tokens and the bounded cache of the attempts that  *)
(* were admitted (session.rs).  A token binds an identity, the epoch of    *)
(* the server, an expiry and the capabilities of the connection that asked *)
(* for it; an attempt is a token's identity with the nonce of one call.    *)
(*                                                                         *)
(* A caller reads the clock before it takes the cache's lock, so readings  *)
(* reach the cache in any order, and the system clock itself may be set    *)
(* back.  A server that restarts has an empty cache and the next epoch.    *)
(***************************************************************************)
EXTENDS Integers, FiniteSets

CONSTANTS
    Identities,     \* what the random source yields
    Nonces,         \* the nonces of the callers
    KeptTokens,     \* what a caller may have from an earlier connection
    Capabilities,   \* fingerprints of negotiated capabilities
    MaxTime,        \* the largest time, where an expiry overflows
    MaxEpoch,       \* bounds the restarts
    max_attempts    \* the capacity of the cache

Times == 0 .. MaxTime
Epochs == 0 .. MaxEpoch
Attempts == Identities \X Nonces
Tokens == [identity : Identities, epoch : Epochs, expiry : Times, capabilities : Capabilities]

\* The range ReplayAdmission::new accepts, and identities that do not collide.
ASSUME ReplayAssumption ==
    /\ MaxTime \in Nat /\ MaxEpoch \in Nat
    /\ max_attempts \in Nat \ {0} /\ max_attempts <= 65536
    /\ Nonces # {} /\ Capabilities # {}
    /\ KeptTokens \subseteq {token \in Tokens : token.epoch = 0}

VARIABLES
    clock,          \* the system clock, in seconds of any origin
    epoch,          \* of the running server
    tokens,         \* the tokens issued, the genuine ones
    attempts,       \* the cache: the attempts it holds, with their expiry
    admitted,       \* every attempt admitted so far, with the token's expiry and epoch
    latest          \* the largest reading the cache has seen in this epoch

replayVars == <<clock, epoch, tokens, attempts, admitted, latest>>

Admission == [attempt : Attempts, expiry : Times, epoch : Epochs]

ReplayInit ==
    /\ clock = 0 /\ epoch = 0 /\ latest = 0
    /\ tokens = {} \/ \E token \in KeptTokens : tokens = {token}
    /\ attempts = {} /\ admitted = {}

\* issue: a fresh identity, and an expiry that neither overflows nor is now.
Issue(ttl, capabilities) ==
    /\ ttl # 0 /\ clock + ttl <= MaxTime
    /\ \E identity \in Identities :
           /\ \A token \in tokens : token.identity # identity
           /\ tokens' = tokens \cup {[identity |-> identity, epoch |-> epoch,
                                      expiry |-> clock + ttl, capabilities |-> capabilities]}
    /\ UNCHANGED <<clock, epoch, attempts, admitted, latest>>

\* Bug: a token of an earlier server is good for this one.
PresentableAnyEpoch(token, capabilities, now) ==
    /\ token \in tokens
    /\ token.expiry >= now
    /\ token.capabilities = capabilities

\* What admit checks before it takes the lock.
Presentable(token, capabilities, now) ==
    /\ token \in tokens
    /\ token.epoch = epoch
    /\ token.expiry >= now
    /\ token.capabilities = capabilities

Replayed(attempt, now) ==
    \E entry \in attempts : entry.attempt = attempt /\ entry.expiry >= now

\* What the cache holds once there is room for one more, if room can be made.
Retained(now) ==
    IF Cardinality(attempts) = max_attempts
    THEN {entry \in attempts : entry.expiry >= now}
    ELSE attempts

\* The verdict under the lock, for a token that is presentable.
Admits(attempt, now) ==
    /\ ~Replayed(attempt, now)
    /\ Cardinality(Retained(now)) < max_attempts

\* admit, under the lock: insert replaces the entry of an expired attempt, and a
\* cache that is refused for its size has lost no entry.
Remember(token, nonce, now) ==
    LET attempt == <<token.identity, nonce>>
        entry == [attempt |-> attempt, expiry |-> token.expiry, epoch |-> epoch]
    IN  /\ latest' = IF now > latest THEN now ELSE latest
        /\ IF Admits(attempt, now)
           THEN /\ attempts' = {kept \in Retained(now) : kept.attempt # attempt} \cup {entry}
                /\ admitted' = admitted \cup {entry}
           ELSE UNCHANGED <<attempts, admitted>>
        /\ UNCHANGED <<clock, epoch, tokens>>

\* The clock advances or is set back.
SetClock ==
    /\ clock' \in Times \ {clock}
    /\ UNCHANGED <<epoch, tokens, attempts, admitted, latest>>

\* A new process: the cache is gone and its owner gives the next epoch.
Restart ==
    /\ epoch < MaxEpoch
    /\ epoch' = epoch + 1
    /\ attempts' = {} /\ latest' = 0
    /\ UNCHANGED <<clock, tokens, admitted>>

ReplayNext ==
    \/ \E ttl \in Times, capabilities \in Capabilities : Issue(ttl, capabilities)
    \/ \E token \in tokens, nonce \in Nonces, capabilities \in Capabilities, now \in Times :
           Presentable(token, capabilities, now) /\ Remember(token, nonce, now)
    \/ SetClock
    \/ Restart

ReplaySpec == ReplayInit /\ [][ReplayNext]_replayVars

-----------------------------------------------------------------------------
\* An attempt is admitted again only if a reading past its token's expiry has already
\* reached the cache: never by readings that reach it in order, and not by a restart,
\* whatever order the callers' readings of the clock take the lock in.
AdmittedOnce ==
    [][\A entry \in attempts' \ attempts :
           (\E earlier \in admitted : earlier.attempt = entry.attempt) => entry.expiry < latest]_replayVars

\* What makes it so, in every state: a token is the only one of its identity, what was
\* admitted came from a token of the server, and what this server admitted is still in
\* the cache unless a reading has passed its expiry.
Remembered ==
    /\ \A one, other \in tokens : one.identity = other.identity => one = other
    /\ \A token \in tokens : token.epoch <= epoch
    /\ \A entry \in admitted : \E token \in tokens :
           /\ token.identity = entry.attempt[1]
           /\ token.expiry = entry.expiry /\ token.epoch = entry.epoch
    /\ \A entry \in admitted :
           entry.epoch = epoch => entry \in attempts \/ entry.expiry < latest
=============================================================================
