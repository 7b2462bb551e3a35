---------------------------- MODULE CacheContract ----------------------------
(***************************************************************************)
(* What the register cache of src/register_cache.py promises, without its  *)
(* clock: for each register the last value read and how far it can be      *)
(* trusted.                                                                *)
(*   "never"      no entry: BAD/NEVER_READ                                 *)
(*   "good"       GOOD                                                     *)
(*   "uncertain"  UNCERTAIN: still served, not currently verifiable        *)
(*   "expired"    BAD/EXPIRED: uncertain for too long, no longer served    *)
(*   "pending"    BAD/WRITE_PENDING: known wrong since our own write       *)
(* RegisterCache, which has the clock, implements it; the poll cycle is    *)
(* built on it.                                                            *)
(***************************************************************************)
EXTENDS Integers

CONSTANTS
    Registers,  \* the registers the coordinator's entities ask for
    Static,     \* those of the STATIC tier, which never expire
    Values,     \* what a register can hold
    NoValue     \* the absence of a value

ASSUME RegistersAssumption == Static \subseteq Registers /\ NoValue \notin Values

VARIABLES
    value,      \* last value stored for each register
    status      \* trust in it

cacheVars == <<value, status>>

Statuses == {"never", "good", "uncertain", "expired", "pending"}

ContractTypeOK ==
    /\ value \in [Registers -> Values \cup {NoValue}]
    /\ status \in [Registers -> Statuses]
    /\ \A n \in Registers : value[n] = NoValue <=> status[n] = "never"

ContractInit ==
    /\ value = [n \in Registers |-> NoValue]
    /\ status = [n \in Registers |-> "never"]

\* GOOD and UNCERTAIN are served, BAD is not (merge, get).
Servable(s) == s \in {"good", "uncertain"}

-----------------------------------------------------------------------------
(* The status after each operation. *)

\* Mutant (before HS-2302-004): a miss makes a pending value servable again.
AfterMissForgetsPending(s) == IF s \in {"good", "pending"} THEN "uncertain" ELSE s

\* record_attempt with a failure, a refusal or a deferral.
AfterMiss(s) == IF s = "good" THEN "uncertain" ELSE s

\* invalidate: only a register that has an entry can be pending.
AfterInvalidate(s) == IF s = "never" THEN s ELSE "pending"

\* invalidate_all: a known pre-write value and a hardware constant stay as
\* they are.
AfterLinkLoss(n, s) == IF s = "good" /\ n \notin Static THEN "uncertain" ELSE s

\* update: every delivered register is GOOD, whatever it was.
StoredValues(v, results) ==
    [n \in Registers |-> IF n \in DOMAIN results THEN results[n] ELSE v[n]]

StoredStatuses(s, results) ==
    [n \in Registers |-> IF n \in DOMAIN results THEN "good" ELSE s[n]]

\* Which of these registers may pass their limit now: only what is uncertain
\* already (one miss is not enough), and never a hardware constant.
MayExpire(s, names) == SUBSET {n \in names \ Static : s[n] = "uncertain"}

\* The miss may be the one that exhausts the patience with some of them.
MissedStatuses(s, names, gone) ==
    [n \in Registers |-> IF n \in gone THEN "expired"
                         ELSE IF n \in names THEN AfterMiss(s[n]) ELSE s[n]]

-----------------------------------------------------------------------------
Store(results) ==
    /\ value' = StoredValues(value, results)
    /\ status' = StoredStatuses(status, results)

Miss(names) ==
    /\ \E gone \in MayExpire(status, names) :
          status' = MissedStatuses(status, names, gone)
    /\ UNCHANGED value

Invalidate(n) ==
    /\ status' = [status EXCEPT ![n] = AfterInvalidate(@)]
    /\ UNCHANGED value

LoseLink ==
    /\ status' = [n \in Registers |-> AfterLinkLoss(n, status[n])]
    /\ UNCHANGED value

\* Time passes; some uncertain values among these reach their limit together.
Expire(names) ==
    /\ \E gone \in MayExpire(status, names) :
          status' = MissedStatuses(status, {}, gone)
    /\ UNCHANGED value

ContractNext ==
    \/ \E names \in SUBSET Registers :
          \/ \E results \in [names -> Values] : Store(results)
          \/ Miss(names)
    \/ \E n \in Registers : Invalidate(n)
    \/ LoseLink
    \/ Expire(Registers)

ContractSpec == ContractInit /\ [][ContractNext]_cacheVars
=============================================================================
