------------------------------- MODULE EsiClient -------------------------------
(***************************************************************************)
(* The client for EVE's API (ESI) that all parts of the backend share:     *)
(* EsiService.fetchJson.  An answer is kept in memory and in the database  *)
(* until it expires; calls for a URL that is being fetched join that       *)
(* fetch; a semaphore bounds the fetches in flight, by a limit that        *)
(* decays as ESI's error budget does; a fetch is conditional on what was   *)
(* cached, and is retried after an error that may pass.                    *)
(*                                                                         *)
(* A body is represented by its version at ESI.  Time is counted, for      *)
(* every URL, by the expiry of its answers: ESI may change a body only     *)
(* when the answers it gave have expired.                                  *)
(***************************************************************************)
EXTENDS Naturals, Sequences, FiniteSets

CONSTANTS
    Call,            \* slots for the callers of fetchJson; reused
    NoCall,          \* no call
    Key,             \* cache keys: a URL, with the character for authed ones
    Wants,           \* Wants[c]: the keys caller c asks for
    Fresh,           \* those fetched with forceRefresh or preferHeaders
    MaxConcurrency,  \* the initial limit
    MinConcurrency,  \* the lowest limit errors lead to
    Widener,         \* slots for the work that sets a limit of its own
    WideTo,          \* the limits it sets
    MaxRetries,      \* attempts at a request that fails
    LastPeriod       \* bound: LastPeriod[k]: expiries of k

\* A URL is always fetched in the same way: pages whose X-Pages is needed with
\* preferHeaders, the others without.
ASSUME EsiAssumption ==
    /\ IsFiniteSet(Call) /\ NoCall \notin Call /\ Key # {}
    /\ Wants \in [Call -> SUBSET Key] /\ Fresh \subseteq Key
    /\ MinConcurrency \in Nat \ {0} /\ MaxConcurrency \in Nat /\ MinConcurrency <= MaxConcurrency
    /\ WideTo \subseteq Nat \ {0}
    /\ MaxRetries \in Nat \ {0} /\ LastPeriod \in [Key -> Nat \ {0}]

VARIABLES
    period,    \* period[k]: the time of k, counted in expiries
    version,   \* version[k]: the body ESI has
    mem,       \* the cache in memory: entries [ver, exp], exp is the last period they are valid in
    db,        \* the cache in the database
    inflight,  \* inflight[k]: the call whose fetch the others join
    active,    \* slots of the semaphore in use
    limit,     \* effectiveMaxConcurrency
    widened,   \* widened[v]: the limit that v will restore; 0 if it set none
    waiters,   \* calls that wait for a slot
    call,      \* call[c]: the local variables of a call
    seen,      \* seen[k]: the newest version any call has returned (history)
    back       \* some call returned an older one than it had to (history)

world == <<period, version>>
cache == <<mem, db>>
history == <<seen, back>>
slots == <<active, limit, waiters, widened>>
esiVars == <<world, cache, inflight, slots, call, history>>

\* Versions count from 1; 0 stands for no entry, and for an error.
NoEntry == [ver |-> 0, exp |-> 0]
Entry(k) == {NoEntry} \cup [ver : 1..LastPeriod[k], exp : 1..LastPeriod[k]]

\* now: the time at which the call began; cached, row: what it found in memory and in
\* the database; got: the answer; floor: seen[k] when it began (history).
Idle == [pc |-> "idle", key |-> CHOOSE k \in Key : TRUE, now |-> 0, cached |-> NoEntry, row |-> NoEntry,
         got |-> NoEntry, attempt |-> 0, floor |-> 0]

\* The calls that fetch, and those of them that hold a slot.
Holding == {"send", "resend", "persist"}
Fetching == Holding \cup {"budget", "wait", "woken"}
Flights(k) == {c \in Call : call[c].pc \in Fetching /\ call[c].key = k}

Local == [pc : Fetching \cup {"idle", "db", "dbRead", "join"}, key : Key, now : Nat,
          cached : [ver : Nat, exp : Nat], row : [ver : Nat, exp : Nat], got : [ver : Nat, exp : Nat],
          attempt : 0..MaxRetries - 1, floor : Nat]

Limit == (MinConcurrency..MaxConcurrency) \cup UNION {1..n : n \in WideTo}

EsiTypeOK ==
    /\ period \in [Key -> Nat \ {0}] /\ version \in [Key -> Nat \ {0}]
    /\ \A k \in Key : version[k] <= period[k] /\ period[k] <= LastPeriod[k]
    /\ mem \in [Key -> UNION {Entry(k) : k \in Key}] /\ db \in [Key -> UNION {Entry(k) : k \in Key}]
    /\ \A k \in Key : {mem[k], db[k]} \subseteq Entry(k)
    /\ inflight \in [Key -> Call \cup {NoCall}]
    /\ active = Cardinality({c \in Call : call[c].pc \in Holding})
    /\ limit \in Limit /\ widened \in [Widener -> Limit \cup {0}]
    /\ waiters \in Seq(Call) /\ {waiters[i] : i \in 1..Len(waiters)} = {c \in Call : call[c].pc = "wait"}
    /\ call \in [Call -> Local]
    /\ \A c \in Call : {call[c].cached, call[c].row, call[c].got} \subseteq Entry(call[c].key)
    /\ seen \in [Key -> Nat] /\ back \in BOOLEAN

EsiInit ==
    /\ period = [k \in Key |-> 1] /\ version = [k \in Key |-> 1]
    /\ mem = [k \in Key |-> NoEntry] /\ db = [k \in Key |-> NoEntry]
    /\ inflight = [k \in Key |-> NoCall]
    /\ active = 0 /\ limit = MaxConcurrency /\ waiters = <<>> /\ widened = [v \in Widener |-> 0]
    /\ call = [c \in Call |-> Idle]
    /\ seen = [k \in Key |-> 0] /\ back = FALSE

--------------------------------------------------------------------------------
(* ESI and the caches                                                      *)

\* What was answered for k expires; the body may have changed.
Expire(k) ==
    /\ period[k] < LastPeriod[k]
    /\ period' = [period EXCEPT ![k] = @ + 1]
    /\ \E changed \in {0, 1} : version' = [version EXCEPT ![k] = @ + changed]
    /\ UNCHANGED <<cache, inflight, slots, call, history>>

\* The entry is swept out of memory, or dropped because the cache is full.
Forget(k) ==
    /\ mem[k] # NoEntry
    /\ mem' = [mem EXCEPT ![k] = NoEntry]
    /\ UNCHANGED <<world, db, inflight, slots, call, history>>

\* The cleanup job deletes rows that have expired.
CleanUp(k) ==
    /\ db[k] # NoEntry /\ db[k].exp < period[k]
    /\ db' = [db EXCEPT ![k] = NoEntry]
    /\ UNCHANGED <<world, mem, inflight, slots, call, history>>

--------------------------------------------------------------------------------
(* The semaphore                                                           *)

\* Mutant: the call that waits longest is not told.
ReleaseSilently ==
    /\ active' = active - 1
    /\ UNCHANGED waiters

\* A slot is given back; the call that waits longest is told, and takes a slot
\* when it runs.
Release ==
    /\ active' = active - 1
    /\ waiters' = IF waiters = <<>> THEN waiters ELSE Tail(waiters)

Woken == IF waiters' = waiters THEN NoCall ELSE Head(waiters)

Lower(n) == IF n \div 2 > MinConcurrency THEN n \div 2 ELSE MinConcurrency

\* The limit after an answer: it is halved when the budget is low, and at its
\* lowest when the budget is used up.
Budgets == {limit} \cup IF limit > MinConcurrency THEN {Lower(limit), MinConcurrency} ELSE {}

\* withMaxConcurrency: the limit is replaced while some work runs, which tells
\* nobody who waits, and then what it was before is restored.
Widen(v) == \E n \in WideTo :
    /\ widened[v] = 0
    /\ widened' = [widened EXCEPT ![v] = limit]
    /\ limit' = n
    /\ UNCHANGED <<world, cache, inflight, active, waiters, call, history>>

Restore(v) ==
    /\ widened[v] # 0
    /\ limit' = widened[v]
    /\ widened' = [widened EXCEPT ![v] = 0]
    /\ UNCHANGED <<world, cache, inflight, active, waiters, call, history>>

--------------------------------------------------------------------------------
(* fetchJson                                                               *)

\* These calls for k return, with a body, or an error if ver is 0.
Return(k, ver, floors) ==
    /\ seen' = [seen EXCEPT ![k] = IF ver > @ THEN ver ELSE @]
    /\ back' = (back \/ (ver # 0 /\ \E floor \in floors : ver < floor))

\* A call begins: memory may have the answer.
Enter(c, k) ==
    /\ call[c].pc = "idle"
    /\ IF k \notin Fresh /\ mem[k].exp >= period[k]
       THEN Return(k, mem[k].ver, {seen[k]}) /\ UNCHANGED call
       ELSE /\ call' = [call EXCEPT ![c] = [Idle EXCEPT !.pc = "db", !.key = k, !.now = period[k],
                                                       !.cached = mem[k], !.floor = seen[k]]]
            /\ UNCHANGED history
    /\ UNCHANGED <<world, cache, inflight, slots>>

ReadDb(c) ==
    /\ call[c].pc = "db"
    /\ call' = [call EXCEPT ![c].pc = "dbRead", ![c].row = db[call[c].key]]
    /\ UNCHANGED <<world, cache, inflight, slots, history>>

\* Mutant: a row is used although it has expired.
UseAnyRow(c) ==
    /\ call[c].pc = "dbRead" /\ call[c].row # NoEntry
    /\ call[c].key \notin Fresh
    /\ mem' = [mem EXCEPT ![call[c].key] = call[c].row]
    /\ call' = [call EXCEPT ![c] = Idle]
    /\ Return(call[c].key, call[c].row.ver, {call[c].floor})
    /\ UNCHANGED <<world, db, inflight, slots>>

\* The row is used, and remembered, if it had not expired when the call began.
UseRow(c) ==
    /\ call[c].pc = "dbRead"
    /\ call[c].key \notin Fresh /\ call[c].row.exp >= call[c].now
    /\ mem' = [mem EXCEPT ![call[c].key] = call[c].row]
    /\ call' = [call EXCEPT ![c] = Idle]
    /\ Return(call[c].key, call[c].row.ver, {call[c].floor})
    /\ UNCHANGED <<world, db, inflight, slots>>

\* Mutant: the fetches in flight are looked up by the call that began them.
FetchAlways(c) ==
    /\ call[c].pc = "dbRead"
    /\ call[c].key \in Fresh \/ call[c].row.exp < call[c].now
    /\ call' = [call EXCEPT ![c].pc = "budget", ![c].now = 0]
    /\ inflight' = [inflight EXCEPT ![call[c].key] = c]
    /\ UNCHANGED <<world, cache, slots, history>>

\* Otherwise the call joins the fetch in flight, or begins one, which the error
\* budget may hold up.
Fetch(c) ==
    /\ call[c].pc = "dbRead"
    /\ call[c].key \in Fresh \/ call[c].row.exp < call[c].now
    /\ IF inflight[call[c].key] # NoCall
       THEN /\ call' = [call EXCEPT ![c].pc = "join", ![c].now = 0, ![c].row = NoEntry, ![c].cached = NoEntry]
            /\ UNCHANGED inflight
       ELSE /\ call' = [call EXCEPT ![c].pc = "budget", ![c].now = 0]
            /\ inflight' = [inflight EXCEPT ![call[c].key] = c]
    /\ UNCHANGED <<world, cache, slots, history>>

\* A slot is taken, or waited for.
Acquire(c) ==
    /\ call[c].pc = "budget"
    /\ IF active < limit
       THEN active' = active + 1 /\ call' = [call EXCEPT ![c].pc = "send"] /\ UNCHANGED waiters
       ELSE waiters' = Append(waiters, c) /\ call' = [call EXCEPT ![c].pc = "wait"] /\ UNCHANGED active
    /\ UNCHANGED <<world, cache, inflight, limit, widened, history>>

\* Mutant: who was woken does not count its slot.
TakeSlotUncounted(c) ==
    /\ call[c].pc = "woken"
    /\ call' = [call EXCEPT ![c].pc = "send"]
    /\ UNCHANGED <<world, cache, inflight, slots, history>>

\* The slot is taken without another look at the limit.
TakeSlot(c) ==
    /\ call[c].pc = "woken"
    /\ active' = active + 1
    /\ call' = [call EXCEPT ![c].pc = "send"]
    /\ UNCHANGED <<world, cache, inflight, limit, waiters, widened, history>>

\* What was cached: its etag makes the request conditional, and its body is kept
\* when the answer is a 304.
Cached(c) == IF call[c].cached # NoEntry THEN call[c].cached ELSE call[c].row

\* ESI answers, 304 if it has the body that was offered and 200 otherwise; the
\* answer is remembered ...
Answer(c) ==
    /\ call[c].pc \in {"send", "resend"}
    /\ LET k == call[c].key
           notModified == Cached(c).ver = version[k]
           entry == [ver |-> IF notModified THEN Cached(c).ver ELSE version[k], exp |-> period[k]]
       IN  /\ mem' = [mem EXCEPT ![k] = entry]
           /\ call' = [call EXCEPT ![c].pc = "persist", ![c].got = entry,
                                   ![c].cached = NoEntry, ![c].row = NoEntry, ![c].attempt = 0]
    /\ limit' \in Budgets
    /\ UNCHANGED <<world, db, inflight, active, waiters, widened, history>>

\* The fetch of c ends, for it and for those who joined it.
End(c, ver) ==
    LET told == {c} \cup {d \in Call : call[d].pc = "join" /\ call[d].key = call[c].key}
    IN  /\ Release
        /\ inflight' = [inflight EXCEPT ![call[c].key] = NoCall]
        /\ call' = [d \in Call |-> IF d \in told THEN Idle
                                   ELSE IF d = Woken THEN [call[d] EXCEPT !.pc = "woken"] ELSE call[d]]
        /\ Return(call[c].key, ver, {call[d].floor : d \in told})

\* ... and saved, a failure of which is ignored.
Persist(c) ==
    /\ call[c].pc = "persist"
    /\ db' \in {db, [db EXCEPT ![call[c].key] = call[c].got]}
    /\ End(c, call[c].got.ver)
    /\ UNCHANGED <<world, mem, limit, widened>>

\* 420: the limit is lowered and the request is sent again once the budget is
\* reset; this is no attempt.
TooManyErrors(c) ==
    /\ call[c].pc = "send"
    /\ limit' \in IF limit > MinConcurrency THEN {Lower(limit), Lower(Lower(limit)), MinConcurrency} ELSE {limit}
    /\ UNCHANGED <<world, cache, inflight, active, waiters, widened, call, history>>

\* No answer, or a 5xx: another attempt.
Retry(c) ==
    /\ call[c].pc = "send" /\ call[c].attempt + 1 < MaxRetries
    /\ limit' \in Budgets
    /\ call' = [call EXCEPT ![c].attempt = @ + 1]
    /\ UNCHANGED <<world, cache, inflight, active, waiters, widened, history>>

\* 401, or a 403 for an invalid token: the token is replaced and the request is
\* sent once more; an error of that one is final.
Rotate(c) ==
    /\ call[c].pc = "send"
    /\ limit' \in Budgets
    /\ call' = [call EXCEPT ![c].pc = "resend"]
    /\ UNCHANGED <<world, cache, inflight, active, waiters, widened, history>>

\* Any other error, and the last attempt.
Fail(c) ==
    /\ call[c].pc \in {"send", "resend"}
    /\ limit' \in Budgets
    /\ End(c, 0)
    /\ UNCHANGED <<world, cache, widened>>

--------------------------------------------------------------------------------
EsiNext ==
    \/ \E k \in Key : Expire(k) \/ Forget(k) \/ CleanUp(k)
    \/ \E v \in Widener : Widen(v) \/ Restore(v)
    \/ \E c \in Call : \E k \in Wants[c] : Enter(c, k)
    \/ \E c \in Call :
          \/ ReadDb(c) \/ UseRow(c) \/ Fetch(c) \/ Acquire(c) \/ TakeSlot(c) \/ Answer(c) \/ Persist(c)
          \/ TooManyErrors(c) \/ Retry(c) \/ Rotate(c) \/ Fail(c)

EsiSpec == EsiInit /\ [][EsiNext]_esiVars

--------------------------------------------------------------------------------
(* Properties                                                              *)

\* A URL is fetched by one call at a time and the others join it, although the
\* lookup comes after an await of the database.
OneFlight == \A k \in Key : Flights(k) = {inflight[k]} \ {NoCall}

\* The caches never take a caller back: a call does not return an older body than
\* one that had been returned before it began, although entries expire while it
\* runs, rows are read before and used after other calls have finished, and saving
\* a row may have failed.
AnswersMonotonic == ~back

\* No caller is left behind: while calls wait for a slot, one that has a slot or is
\* about to take one will give it back and tell the next, and who joined a fetch
\* has somebody who runs it, whatever fails and however low the limit has become.
NobodyLeftBehind ==
    /\ waiters # <<>> => \E c \in Call : call[c].pc \in Holding \cup {"woken"}
    /\ \A c \in Call : call[c].pc = "join" => Flights(call[c].key) # {}

================================================================================
