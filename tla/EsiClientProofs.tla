---------------------------- MODULE EsiClientProofs ----------------------------
(***************************************************************************)
(* What EsiClient promises, for any number of callers, URLs, retries and   *)
(* any limit: it keeps its types, a URL is fetched by one call at a time,  *)
(* nobody is left behind, and the caches never take a caller back.         *)
(***************************************************************************)
EXTENDS EsiClient, FiniteSetTheorems, SequenceTheorems, TLAPS

--------------------------------------------------------------------------------
(* Type correctness                                                        *)

WorldOK ==
    /\ period \in [Key -> Nat \ {0}] /\ version \in [Key -> Nat \ {0}]
    /\ \A k \in Key : version[k] <= period[k] /\ period[k] <= LastPeriod[k]

CachesOK ==
    /\ mem \in [Key -> UNION {Entry(k) : k \in Key}] /\ db \in [Key -> UNION {Entry(k) : k \in Key}]
    /\ \A k \in Key : {mem[k], db[k]} \subseteq Entry(k)

LimitOK == limit \in Limit /\ widened \in [Widener -> Limit \cup {0}]

CallsOK ==
    /\ call \in [Call -> Local]
    /\ \A c \in Call : {call[c].cached, call[c].row, call[c].got} \subseteq Entry(call[c].key)

HistoryOK == seen \in [Key -> Nat] /\ back \in BOOLEAN

\* What depends on where the calls are.
HoldSet == {c \in Call : call[c].pc \in Holding}
WaitSet == {c \in Call : call[c].pc = "wait"}
Waiting == {waiters[i] : i \in 1..Len(waiters)}

SlotsOK ==
    /\ inflight \in [Key -> Call \cup {NoCall}]
    /\ active = Cardinality(HoldSet)
    /\ waiters \in Seq(Call) /\ Waiting = WaitSet

LEMMA Parts == EsiTypeOK <=> WorldOK /\ CachesOK /\ LimitOK /\ CallsOK /\ HistoryOK /\ SlotsOK
  BY DEF EsiTypeOK, WorldOK, CachesOK, LimitOK, CallsOK, HistoryOK, SlotsOK, HoldSet, WaitSet, Waiting

LEMMA Entries ==
    ASSUME NEW k \in Key
    PROVE  /\ NoEntry \in Entry(k) /\ NoEntry.ver = 0 /\ NoEntry.exp = 0
           /\ \A e \in Entry(k) : /\ e \in [ver : Nat, exp : Nat]
                                  /\ e.ver \in Nat /\ e.exp \in Nat /\ e.exp <= LastPeriod[k]
           /\ \A v, x \in 1..LastPeriod[k] : [ver |-> v, exp |-> x] \in Entry(k)
           /\ \A e \in Entry(k) : e # NoEntry => e.ver # 0 /\ e.exp # 0
  BY EsiAssumption DEF Entry, NoEntry

LEMMA IdleOK ==
    /\ Idle \in Local /\ Idle.pc = "idle" /\ Idle.key \in Key
    /\ Idle.cached = NoEntry /\ Idle.row = NoEntry /\ Idle.got = NoEntry
    /\ Idle.now = 0 /\ Idle.floor = 0
<1>1. (CHOOSE k \in Key : TRUE) \in Key
  BY EsiAssumption
<1>2. NoEntry \in [ver : Nat, exp : Nat] /\ 0 \in 0..MaxRetries - 1
  BY EsiAssumption DEF NoEntry
<1> QED
  BY <1>1, <1>2 DEF Idle, Local

LEMMA Fields ==
    ASSUME CallsOK, NEW c \in Call
    PROVE  /\ call[c].pc \in Fetching \cup {"idle", "db", "dbRead", "join"}
           /\ call[c].key \in Key /\ call[c].now \in Nat /\ call[c].floor \in Nat
           /\ call[c].attempt \in 0..MaxRetries - 1
           /\ call[c].cached \in Entry(call[c].key) /\ call[c].row \in Entry(call[c].key)
           /\ call[c].got \in Entry(call[c].key)
  BY DEF CallsOK, Local

\* One call changes.
LEMMA OneCall ==
    ASSUME CallsOK, NEW c \in Call, NEW new \in Local, call' = [call EXCEPT ![c] = new],
           {new.cached, new.row, new.got} \subseteq Entry(new.key)
    PROVE  CallsOK' /\ call'[c] = new /\ \A d \in Call \ {c} : call'[d] = call[d]
  BY DEF CallsOK

LEMMA LowerLimit == \A n \in Limit : n \in Nat \ {0} /\ Lower(n) \in Limit
<1> SUFFICES ASSUME NEW n \in Limit PROVE n \in Nat \ {0} /\ Lower(n) \in Limit
  OBVIOUS
<1>1. n \in Nat \ {0} /\ MinConcurrency \in Limit
  BY EsiAssumption DEF Limit
<1>2. CASE n \div 2 > MinConcurrency
  <2>1. n \div 2 \in Nat \ {0} /\ n \div 2 <= n
    BY <1>1, <1>2, EsiAssumption
  <2>2. n \div 2 \in Limit
    <3>1. CASE n \in MinConcurrency..MaxConcurrency
      BY <1>2, <2>1, <3>1, EsiAssumption DEF Limit
    <3>2. CASE \E m \in WideTo : n \in 1..m
      BY <2>1, <3>2, EsiAssumption DEF Limit
    <3> QED BY <3>1, <3>2 DEF Limit
  <2> QED BY <1>1, <1>2, <2>2 DEF Lower
<1>3. CASE ~(n \div 2 > MinConcurrency)
  BY <1>1, <1>3 DEF Lower
<1> QED BY <1>2, <1>3

LEMMA BudgetsOK == ASSUME LimitOK PROVE Budgets \subseteq Limit /\ Lower(limit) \in Limit /\ Lower(Lower(limit)) \in Limit
<1>1. MinConcurrency \in Limit
  BY EsiAssumption DEF Limit
<1> QED
  BY <1>1, LowerLimit DEF LimitOK, Budgets

LEMMA TypeStart == EsiInit => EsiTypeOK
<1> SUFFICES ASSUME EsiInit PROVE EsiTypeOK
  OBVIOUS
<1> USE DEF EsiInit
<1>1. WorldOK
  BY EsiAssumption DEF WorldOK
<1>2. CachesOK
  <2>1. \A k \in Key : NoEntry \in Entry(k)
    BY Entries
  <2> QED BY <2>1 DEF CachesOK
<1>3. LimitOK
  BY EsiAssumption DEF LimitOK, Limit
<1>4. CallsOK
  BY IdleOK, Entries DEF CallsOK
<1>5. HistoryOK
  BY DEF HistoryOK
<1>6. SlotsOK
  <2>1. {c \in Call : call[c].pc \in Holding} = {} /\ {c \in Call : call[c].pc = "wait"} = {}
    BY IdleOK DEF Holding
  <2>2. Cardinality({}) = 0
    BY FS_EmptySet
  <2>3. waiters \in Seq(Call) /\ Len(waiters) = 0
    OBVIOUS
  <2>4. {waiters[i] : i \in 1..Len(waiters)} = {}
    BY <2>3
  <2> QED
    BY <2>1, <2>2, <2>3, <2>4 DEF SlotsOK, HoldSet, WaitSet, Waiting
<1> QED
  BY <1>1, <1>2, <1>3, <1>4, <1>5, <1>6, Parts

--------------------------------------------------------------------------------
(* Where the calls are                                                     *)

Distinct == \A i, j \in 1..Len(waiters) : waiters[i] = waiters[j] => i = j

\* inflight tells who fetches: OneFlight, call by call.
OwnFlight ==
    \A c \in Call, k \in Key : call[c].pc \in Fetching /\ call[c].key = k <=> inflight[k] = c

Joined == \A c \in Call : call[c].pc = "join" => inflight[call[c].key] # NoCall

Tended == waiters # <<>> => \E c \in Call : call[c].pc \in Holding \cup {"woken"}

Shape == SlotsOK /\ Distinct /\ OwnFlight /\ Joined /\ Tended

LEMMA HoldingFinite == IsFiniteSet(HoldSet)
  BY EsiAssumption, FS_Subset DEF HoldSet

\* Steps of calls that leave every fetch where it is.
LEMMA ShapeQuiet ==
    ASSUME CallsOK, CallsOK', Shape, UNCHANGED <<inflight, active, waiters>>,
           \A d \in Call : \/ call'[d].pc = call[d].pc /\ call'[d].key = call[d].key
                           \/ {call[d].pc, call'[d].pc} \cap (Fetching \cup {"join"}) = {}
                           \/ {call[d].pc, call'[d].pc} \subseteq Holding /\ call'[d].key = call[d].key
    PROVE  Shape'
<1> USE DEF Holding, Fetching
<1>1. /\ HoldSet' = HoldSet
      /\ WaitSet' = WaitSet
  BY DEF HoldSet, WaitSet
<1>2. SlotsOK'
  BY <1>1 DEF Shape, SlotsOK, Waiting
<1>3. \A d \in Call : /\ call'[d].pc \in Fetching <=> call[d].pc \in Fetching
                      /\ call'[d].pc = "join" <=> call[d].pc = "join"
                      /\ call'[d].pc \in Fetching \cup {"join"} => call'[d].key = call[d].key
  <2> TAKE d \in Call
  <2>1. CASE call'[d].pc = call[d].pc /\ call'[d].key = call[d].key
    BY <2>1
  <2>2. CASE {call[d].pc, call'[d].pc} \cap (Fetching \cup {"join"}) = {}
    <3> HIDE DEF Holding, Fetching
    <3>1. /\ call[d].pc \notin Fetching /\ call'[d].pc \notin Fetching
          /\ call[d].pc # "join" /\ call'[d].pc # "join"
      BY <2>2
    <3> QED BY <3>1
  <2>3. CASE {call[d].pc, call'[d].pc} \subseteq Holding /\ call'[d].key = call[d].key
    BY <2>3
  <2> QED BY <2>1, <2>2, <2>3
<1>4. OwnFlight'
  <2> SUFFICES ASSUME NEW c \in Call, NEW k \in Key
               PROVE  (call'[c].pc \in Fetching /\ call'[c].key = k) <=> inflight[k] = c
    BY DEF OwnFlight
  <2>1. call[c].pc \in Fetching /\ call[c].key = k <=> inflight[k] = c
    BY DEF Shape, OwnFlight
  <2> QED BY <1>3, <2>1
<1>5. Joined'
  BY <1>3 DEF Shape, Joined
<1>6. Distinct' /\ Tended'
  BY DEF Shape, Distinct, Tended
<1> QED
  BY <1>2, <1>4, <1>5, <1>6 DEF Shape

\* A call joins a fetch.
LEMMA ShapeJoin ==
    ASSUME Shape, CallsOK, NEW c \in Call, UNCHANGED <<inflight, active, waiters>>,
           call[c].pc = "dbRead", call'[c].pc = "join", call'[c].key = call[c].key,
           inflight[call[c].key] # NoCall, \A d \in Call \ {c} : call'[d] = call[d]
    PROVE  Shape'
<1> USE DEF Holding, Fetching
<1>1. /\ HoldSet' = HoldSet
      /\ WaitSet' = WaitSet
  BY DEF HoldSet, WaitSet
<1> QED
  <2>1. SlotsOK'
    BY <1>1 DEF Shape, SlotsOK, Waiting
  <2>2. OwnFlight'
    BY DEF Shape, OwnFlight
  <2>3. Joined'
    BY DEF Shape, Joined
  <2>4. Distinct' /\ Tended'
    BY DEF Shape, Distinct, Tended
  <2> QED BY <2>1, <2>2, <2>3, <2>4 DEF Shape

\* A call begins a fetch.
LEMMA ShapeBegin ==
    ASSUME Shape, CallsOK, NEW c \in Call, UNCHANGED <<active, waiters>>,
           call[c].pc = "dbRead", call'[c].pc = "budget", call'[c].key = call[c].key,
           inflight[call[c].key] = NoCall, inflight' = [inflight EXCEPT ![call[c].key] = c],
           \A d \in Call \ {c} : call'[d] = call[d]
    PROVE  Shape'
<1> USE DEF Holding, Fetching
<1>1. /\ HoldSet' = HoldSet
      /\ WaitSet' = WaitSet
  BY DEF HoldSet, WaitSet
<1>2. call[c].key \in Key
  BY Fields
<1>3. SlotsOK'
  BY <1>1, <1>2 DEF Shape, SlotsOK, Waiting
<1>4. OwnFlight'
  BY <1>2, EsiAssumption DEF Shape, SlotsOK, OwnFlight
<1>5. Joined'
  BY <1>2, Fields, EsiAssumption DEF Shape, SlotsOK, Joined
<1>6. Distinct' /\ Tended'
  BY DEF Shape, Distinct, Tended
<1> QED
  BY <1>3, <1>4, <1>5, <1>6 DEF Shape

\* A call that fetches takes a slot.
LEMMA ShapeSlot ==
    ASSUME Shape, CallsOK, NEW c \in Call, UNCHANGED <<inflight, waiters>>, active' = active + 1,
           call[c].pc \in {"budget", "woken"}, call'[c].pc = "send", call'[c].key = call[c].key,
           \A d \in Call \ {c} : call'[d] = call[d]
    PROVE  Shape'
<1> USE DEF Holding, Fetching
<1>1. /\ HoldSet' = HoldSet \cup {c}
      /\ WaitSet' = WaitSet
      /\ c \notin HoldSet
  BY DEF HoldSet, WaitSet
<1>2. SlotsOK'
  <2>1. Cardinality(HoldSet')
          = Cardinality(HoldSet) + 1
    BY <1>1, HoldingFinite, FS_AddElement
  <2> QED
    BY <1>1, <2>1 DEF Shape, SlotsOK, Waiting
<1>3. OwnFlight' /\ Joined'
  BY DEF Shape, OwnFlight, Joined
<1>4. Distinct' /\ Tended'
  BY DEF Shape, Distinct, Tended
<1> QED
  BY <1>2, <1>3, <1>4 DEF Shape

\* A call finds all slots in use, one at least, and waits.
LEMMA ShapeWait ==
    ASSUME Shape, CallsOK, LimitOK, NEW c \in Call, UNCHANGED <<inflight, active>>,
           ~(active < limit), waiters' = Append(waiters, c),
           call[c].pc = "budget", call'[c].pc = "wait", call'[c].key = call[c].key,
           \A d \in Call \ {c} : call'[d] = call[d]
    PROVE  Shape'
<1> USE DEF Holding, Fetching
<1>1. /\ HoldSet' = HoldSet
      /\ WaitSet' = WaitSet \cup {c}
  BY DEF HoldSet, WaitSet
<1>2. /\ waiters \in Seq(Call) /\ Len(waiters) \in Nat
      /\ waiters' \in Seq(Call) /\ Len(waiters') = Len(waiters) + 1
      /\ \A i \in 1..Len(waiters) : waiters'[i] = waiters[i]
      /\ waiters'[Len(waiters) + 1] = c
  BY AppendProperties DEF Shape, SlotsOK
<1>3. Waiting' = Waiting \cup {c}
  BY <1>2 DEF Waiting
<1>4. c \notin Waiting /\ Waiting = WaitSet
  BY DEF Shape, SlotsOK, WaitSet
<1>5. SlotsOK'
  BY <1>1, <1>2, <1>3, <1>4 DEF Shape, SlotsOK
<1>6. Distinct'
  <2>1. \A i \in 1..Len(waiters) : waiters[i] # c
    BY <1>4 DEF Waiting
  <2> QED
    BY <1>2, <2>1 DEF Shape, Distinct
<1>7. OwnFlight' /\ Joined'
  BY DEF Shape, OwnFlight, Joined
<1>8. Tended'
  <2>1. limit \in Nat \ {0} /\ active = Cardinality(HoldSet) /\ Cardinality(HoldSet) \in Nat
    BY LowerLimit, HoldingFinite, FS_CardinalityType DEF Shape, SlotsOK, LimitOK
  <2>2. HoldSet # {}
    <3>1. Cardinality(HoldSet) # 0
      BY <2>1
    <3> QED BY <3>1, FS_EmptySet
  <2>3. PICK d \in Call : call[d].pc \in Holding
    BY <2>2 DEF HoldSet
  <2>4. call'[d].pc \in Holding
    BY <2>3
  <2> QED BY <2>4 DEF Tended
<1> QED
  BY <1>5, <1>6, <1>7, <1>8 DEF Shape

Told(c) == {c} \cup {d \in Call : call[d].pc = "join" /\ call[d].key = call[c].key}

\* The end of a fetch: who is told, and who is woken, if anybody waits.
LEMMA EndEffect ==
    ASSUME Shape, CallsOK, NEW c \in Call, call[c].pc \in Holding, NEW ver, End(c, ver)
    PROVE  /\ active' = active - 1
           /\ inflight[call[c].key] = c /\ inflight' = [inflight EXCEPT ![call[c].key] = NoCall]
           /\ \/ waiters = <<>> /\ waiters' = <<>> /\ Woken = NoCall
              \/ waiters # <<>> /\ waiters' = Tail(waiters) /\ Woken = waiters[1] /\ Woken \in WaitSet
           /\ \A d \in Told(c) : call'[d] = Idle
           /\ \A d \in Call \ Told(c) : d # Woken => call'[d] = call[d]
           /\ Woken \in Call => /\ Woken \notin Told(c)
                                /\ call'[Woken] = [call[Woken] EXCEPT !.pc = "woken"]
                                /\ call'[Woken].pc = "woken" /\ call'[Woken].key = call[Woken].key
<1>1. waiters \in Seq(Call) /\ Waiting = WaitSet
  BY DEF Shape, SlotsOK
<1>2. active' = active - 1 /\ waiters' = IF waiters = <<>> THEN waiters ELSE Tail(waiters)
  BY DEF End, Release
<1>3. \/ waiters = <<>> /\ waiters' = <<>> /\ Woken = NoCall
      \/ waiters # <<>> /\ waiters' = Tail(waiters) /\ Woken = waiters[1] /\ Woken \in WaitSet
  <2>1. CASE waiters = <<>>
    BY <1>2, <2>1 DEF Woken
  <2>2. CASE waiters # <<>>
    <3>1. Len(waiters) \in Nat \ {0} /\ Len(Tail(waiters)) = Len(waiters) - 1 /\ Head(waiters) = waiters[1]
      BY <1>1, <2>2, HeadTailProperties
    <3>2. Woken = waiters[1]
      <4>1. waiters' = Tail(waiters)
        BY <1>2, <2>2
      <4>2. \A n \in Nat \ {0} : n - 1 # n
        OBVIOUS
      <4>3. waiters' # waiters
        BY <3>1, <4>1, <4>2, Zenon
      <4> QED BY <3>1, <4>3 DEF Woken
    <3>3. waiters[1] \in Waiting
      BY <3>1 DEF Waiting
    <3> QED BY <1>1, <1>2, <2>2, <3>2, <3>3
  <2> QED BY <2>1, <2>2
<1>4. call[c].key \in Key /\ inflight[call[c].key] = c
  BY Fields DEF Shape, OwnFlight, Fetching
<1>5. inflight' = [inflight EXCEPT ![call[c].key] = NoCall]
  BY DEF End
<1>6. call' = [d \in Call |-> IF d \in Told(c) THEN Idle
                             ELSE IF d = Woken THEN [call[d] EXCEPT !.pc = "woken"] ELSE call[d]]
  BY DEF End, Told
<1>7. Woken \in Call => Woken \in WaitSet /\ Woken \notin Told(c)
  BY <1>3, EsiAssumption DEF WaitSet, Told, Holding
<1>8. Told(c) \subseteq Call
  BY DEF Told
<1>9. Woken \in Call => /\ call'[Woken] = [call[Woken] EXCEPT !.pc = "woken"]
                       /\ call'[Woken].pc = "woken" /\ call'[Woken].key = call[Woken].key
  BY <1>6, <1>7 DEF CallsOK, Local
<1>10. \A d \in Call : /\ d \in Told(c) => call'[d] = Idle
                       /\ d \notin Told(c) /\ d # Woken => call'[d] = call[d]
  BY <1>6
<1> QED
  BY <1>2, <1>3, <1>4, <1>5, <1>7, <1>8, <1>9, <1>10

LEMMA ShapeEnd ==
    ASSUME Shape, CallsOK, NEW c \in Call, call[c].pc \in Holding, NEW ver, End(c, ver)
    PROVE  Shape'
<1> DEFINE w == Woken
           told == Told(c)
           key == call[c].key
<1>1. /\ active' = active - 1
      /\ inflight[key] = c /\ inflight' = [inflight EXCEPT ![key] = NoCall]
      /\ \/ waiters = <<>> /\ waiters' = <<>> /\ w = NoCall
         \/ waiters # <<>> /\ waiters' = Tail(waiters) /\ w = waiters[1] /\ w \in WaitSet
      /\ \A d \in told : call'[d] = Idle
      /\ \A d \in Call \ told : d # w => call'[d] = call[d]
      /\ w \in Call => w \notin told /\ call'[w].pc = "woken" /\ call'[w].key = call[w].key
  BY EndEffect
<1>2. /\ c \in told /\ told \subseteq Call /\ key \in Key
      /\ \A d \in told : d = c \/ (call[d].pc = "join" /\ call[d].key = key)
      /\ \A d \in Call : call[d].pc = "join" /\ call[d].key = key => d \in told
  BY Fields DEF Told
<1>3. Idle.pc = "idle"
  BY IdleOK
<1>4. w \in Call => call[w].pc = "wait"
  BY <1>1, EsiAssumption DEF WaitSet
<1> HIDE DEF w, told, key
<1>5. HoldSet' = HoldSet \ {c}
  <2>1. \A d \in Call : call'[d].pc \in Holding <=> call[d].pc \in Holding /\ d # c
    <3> TAKE d \in Call
    <3>1. CASE d \in told
      BY <1>1, <1>2, <1>3, <3>1 DEF Holding
    <3>2. CASE d \notin told /\ d = w
      BY <1>1, <1>2, <1>4, <3>2 DEF Holding
    <3>3. CASE d \notin told /\ d # w
      BY <1>1, <1>2, <3>3
    <3> QED BY <3>1, <3>2, <3>3
  <2> QED BY <2>1 DEF HoldSet
<1>6. WaitSet' = WaitSet \ {w}
  <2>1. \A d \in Call : call'[d].pc = "wait" <=> call[d].pc = "wait" /\ d # w
    <3> TAKE d \in Call
    <3>1. CASE d \in told
      BY <1>1, <1>2, <1>3, <3>1 DEF Holding
    <3>2. CASE d \notin told /\ d = w
      BY <1>1, <3>2
    <3>3. CASE d \notin told /\ d # w
      BY <1>1, <3>3
    <3> QED BY <3>1, <3>2, <3>3
  <2> QED BY <2>1 DEF WaitSet
<1>7. /\ waiters' \in Seq(Call) /\ Waiting' = WaitSet'
      /\ Distinct'
      /\ waiters' # <<>> => w \in Call
  <2>1. waiters \in Seq(Call) /\ Waiting = WaitSet /\ Distinct
    BY DEF Shape, SlotsOK
  <2>2. CASE waiters = <<>>
    <3>1. waiters' = waiters /\ w = NoCall /\ w \notin WaitSet
      BY <1>1, <2>2, EsiAssumption DEF WaitSet
    <3>2. Waiting' = Waiting /\ Distinct'
      BY <2>1, <3>1 DEF Waiting, Distinct
    <3> QED BY <1>6, <2>1, <2>2, <3>1, <3>2
  <2>3. CASE waiters # <<>>
    <3>1. /\ waiters' = Tail(waiters) /\ w = waiters[1] /\ w \in Call
      BY <1>1, <2>3 DEF WaitSet
    <3>2. /\ waiters' \in Seq(Call) /\ Len(waiters) \in Nat \ {0} /\ Len(waiters') = Len(waiters) - 1
          /\ \A i \in 1..Len(waiters') : waiters'[i] = waiters[i + 1]
      BY <2>1, <2>3, <3>1, HeadTailProperties
    <3>3. \A i, j \in 1..Len(waiters) : waiters[i] = waiters[j] => i = j
      BY <2>1 DEF Distinct
    <3>4. Distinct'
      <4> SUFFICES ASSUME NEW i \in 1..Len(waiters'), NEW j \in 1..Len(waiters'), waiters'[i] = waiters'[j]
                   PROVE  i = j
        BY DEF Distinct
      <4>1. i + 1 \in 1..Len(waiters) /\ j + 1 \in 1..Len(waiters) /\ waiters[i + 1] = waiters[j + 1]
        BY <3>2
      <4>2. i + 1 = j + 1
        BY <3>3, <4>1
      <4> QED BY <4>2
    <3>5. Waiting' = Waiting \ {w}
      <4>1. ASSUME NEW x \in Waiting' PROVE x \in Waiting /\ x # w
        <5>1. PICK i \in 1..Len(waiters') : x = waiters'[i]
          BY <4>1 DEF Waiting
        <5>2. i + 1 \in 1..Len(waiters) /\ x = waiters[i + 1] /\ i + 1 # 1 /\ 1 \in 1..Len(waiters)
          BY <3>2, <5>1
        <5>3. x # w
          BY <3>1, <3>3, <5>2
        <5> QED BY <5>2, <5>3 DEF Waiting
      <4>2. ASSUME NEW x \in Waiting, x # w PROVE x \in Waiting'
        <5>1. PICK i \in 1..Len(waiters) : x = waiters[i]
          BY <4>2 DEF Waiting
        <5>2. i - 1 \in 1..Len(waiters') /\ x = waiters'[i - 1]
          BY <3>1, <3>2, <4>2, <5>1
        <5> QED BY <5>2 DEF Waiting
      <4> QED BY <4>1, <4>2
    <3> QED BY <1>6, <2>1, <3>1, <3>2, <3>4, <3>5
  <2> QED BY <2>2, <2>3
<1>8. SlotsOK'
  <2>1. c \in HoldSet /\ active = Cardinality(HoldSet)
    BY DEF HoldSet, Shape, SlotsOK
  <2>2. Cardinality(HoldSet') = Cardinality(HoldSet) - 1
    BY <1>5, <2>1, HoldingFinite, FS_RemoveElement
  <2>3. inflight' \in [Key -> Call \cup {NoCall}]
    BY <1>1 DEF Shape, SlotsOK
  <2> QED BY <1>1, <1>7, <2>1, <2>2, <2>3 DEF SlotsOK
<1>9. OwnFlight'
  <2> SUFFICES ASSUME NEW d \in Call, NEW k \in Key
               PROVE  (call'[d].pc \in Fetching /\ call'[d].key = k) <=> inflight'[k] = d
    BY DEF OwnFlight
  <2>1. /\ call[d].pc \in Fetching /\ call[d].key = k <=> inflight[k] = d
        /\ inflight[k] \in Call \cup {NoCall}
        /\ inflight'[k] = IF k = key THEN NoCall ELSE inflight[k]
    BY <1>1 DEF Shape, OwnFlight, SlotsOK
  <2>2. CASE d = c
    BY <1>1, <1>2, <1>3, <2>1, <2>2, EsiAssumption DEF Fetching, Holding, key
  <2>3. CASE d # c /\ d \in told
    BY <1>1, <1>2, <1>3, <2>1, <2>3, EsiAssumption DEF Fetching, Holding
  <2>4. CASE d \notin told
    <3>1. call'[d].key = call[d].key /\ (call'[d].pc \in Fetching <=> call[d].pc \in Fetching)
      BY <1>1, <1>4, <2>4 DEF Fetching
    <3>2. k = key => inflight[k] # d
      BY <1>1, <1>2, <2>4
    <3> QED BY <2>1, <3>1, <3>2, EsiAssumption
  <2> QED BY <2>2, <2>3, <2>4
<1>10. Joined'
  <2> SUFFICES ASSUME NEW d \in Call, call'[d].pc = "join" PROVE inflight'[call'[d].key] # NoCall
    BY DEF Joined
  <2>1. d \notin told /\ d # w
    BY <1>1, <1>3
  <2>2. call'[d] = call[d] /\ call[d].key # key /\ call[d].key \in Key
    BY <1>1, <1>2, <2>1, Fields
  <2> QED BY <1>1, <2>2 DEF Shape, Joined, SlotsOK
<1>11. Tended'
  BY <1>1, <1>7 DEF Tended
<1> QED
  BY <1>7, <1>8, <1>9, <1>10, <1>11 DEF Shape

--------------------------------------------------------------------------------
(* Every step keeps the types and the shape.                               *)

Types == WorldOK /\ CachesOK /\ LimitOK /\ CallsOK /\ HistoryOK

FlightInv == Types /\ Shape

LEMMA ReturnOK ==
    ASSUME HistoryOK, NEW k \in Key, NEW ver \in Nat, NEW floors, Return(k, ver, floors)
    PROVE  HistoryOK'
  BY DEF HistoryOK, Return

LEMMA HistorySame == ASSUME HistoryOK, UNCHANGED history PROVE HistoryOK'
  BY DEF HistoryOK, history

LEMMA WorldStep ==
    ASSUME FlightInv, NEW k \in Key, Expire(k) \/ Forget(k) \/ CleanUp(k)
    PROVE  FlightInv'
<1>1. UNCHANGED <<inflight, slots, call, history>>
  BY DEF Expire, Forget, CleanUp
<1>2. WorldOK'
  <2>1. CASE Expire(k)
    <3>1. PICK changed \in {0, 1} : version' = [version EXCEPT ![k] = @ + changed]
      BY <2>1 DEF Expire
    <3>2. period' = [period EXCEPT ![k] = @ + 1] /\ period[k] < LastPeriod[k]
      BY <2>1 DEF Expire
    <3>3. WorldOK /\ LastPeriod \in [Key -> Nat \ {0}]
      BY EsiAssumption DEF FlightInv, Types
    <3>4. \A j \in Key : /\ period[j] \in Nat \ {0} /\ version[j] \in Nat \ {0} /\ LastPeriod[j] \in Nat
                        /\ version[j] <= period[j] /\ period[j] <= LastPeriod[j]
      BY <3>3 DEF WorldOK
    <3>5. version[k] + changed \in Nat \ {0} /\ period[k] + 1 \in Nat \ {0}
      BY <3>1, <3>4
    <3>6. period' \in [Key -> Nat \ {0}] /\ version' \in [Key -> Nat \ {0}]
      BY <3>1, <3>2, <3>3, <3>5 DEF WorldOK
    <3>7. /\ \A j \in Key \ {k} : period'[j] = period[j] /\ version'[j] = version[j]
          /\ period'[k] = period[k] + 1 /\ version'[k] = version[k] + changed
      BY <3>1, <3>2, <3>3 DEF WorldOK
    <3>8. version'[k] <= period'[k] /\ period'[k] <= LastPeriod[k]
      BY <3>1, <3>2, <3>4, <3>7
    <3>9. \A j \in Key : version'[j] <= period'[j] /\ period'[j] <= LastPeriod[j]
      BY <3>4, <3>7, <3>8
    <3> QED BY <3>6, <3>9 DEF WorldOK
  <2>2. CASE Forget(k) \/ CleanUp(k)
    BY <2>2 DEF Forget, CleanUp, world, FlightInv, Types, WorldOK
  <2> QED BY <2>1, <2>2
<1>3. CachesOK'
  <2>1. CASE Expire(k)
    BY <2>1 DEF Expire, cache, FlightInv, Types, CachesOK
  <2>2. CASE Forget(k) \/ CleanUp(k)
    BY <2>2, Entries DEF Forget, CleanUp, FlightInv, Types, CachesOK
  <2> QED BY <2>1, <2>2
<1>4. LimitOK' /\ CallsOK' /\ HistoryOK'
  BY <1>1, HistorySame DEF slots, FlightInv, Types, LimitOK, CallsOK
<1>5. Shape'
  BY <1>1, <1>4, ShapeQuiet DEF slots, FlightInv, Types
<1> QED
  BY <1>2, <1>3, <1>4, <1>5 DEF FlightInv, Types

LEMMA WidenStep ==
    ASSUME FlightInv, NEW v \in Widener, Widen(v) \/ Restore(v)
    PROVE  FlightInv'
<1>1. UNCHANGED <<world, cache, inflight, active, waiters, call, history>>
  BY DEF Widen, Restore
<1>2. LimitOK'
  <2>1. CASE Widen(v)
    <3>1. PICK n \in WideTo : limit' = n /\ widened' = [widened EXCEPT ![v] = limit]
      BY <2>1 DEF Widen
    <3>2. n \in 1..n
      BY EsiAssumption
    <3>3. n \in Limit
      BY <3>2 DEF Limit
    <3> QED BY <3>1, <3>3 DEF FlightInv, Types, LimitOK
  <2>2. CASE Restore(v)
    BY <2>2 DEF Restore, FlightInv, Types, LimitOK
  <2> QED BY <2>1, <2>2
<1>3. WorldOK' /\ CachesOK' /\ CallsOK' /\ HistoryOK'
  BY <1>1, HistorySame DEF world, cache, FlightInv, Types, WorldOK, CachesOK, CallsOK
<1>4. Shape'
  BY <1>1, <1>3, ShapeQuiet DEF FlightInv, Types
<1> QED
  BY <1>2, <1>3, <1>4 DEF FlightInv, Types

\* A step that changes one call and not the world.
LEMMA TypesOf ==
    ASSUME FlightInv, NEW c \in Call, NEW new \in Local, call' = [call EXCEPT ![c] = new],
           {new.cached, new.row, new.got} \subseteq Entry(new.key),
           CachesOK', LimitOK', HistoryOK', UNCHANGED world
    PROVE  Types' /\ call'[c] = new /\ \A d \in Call \ {c} : call'[d] = call[d]
<1>1. CallsOK' /\ call'[c] = new /\ \A d \in Call \ {c} : call'[d] = call[d]
  BY OneCall DEF FlightInv, Types
<1>2. WorldOK'
  BY DEF FlightInv, Types, WorldOK, world
<1> QED
  BY <1>1, <1>2 DEF Types

LEMMA CacheSame == ASSUME FlightInv, UNCHANGED cache PROVE CachesOK'
  BY DEF FlightInv, Types, CachesOK, cache

LEMMA LimitSame == ASSUME FlightInv, UNCHANGED <<limit, widened>> PROVE LimitOK'
  BY DEF FlightInv, Types, LimitOK

LEMMA EnterStep == ASSUME FlightInv, NEW c \in Call, NEW k \in Key, Enter(c, k) PROVE FlightInv'
<1>1. UNCHANGED <<world, cache, inflight, slots>> /\ call[c].pc = "idle"
  BY DEF Enter
<1>2. CachesOK' /\ LimitOK'
  BY <1>1, CacheSame, LimitSame DEF slots
<1>3. mem[k] \in Entry(k) /\ seen[k] \in Nat /\ period[k] \in Nat
  BY DEF FlightInv, Types, CachesOK, HistoryOK, WorldOK
<1>4. CASE UNCHANGED call /\ Return(k, mem[k].ver, {seen[k]})
  <2>1. HistoryOK'
    BY <1>3, <1>4, Entries, ReturnOK DEF FlightInv, Types
  <2>2. Types'
    BY <1>1, <1>2, <1>4, <2>1 DEF FlightInv, Types, WorldOK, world, CallsOK
  <2> QED
    BY <1>1, <1>4, <2>2, ShapeQuiet DEF FlightInv, Types, slots
<1>5. CASE ~(UNCHANGED call /\ Return(k, mem[k].ver, {seen[k]}))
  <2> DEFINE new == [Idle EXCEPT !.pc = "db", !.key = k, !.now = period[k], !.cached = mem[k],
                                 !.floor = seen[k]]
  <2>1. call' = [call EXCEPT ![c] = new] /\ UNCHANGED history
    BY <1>5 DEF Enter
  <2>2. mem[k] \in [ver : Nat, exp : Nat]
    BY <1>3, Entries
  <2>3. /\ new \in Local /\ new.pc = "db" /\ new.key = k
        /\ new.cached = mem[k] /\ new.row = NoEntry /\ new.got = NoEntry
    BY <1>3, <2>2, IdleOK DEF Local, Idle
  <2>4. {new.cached, new.row, new.got} \subseteq Entry(new.key)
    BY <1>3, <2>3, Entries
  <2>5. HistoryOK'
    BY <2>1, HistorySame DEF FlightInv, Types
  <2> HIDE DEF new
  <2>6. Types' /\ call'[c] = new /\ \A d \in Call \ {c} : call'[d] = call[d]
    BY <1>1, <1>2, <2>1, <2>3, <2>4, <2>5, TypesOf
  <2>7. {call[c].pc, call'[c].pc} \cap (Fetching \cup {"join"}) = {}
    BY <1>1, <2>3, <2>6 DEF Fetching, Holding
  <2> QED
    BY <1>1, <2>6, <2>7, ShapeQuiet DEF FlightInv, Types, slots
<1> QED BY <1>4, <1>5

LEMMA ReadDbStep == ASSUME FlightInv, NEW c \in Call, ReadDb(c) PROVE FlightInv'
<1> DEFINE new == [call[c] EXCEPT !.pc = "dbRead", !.row = db[call[c].key]]
<1>1. UNCHANGED <<world, cache, inflight, slots, history>> /\ call[c].pc = "db"
  BY DEF ReadDb
<1>2. CachesOK' /\ LimitOK' /\ HistoryOK'
  BY <1>1, CacheSame, LimitSame, HistorySame DEF slots, FlightInv, Types
<1>3. call[c] \in Local /\ call[c].key \in Key /\ db[call[c].key] \in Entry(call[c].key)
  BY Fields DEF FlightInv, Types, CachesOK, CallsOK
<1>4. db[call[c].key] \in [ver : Nat, exp : Nat]
  BY <1>3, Entries
<1>5. /\ new \in Local /\ new.pc = "dbRead" /\ new.key = call[c].key
      /\ new.cached = call[c].cached /\ new.row = db[call[c].key] /\ new.got = call[c].got
  BY <1>3, <1>4 DEF Local
<1>6. {new.cached, new.row, new.got} \subseteq Entry(new.key)
  BY <1>3, <1>5, Fields DEF FlightInv, Types
<1>7. call' = [call EXCEPT ![c] = new]
  BY DEF ReadDb, FlightInv, Types, CallsOK, Local
<1> HIDE DEF new
<1>8. Types' /\ call'[c] = new /\ \A d \in Call \ {c} : call'[d] = call[d]
  BY <1>1, <1>2, <1>5, <1>6, <1>7, TypesOf
<1>9. {call[c].pc, call'[c].pc} \cap (Fetching \cup {"join"}) = {}
  BY <1>1, <1>5, <1>8 DEF Fetching, Holding
<1> QED
  BY <1>1, <1>8, <1>9, ShapeQuiet DEF FlightInv, Types, slots

LEMMA UseRowStep == ASSUME FlightInv, NEW c \in Call, UseRow(c) PROVE FlightInv'
<1>1. /\ UNCHANGED <<world, db, inflight, slots>> /\ call[c].pc = "dbRead"
      /\ mem' = [mem EXCEPT ![call[c].key] = call[c].row] /\ call' = [call EXCEPT ![c] = Idle]
      /\ Return(call[c].key, call[c].row.ver, {call[c].floor})
  BY DEF UseRow
<1>2. call[c].key \in Key /\ call[c].row \in Entry(call[c].key) /\ call[c].row.ver \in Nat
  BY Fields, Entries DEF FlightInv, Types
<1>3. CachesOK'
  BY <1>1, <1>2 DEF FlightInv, Types, CachesOK
<1>4. LimitOK' /\ HistoryOK'
  BY <1>1, <1>2, LimitSame, ReturnOK DEF slots, FlightInv, Types
<1>5. {Idle.cached, Idle.row, Idle.got} \subseteq Entry(Idle.key)
  BY IdleOK, Entries
<1>6. Types' /\ call'[c] = Idle /\ \A d \in Call \ {c} : call'[d] = call[d]
  BY <1>1, <1>3, <1>4, <1>5, IdleOK, TypesOf
<1>7. {call[c].pc, call'[c].pc} \cap (Fetching \cup {"join"}) = {}
  BY <1>1, <1>6, IdleOK DEF Fetching, Holding
<1> QED
  BY <1>1, <1>6, <1>7, ShapeQuiet DEF FlightInv, Types, slots

\* A call that goes on, with the same key and answer and less at hand.
LEMMA MoveOn ==
    ASSUME FlightInv, NEW c \in Call, NEW new \in Local, call' = [call EXCEPT ![c] = new],
           new.key = call[c].key, new.cached \in {call[c].cached, NoEntry},
           new.row \in {call[c].row, NoEntry}, new.got = call[c].got,
           LimitOK', UNCHANGED <<world, cache, history>>
    PROVE  /\ Types' /\ call'[c] = new /\ \A d \in Call \ {c} : call'[d] = call[d]
<1>1. {new.cached, new.row, new.got} \subseteq Entry(new.key)
  BY Fields, Entries DEF FlightInv, Types
<1>2. CachesOK' /\ HistoryOK'
  BY CacheSame, HistorySame DEF FlightInv, Types
<1> QED
  BY <1>1, <1>2, TypesOf

LEMMA FetchStep == ASSUME FlightInv, NEW c \in Call, Fetch(c) PROVE FlightInv'
<1>1. UNCHANGED <<world, cache, slots, history>> /\ call[c].pc = "dbRead"
  BY DEF Fetch
<1>2. call[c] \in Local /\ call[c].key \in Key /\ LimitOK'
  BY <1>1, Fields, LimitSame DEF slots, FlightInv, Types, CallsOK
<1>3. CASE inflight[call[c].key] # NoCall
  <2> DEFINE new == [call[c] EXCEPT !.pc = "join", !.now = 0, !.row = NoEntry, !.cached = NoEntry]
  <2>1. call' = [call EXCEPT ![c] = new] /\ UNCHANGED inflight
    BY <1>3 DEF Fetch, FlightInv, Types, CallsOK, Local
  <2>2. NoEntry \in [ver : Nat, exp : Nat]
    BY DEF NoEntry
  <2>3. /\ new \in Local /\ new.pc = "join" /\ new.key = call[c].key
        /\ new.cached = NoEntry /\ new.row = NoEntry /\ new.got = call[c].got
    BY <1>2, <2>2 DEF Local
  <2> HIDE DEF new
  <2>4. Types' /\ call'[c] = new /\ \A d \in Call \ {c} : call'[d] = call[d]
    BY <1>1, <1>2, <2>1, <2>3, MoveOn
  <2>5. Shape'
    BY <1>1, <1>3, <2>1, <2>3, <2>4, ShapeJoin DEF FlightInv, Types, slots
  <2> QED BY <2>4, <2>5 DEF FlightInv
<1>4. CASE inflight[call[c].key] = NoCall
  <2> DEFINE new == [call[c] EXCEPT !.pc = "budget", !.now = 0]
  <2>1. call' = [call EXCEPT ![c] = new] /\ inflight' = [inflight EXCEPT ![call[c].key] = c]
    BY <1>4 DEF Fetch, FlightInv, Types, CallsOK, Local
  <2>2. /\ new \in Local /\ new.pc = "budget" /\ new.key = call[c].key
        /\ new.cached = call[c].cached /\ new.row = call[c].row /\ new.got = call[c].got
    BY <1>2 DEF Local, Fetching
  <2> HIDE DEF new
  <2>3. Types' /\ call'[c] = new /\ \A d \in Call \ {c} : call'[d] = call[d]
    BY <1>1, <1>2, <2>1, <2>2, MoveOn
  <2>4. Shape'
    BY <1>1, <1>4, <2>1, <2>2, <2>3, ShapeBegin DEF FlightInv, Types, slots
  <2> QED BY <2>3, <2>4 DEF FlightInv
<1> QED BY <1>3, <1>4

\* A call that fetches, at another place of its fetch.
LEMMA NextPlace ==
    ASSUME FlightInv, NEW c \in Call, NEW pc \in Fetching, call' = [call EXCEPT ![c].pc = pc],
           LimitOK', UNCHANGED <<world, cache, history>>
    PROVE  /\ Types' /\ call'[c].pc = pc /\ call'[c].key = call[c].key
           /\ \A d \in Call \ {c} : call'[d] = call[d]
<1> DEFINE new == [call[c] EXCEPT !.pc = pc]
<1>1. call[c] \in Local /\ call' = [call EXCEPT ![c] = new]
  BY DEF FlightInv, Types, CallsOK
<1>2. /\ new \in Local /\ new.pc = pc /\ new.key = call[c].key
      /\ new.cached = call[c].cached /\ new.row = call[c].row /\ new.got = call[c].got
  BY <1>1 DEF Local
<1> HIDE DEF new
<1> QED
  BY <1>1, <1>2, MoveOn

LEMMA AcquireStep == ASSUME FlightInv, NEW c \in Call, Acquire(c) PROVE FlightInv'
<1>1. UNCHANGED <<world, cache, inflight, limit, widened, history>> /\ call[c].pc = "budget"
  BY DEF Acquire
<1>2. LimitOK'
  BY <1>1, LimitSame
<1>3. CASE active < limit
  <2>1. active' = active + 1 /\ call' = [call EXCEPT ![c].pc = "send"] /\ UNCHANGED waiters
    BY <1>3 DEF Acquire
  <2>2. "send" \in Fetching
    BY DEF Fetching, Holding
  <2>3. Types' /\ call'[c].pc = "send" /\ call'[c].key = call[c].key /\ \A d \in Call \ {c} : call'[d] = call[d]
    BY <1>1, <1>2, <2>1, <2>2, NextPlace
  <2> QED BY <1>1, <2>1, <2>3, ShapeSlot DEF FlightInv, Types
<1>4. CASE ~(active < limit)
  <2>1. waiters' = Append(waiters, c) /\ call' = [call EXCEPT ![c].pc = "wait"] /\ UNCHANGED active
    BY <1>4 DEF Acquire
  <2>2. "wait" \in Fetching
    BY DEF Fetching
  <2>3. Types' /\ call'[c].pc = "wait" /\ call'[c].key = call[c].key /\ \A d \in Call \ {c} : call'[d] = call[d]
    BY <1>1, <1>2, <2>1, <2>2, NextPlace
  <2> QED BY <1>1, <1>4, <2>1, <2>3, ShapeWait DEF FlightInv, Types
<1> QED BY <1>3, <1>4

LEMMA TakeSlotStep == ASSUME FlightInv, NEW c \in Call, TakeSlot(c) PROVE FlightInv'
<1>1. /\ UNCHANGED <<world, cache, inflight, limit, waiters, widened, history>> /\ call[c].pc = "woken"
      /\ active' = active + 1 /\ call' = [call EXCEPT ![c].pc = "send"]
  BY DEF TakeSlot
<1>2. LimitOK' /\ "send" \in Fetching
  BY <1>1, LimitSame DEF Fetching, Holding
<1>3. Types' /\ call'[c].pc = "send" /\ call'[c].key = call[c].key /\ \A d \in Call \ {c} : call'[d] = call[d]
  BY <1>1, <1>2, NextPlace
<1> QED BY <1>1, <1>3, ShapeSlot DEF FlightInv, Types

\* What is left to show of the steps of a call that keeps its slot.
LEMMA KeepsSlot ==
    ASSUME FlightInv, Types', NEW c \in Call, UNCHANGED <<inflight, active, waiters>>,
           {call[c].pc, call'[c].pc} \subseteq Holding, call'[c].key = call[c].key,
           \A d \in Call \ {c} : call'[d] = call[d]
    PROVE  FlightInv'
  BY ShapeQuiet DEF FlightInv, Types

LEMMA RotateStep == ASSUME FlightInv, NEW c \in Call, Rotate(c) PROVE FlightInv'
<1>1. /\ UNCHANGED <<world, cache, inflight, active, waiters, widened, history>> /\ call[c].pc = "send"
      /\ call' = [call EXCEPT ![c].pc = "resend"] /\ limit' \in Budgets
  BY DEF Rotate
<1>2. LimitOK'
  BY <1>1, BudgetsOK DEF FlightInv, Types, LimitOK
<1>3. "resend" \in Fetching /\ {"send", "resend"} \subseteq Holding
  BY DEF Fetching, Holding
<1>4. Types' /\ call'[c].pc = "resend" /\ call'[c].key = call[c].key /\ \A d \in Call \ {c} : call'[d] = call[d]
  BY <1>1, <1>2, <1>3, NextPlace
<1> QED BY <1>1, <1>3, <1>4, KeepsSlot

LEMMA RetryStep == ASSUME FlightInv, NEW c \in Call, Retry(c) PROVE FlightInv'
<1> DEFINE new == [call[c] EXCEPT !.attempt = @ + 1]
<1>1. /\ UNCHANGED <<world, cache, inflight, active, waiters, widened, history>> /\ call[c].pc = "send"
      /\ call[c].attempt + 1 < MaxRetries /\ limit' \in Budgets
  BY DEF Retry
<1>2. LimitOK'
  BY <1>1, BudgetsOK DEF FlightInv, Types, LimitOK
<1>3. call[c] \in Local /\ call' = [call EXCEPT ![c] = new]
  BY DEF Retry, FlightInv, Types, CallsOK
<1>4. call[c].attempt + 1 \in 0..MaxRetries - 1
  BY <1>1, Fields, EsiAssumption DEF FlightInv, Types
<1>5. /\ new \in Local /\ new.pc = "send" /\ new.key = call[c].key
      /\ new.cached = call[c].cached /\ new.row = call[c].row /\ new.got = call[c].got
  BY <1>1, <1>3, <1>4 DEF Local
<1> HIDE DEF new
<1>6. Types' /\ call'[c] = new /\ \A d \in Call \ {c} : call'[d] = call[d]
  BY <1>1, <1>2, <1>3, <1>5, MoveOn
<1>7. "send" \in Holding
  BY DEF Holding
<1> QED BY <1>1, <1>5, <1>6, <1>7, KeepsSlot

LEMMA TooManyErrorsStep == ASSUME FlightInv, NEW c \in Call, TooManyErrors(c) PROVE FlightInv'
<1>1. UNCHANGED <<world, cache, inflight, active, waiters, widened, call, history>>
  BY DEF TooManyErrors
<1>2. LimitOK'
  <2>1. Limit \subseteq Nat /\ MinConcurrency \in Limit
    BY EsiAssumption DEF Limit
  <2> QED
    BY <1>1, <2>1, BudgetsOK DEF TooManyErrors, FlightInv, Types, LimitOK
<1>3. Types'
  BY <1>1, <1>2, CacheSame, HistorySame DEF world, FlightInv, Types, WorldOK, CallsOK
<1> QED BY <1>1, <1>3, ShapeQuiet DEF FlightInv, Types

LEMMA AnswerStep == ASSUME FlightInv, NEW c \in Call, Answer(c) PROVE FlightInv'
<1> DEFINE k == call[c].key
           entry == [ver |-> IF Cached(c).ver = version[k] THEN Cached(c).ver ELSE version[k], exp |-> period[k]]
           new == [call[c] EXCEPT !.pc = "persist", !.got = entry, !.cached = NoEntry, !.row = NoEntry,
                                  !.attempt = 0]
<1>1. /\ UNCHANGED <<world, db, inflight, active, waiters, widened, history>>
      /\ call[c].pc \in {"send", "resend"} /\ limit' \in Budgets
      /\ mem' = [mem EXCEPT ![k] = entry]
  BY DEF Answer
<1>2. LimitOK' /\ HistoryOK'
  BY <1>1, BudgetsOK, HistorySame DEF FlightInv, Types, LimitOK
<1>3. k \in Key /\ call[c] \in Local
  BY Fields DEF FlightInv, Types, CallsOK
<1>4. entry = [ver |-> version[k], exp |-> period[k]]
  OBVIOUS
<1>5. version[k] \in 1..LastPeriod[k] /\ period[k] \in 1..LastPeriod[k]
  BY <1>3, EsiAssumption DEF FlightInv, Types, WorldOK
<1>6. entry \in Entry(k) /\ entry \in [ver : Nat, exp : Nat]
  BY <1>3, <1>4, <1>5, Entries
<1>7. call' = [call EXCEPT ![c] = new]
  BY <1>3 DEF Answer, FlightInv, Types, CallsOK, Local
<1>8. NoEntry \in [ver : Nat, exp : Nat] /\ 0 \in 0..MaxRetries - 1
  BY EsiAssumption DEF NoEntry
<1> HIDE DEF entry
<1>9. /\ new \in Local /\ new.pc = "persist" /\ new.key = k
      /\ new.cached = NoEntry /\ new.row = NoEntry /\ new.got = entry
  BY <1>3, <1>6, <1>8 DEF Local, Fetching, Holding
<1>10. {new.cached, new.row, new.got} \subseteq Entry(new.key)
  BY <1>3, <1>6, <1>9, Entries
<1> HIDE DEF new
<1>11. CachesOK'
  BY <1>1, <1>3, <1>6 DEF FlightInv, Types, CachesOK
<1>12. Types' /\ call'[c] = new /\ \A d \in Call \ {c} : call'[d] = call[d]
  BY <1>1, <1>2, <1>7, <1>9, <1>10, <1>11, TypesOf
<1>13. {"send", "resend", "persist"} \subseteq Holding
  BY DEF Holding
<1> QED BY <1>1, <1>9, <1>12, <1>13, KeepsSlot

LEMMA EndStep ==
    ASSUME FlightInv, NEW c \in Call, call[c].pc \in Holding, NEW ver \in Nat, End(c, ver),
           CachesOK', LimitOK', UNCHANGED world
    PROVE  FlightInv'
<1>1. Shape'
  BY ShapeEnd DEF FlightInv, Types
<1>2. HistoryOK'
  <2>1. Return(call[c].key, ver, {call[d].floor : d \in {c} \cup {d \in Call : call[d].pc = "join" /\ call[d].key = call[c].key}})
    BY DEF End
  <2> QED BY <2>1, Fields, ReturnOK DEF FlightInv, Types
<1>3. CallsOK'
  <2>1. call' = [d \in Call |-> IF d \in Told(c) THEN Idle
                               ELSE IF d = Woken THEN [call[d] EXCEPT !.pc = "woken"] ELSE call[d]]
    BY DEF End, Told
  <2>2. \A d \in Call : /\ call'[d] \in Local
                        /\ {call'[d].cached, call'[d].row, call'[d].got} \subseteq Entry(call'[d].key)
    <3> TAKE d \in Call
    <3>1. CASE d \in Told(c)
      BY <2>1, <3>1, IdleOK, Entries
    <3>2. CASE d \notin Told(c) /\ d = Woken
      <4>1. call[d] \in Local /\ call'[d] = [call[d] EXCEPT !.pc = "woken"]
        BY <2>1, <3>2 DEF FlightInv, Types, CallsOK
      <4>2. /\ call'[d] \in Local /\ call'[d].key = call[d].key
            /\ call'[d].cached = call[d].cached /\ call'[d].row = call[d].row /\ call'[d].got = call[d].got
        BY <4>1 DEF Local, Fetching
      <4> QED BY <4>2, Fields DEF FlightInv, Types
    <3>3. CASE d \notin Told(c) /\ d # Woken
      BY <2>1, <3>3 DEF FlightInv, Types, CallsOK
    <3> QED BY <3>1, <3>2, <3>3
  <2> QED BY <2>1, <2>2 DEF CallsOK
<1>4. WorldOK'
  BY DEF world, FlightInv, Types, WorldOK
<1> QED BY <1>1, <1>2, <1>3, <1>4 DEF FlightInv, Types

LEMMA PersistStep == ASSUME FlightInv, NEW c \in Call, Persist(c) PROVE FlightInv'
<1>1. /\ call[c].pc = "persist" /\ End(c, call[c].got.ver) /\ UNCHANGED <<world, mem, limit, widened>>
      /\ db' \in {db, [db EXCEPT ![call[c].key] = call[c].got]}
  BY DEF Persist
<1>2. call[c].key \in Key /\ call[c].got \in Entry(call[c].key) /\ call[c].got.ver \in Nat
  BY Fields, Entries DEF FlightInv, Types
<1>3. CachesOK'
  BY <1>1, <1>2 DEF FlightInv, Types, CachesOK
<1>4. LimitOK' /\ call[c].pc \in Holding
  BY <1>1, LimitSame DEF Holding
<1> QED BY <1>1, <1>2, <1>3, <1>4, EndStep

LEMMA FailStep == ASSUME FlightInv, NEW c \in Call, Fail(c) PROVE FlightInv'
<1>1. call[c].pc \in Holding /\ End(c, 0) /\ UNCHANGED <<world, cache, widened>> /\ limit' \in Budgets
  BY DEF Fail, Holding
<1>2. LimitOK' /\ CachesOK'
  BY <1>1, BudgetsOK, CacheSame DEF FlightInv, Types, LimitOK
<1> QED BY <1>1, <1>2, EndStep

LEMMA FlightStart == EsiInit => FlightInv
<1> SUFFICES ASSUME EsiInit PROVE FlightInv
  OBVIOUS
<1>1. Types /\ SlotsOK
  BY TypeStart, Parts DEF Types
<1>2. \A c \in Call : call[c].pc = "idle"
  BY IdleOK DEF EsiInit
<1>3. OwnFlight /\ Joined
  BY <1>2, EsiAssumption DEF EsiInit, OwnFlight, Joined, Fetching, Holding
<1>4. waiters = <<>> /\ Len(waiters) = 0
  BY DEF EsiInit
<1>5. Distinct /\ Tended
  BY <1>4 DEF Distinct, Tended
<1> QED BY <1>1, <1>3, <1>5 DEF FlightInv, Shape

LEMMA FlightStep == FlightInv /\ [EsiNext]_esiVars => FlightInv'
<1> SUFFICES ASSUME FlightInv, [EsiNext]_esiVars PROVE FlightInv'
  OBVIOUS
<1>1. ASSUME NEW k \in Key, Expire(k) \/ Forget(k) \/ CleanUp(k) PROVE FlightInv'
  BY <1>1, WorldStep
<1>2. ASSUME NEW v \in Widener, Widen(v) \/ Restore(v) PROVE FlightInv'
  BY <1>2, WidenStep
<1>3. ASSUME NEW c \in Call, NEW k \in Wants[c], Enter(c, k) PROVE FlightInv'
  BY <1>3, EnterStep, EsiAssumption
<1>4. ASSUME NEW c \in Call,
             \/ ReadDb(c) \/ UseRow(c) \/ Fetch(c) \/ Acquire(c) \/ TakeSlot(c) \/ Answer(c) \/ Persist(c)
             \/ TooManyErrors(c) \/ Retry(c) \/ Rotate(c) \/ Fail(c)
      PROVE  FlightInv'
  BY <1>4, ReadDbStep, UseRowStep, FetchStep, AcquireStep, TakeSlotStep, AnswerStep, PersistStep,
     TooManyErrorsStep, RetryStep, RotateStep, FailStep
<1>5. CASE UNCHANGED esiVars
  <2>1. UNCHANGED <<world, cache, inflight, active, limit, waiters, widened, call, history>>
    BY <1>5 DEF esiVars, slots
  <2>2. Types'
    BY <2>1, CacheSame, LimitSame, HistorySame DEF world, FlightInv, Types, WorldOK, CallsOK
  <2> QED BY <2>1, <2>2, ShapeQuiet DEF FlightInv, Types
<1> QED
  BY <1>1, <1>2, <1>3, <1>4, <1>5 DEF EsiNext

LEMMA FlightAlways == EsiSpec => []FlightInv
  BY FlightStart, FlightStep, PTL DEF EsiSpec

--------------------------------------------------------------------------------
(* Theorems                                                                *)

\* The types hold in every reachable state: the semaphore counts exactly the calls
\* that hold a slot, the queue holds exactly those that wait, and the limit never
\* falls to 0, whatever errors and wideners do to it.
THEOREM EsiTyped == EsiSpec => []EsiTypeOK
<1>1. FlightInv => EsiTypeOK
  BY Parts DEF FlightInv, Types, Shape
<1> QED
  BY <1>1, FlightAlways, PTL

\* A URL is fetched by one call at a time, although fetchJson looks for a fetch in
\* flight only after it has awaited the database.
THEOREM FlightIsSingle == EsiSpec => []OneFlight
<1>1. FlightInv => OneFlight
  <2> SUFFICES ASSUME FlightInv, NEW k \in Key PROVE Flights(k) = {inflight[k]} \ {NoCall}
    BY DEF OneFlight
  <2>1. inflight[k] \in Call \cup {NoCall}
    BY DEF FlightInv, Shape, SlotsOK
  <2>2. \A c \in Call : c \in Flights(k) <=> inflight[k] = c
    BY DEF FlightInv, Shape, OwnFlight, Flights
  <2>3. Flights(k) \subseteq Call
    BY DEF Flights
  <2> QED BY <2>1, <2>2, <2>3, EsiAssumption
<1> QED
  BY <1>1, FlightAlways, PTL

\* While calls wait for a slot somebody will tell them, and who joined a fetch has
\* somebody who runs it: the wake-ups of the semaphore are not lost.
THEOREM NobodyIsLeft == EsiSpec => []NobodyLeftBehind
<1>1. FlightInv => NobodyLeftBehind
  <2> SUFFICES ASSUME FlightInv PROVE NobodyLeftBehind
    OBVIOUS
  <2>1. \A c \in Call : call[c].pc = "join" => Flights(call[c].key) # {}
    <3> SUFFICES ASSUME NEW c \in Call, call[c].pc = "join" PROVE Flights(call[c].key) # {}
      OBVIOUS
    <3>1. call[c].key \in Key /\ inflight[call[c].key] \in Call
      BY Fields DEF FlightInv, Types, Shape, SlotsOK, Joined
    <3>2. inflight[call[c].key] \in Flights(call[c].key)
      BY <3>1 DEF FlightInv, Shape, OwnFlight, Flights
    <3> QED BY <3>2
  <2> QED BY <2>1 DEF NobodyLeftBehind, FlightInv, Shape, Tended
<1> QED
  BY <1>1, FlightAlways, PTL

--------------------------------------------------------------------------------
(* The caches never take a caller back.  What is kept of a URL, in memory,   *)
(* in the database or in the hands of a call, is either the newest body or   *)
(* has expired.  So a row is good for a caller, whenever it was read, if it  *)
(* had not expired when the caller began.                                    *)

\* The calls that may still use a row.
Asking == {"db", "dbRead"}

Rows(k) == {call[c].row : c \in {d \in Call : call[d].key = k}}
Stored(k) == {mem[k], db[k]} \cup Rows(k)
Kept(k) == Stored(k) \cup {call[c].got : c \in {d \in Call : call[d].key = k}}

Newest(k) == [ver |-> version[k], exp |-> period[k]]

Floors ==
    /\ \A k \in Key : seen[k] <= version[k]
    /\ \A c \in Call : call[c].floor <= seen[call[c].key] /\ (call[c].pc \in Asking => call[c].now # 0)

Stamped ==
    \A k \in Key : \A e \in Kept(k) : /\ e.exp <= period[k] /\ e.ver <= version[k]
                                      /\ e.exp = period[k] => e.ver = version[k]

\* What had not expired when a call began is not older than what it must return.
Ahead ==
    \A k \in Key : \A e \in Kept(k) : \A c \in Call :
        call[c].pc \in Asking /\ call[c].key = k /\ e.exp >= call[c].now => e.ver >= call[c].floor

\* An answer that is about to be returned is the newest of all that anybody has.
Landed ==
    \A c \in Call : call[c].pc = "persist" =>
        /\ seen[call[c].key] <= call[c].got.ver
        /\ \A e \in Stored(call[c].key) : e.ver <= call[c].got.ver

CacheInv == Floors /\ Stamped /\ Ahead /\ Landed /\ ~back

LEMMA KeptOK ==
    ASSUME FlightInv, NEW k \in Key
    PROVE  /\ \A e \in Kept(k) \cup {NoEntry, Newest(k)} : e.ver \in Nat /\ e.exp \in Nat
           /\ Newest(k).ver = version[k] /\ Newest(k).exp = period[k]
           /\ NoEntry.ver = 0 /\ NoEntry.exp = 0
           /\ period[k] \in Nat \ {0} /\ version[k] \in Nat \ {0} /\ seen[k] \in Nat
<1>1. period[k] \in Nat \ {0} /\ version[k] \in Nat \ {0} /\ seen[k] \in Nat
  BY DEF FlightInv, Types, WorldOK, HistoryOK
<1>2. Kept(k) \subseteq Entry(k)
  <2>1. mem[k] \in Entry(k) /\ db[k] \in Entry(k)
    BY DEF FlightInv, Types, CachesOK
  <2>2. \A c \in Call : call[c].row \in Entry(call[c].key) /\ call[c].got \in Entry(call[c].key)
    BY Fields DEF FlightInv, Types
  <2> QED BY <2>1, <2>2 DEF Kept, Stored, Rows
<1> QED
  BY <1>1, <1>2, Entries DEF Newest

\* Steps at which no time passes: nothing comes up but what is kept already or is
\* the newest, and a call begins only with what is true when it does.
LEMMA Steady ==
    ASSUME FlightInv, FlightInv', CacheInv, UNCHANGED world,
           \A k \in Key : {mem'[k], db'[k]} \subseteq Kept(k) \cup {NoEntry, Newest(k)},
           \A d \in Call :
               \/ call'[d] = Idle
               \/ /\ call'[d].pc = "db" /\ call'[d].row = NoEntry /\ call'[d].got = NoEntry
                  /\ call'[d].now = period[call'[d].key] /\ call'[d].floor = seen[call'[d].key]
               \/ /\ call'[d].key = call[d].key /\ call'[d].floor = call[d].floor
                  /\ call'[d].row \in Kept(call[d].key) \cup {NoEntry}
                  /\ call'[d].got \in {call[d].got, Newest(call[d].key)}
                  /\ call'[d].pc \in Asking => call[d].pc \in Asking /\ call'[d].now = call[d].now,
           \A k \in Key : seen[k] <= seen'[k] /\ (seen'[k] = seen[k] \/ \E e \in Kept(k) : seen'[k] = e.ver)
    PROVE  Floors' /\ Stamped' /\ Ahead'
<1>1. UNCHANGED <<period, version>>
  BY DEF world
<1>2. \A d \in Call : call[d].key \in Key /\ call'[d].key \in Key /\ call[d].floor \in Nat /\ call'[d].floor \in Nat
                      /\ call[d].now \in Nat /\ call'[d].now \in Nat
  <2>1. CallsOK /\ CallsOK'
    BY DEF FlightInv, Types
  <2> QED BY <2>1 DEF CallsOK, Local
<1>3. \A k \in Key : Kept(k)' \subseteq Kept(k) \cup {NoEntry, Newest(k)}
  <2> SUFFICES ASSUME NEW k \in Key, NEW d \in Call, call'[d].key = k
               PROVE  {call'[d].row, call'[d].got} \subseteq Kept(k) \cup {NoEntry, Newest(k)}
    BY DEF Kept, Stored, Rows
  <2>1. CASE call'[d] = Idle
    BY <2>1, IdleOK
  <2>2. CASE call'[d].row = NoEntry /\ call'[d].got = NoEntry
    BY <2>2
  <2>3. CASE /\ call'[d].key = call[d].key
             /\ call'[d].row \in Kept(call[d].key) \cup {NoEntry}
             /\ call'[d].got \in {call[d].got, Newest(call[d].key)}
    BY <2>3 DEF Kept
  <2> QED BY <2>1, <2>2, <2>3
<1>4. Floors'
  <2>1. ASSUME NEW k \in Key PROVE seen'[k] <= version[k]
    BY KeptOK DEF CacheInv, Floors, Stamped
  <2>2. ASSUME NEW d \in Call
        PROVE  call'[d].floor <= seen'[call'[d].key] /\ (call'[d].pc \in Asking => call'[d].now # 0)
    <3>1. seen[call'[d].key] \in Nat /\ seen'[call'[d].key] \in Nat /\ period[call'[d].key] \in Nat \ {0}
      BY <1>2, KeptOK DEF FlightInv, Types, HistoryOK
    <3>2. CASE call'[d] = Idle
      BY <3>1, <3>2, IdleOK DEF Asking
    <3>3. CASE call'[d].now = period[call'[d].key] /\ call'[d].floor = seen[call'[d].key]
      BY <1>2, <3>1, <3>3
    <3>4. CASE /\ call'[d].key = call[d].key /\ call'[d].floor = call[d].floor
               /\ call'[d].pc \in Asking => call[d].pc \in Asking /\ call'[d].now = call[d].now
      BY <1>2, <3>1, <3>4 DEF CacheInv, Floors
    <3> QED BY <3>2, <3>3, <3>4
  <2> QED BY <1>1, <2>1, <2>2 DEF Floors
<1>5. Stamped'
  <2> SUFFICES ASSUME NEW k \in Key, NEW e \in Kept(k) \cup {NoEntry, Newest(k)}
               PROVE  e.exp <= period[k] /\ e.ver <= version[k] /\ (e.exp = period[k] => e.ver = version[k])
    BY <1>1, <1>3 DEF Stamped
  <2>1. CASE e \in Kept(k)
    BY <2>1 DEF CacheInv, Stamped
  <2>2. CASE e \in {NoEntry, Newest(k)}
    BY <2>2, KeptOK
  <2> QED BY <2>1, <2>2
<1>6. Ahead'
  <2> SUFFICES ASSUME NEW k \in Key, NEW e \in Kept(k) \cup {NoEntry, Newest(k)}, NEW d \in Call,
                      call'[d].pc \in Asking, call'[d].key = k, e.exp >= call'[d].now
               PROVE  e.ver >= call'[d].floor
    BY <1>3 DEF Ahead
  <2>1. /\ e.ver \in Nat /\ e.exp \in Nat /\ seen[k] \in Nat /\ version[k] \in Nat /\ seen[k] <= version[k]
        /\ period[k] \in Nat \ {0}
    BY KeptOK DEF CacheInv, Floors
  <2>2. e # NoEntry
    <3>1. call'[d].now # 0
      BY <1>4 DEF Floors
    <3> QED BY <1>2, <3>1, KeptOK
  <2>3. CASE call'[d] = Idle
    BY <2>3, IdleOK DEF Asking
  <2>4. CASE call'[d].now = period[k] /\ call'[d].floor = seen[k]
    <3>1. e.exp = period[k] => e.ver = version[k]
      BY <2>2, KeptOK DEF CacheInv, Stamped
    <3>2. e.exp <= period[k]
      BY <2>1, <2>2, KeptOK DEF CacheInv, Stamped
    <3> QED BY <2>1, <2>4, <3>1, <3>2
  <2>5. CASE call[d].key = k /\ call'[d].floor = call[d].floor /\ call[d].pc \in Asking /\ call'[d].now = call[d].now
    <3>1. CASE e \in Kept(k)
      BY <2>5, <3>1 DEF CacheInv, Ahead
    <3>2. CASE e = Newest(k)
      <4>1. call[d].floor <= seen[k] /\ e.ver = version[k]
        BY <2>5, <3>2, KeptOK DEF CacheInv, Floors
      <4> QED BY <1>2, <2>1, <2>5, <4>1
    <3> QED BY <2>2, <3>1, <3>2
  <2> QED BY <2>3, <2>4, <2>5
<1> QED BY <1>4, <1>5, <1>6

\* Answers that are about to be returned stay ahead.
LEMMA StaysAhead ==
    ASSUME FlightInv, FlightInv', CacheInv, Floors', Stamped',
           \A d \in Call : call'[d].pc = "persist" =>
               \/ call'[d].got.ver = version'[call'[d].key]
               \/ /\ call[d].pc = "persist" /\ call'[d].key = call[d].key /\ call'[d].got = call[d].got
                  /\ Stored(call[d].key)' \subseteq Stored(call[d].key) \cup {NoEntry}
                  /\ \/ seen'[call[d].key] = seen[call[d].key]
                     \/ \E e \in Stored(call[d].key) : seen'[call[d].key] = e.ver
    PROVE  Landed'
<1> SUFFICES ASSUME NEW d \in Call, call'[d].pc = "persist"
             PROVE  /\ seen'[call'[d].key] <= call'[d].got.ver
                    /\ \A e \in Stored(call[d].key)' : e.ver <= call'[d].got.ver
  BY DEF Landed
<1>1. call'[d].key \in Key /\ call[d].key \in Key /\ call[d].got.ver \in Nat
  <2>1. CallsOK /\ CallsOK'
    BY DEF FlightInv, Types
  <2> QED BY <2>1 DEF CallsOK, Local
<1>2. CASE call'[d].got.ver = version'[call'[d].key]
  <2>1. \A e \in Stored(call[d].key)' : e \in Kept(call[d].key)'
    BY DEF Kept
  <2> QED BY <1>1, <1>2, <2>1 DEF Floors, Stamped
<1>3. CASE ~(call'[d].got.ver = version'[call'[d].key])
  BY <1>1, <1>3, KeptOK DEF CacheInv, Landed
<1> QED BY <1>2, <1>3

\* Steps that change no cache and tell nobody anything.
LEMMA Within ==
    ASSUME FlightInv, FlightInv', CacheInv, UNCHANGED <<world, cache, history>>,
           \A d \in Call : /\ call'[d].key = call[d].key /\ call'[d].floor = call[d].floor
                           /\ call'[d].got = call[d].got
                           /\ call'[d].row \in {call[d].row, NoEntry, db[call[d].key]}
                           /\ call'[d].pc \in Asking => call[d].pc \in Asking /\ call'[d].now = call[d].now
                           /\ call'[d].pc = "persist" => call[d].pc = "persist"
    PROVE  CacheInv'
<1>1. UNCHANGED <<period, version, mem, db, seen, back>>
  BY DEF world, cache, history
<1>2. \A d \in Call : call[d].key \in Key /\ call'[d].row \in Stored(call[d].key) \cup {NoEntry}
  <2> TAKE d \in Call
  <2>1. call[d].key \in Key
    BY Fields DEF FlightInv, Types
  <2> QED BY <2>1 DEF Stored, Rows
<1>3. \A k \in Key : Stored(k)' \subseteq Stored(k) \cup {NoEntry}
  BY <1>1, <1>2 DEF Stored, Rows
<1>4. \A k \in Key : {mem[k], db[k]} \subseteq Kept(k) /\ Stored(k) \subseteq Kept(k)
  BY DEF Kept, Stored
<1>5. \A k \in Key : seen[k] <= seen[k]
  BY KeptOK
<1>6. Floors' /\ Stamped' /\ Ahead'
  BY <1>1, <1>2, <1>4, <1>5, Steady
<1>7. Landed'
  BY <1>1, <1>2, <1>3, <1>6, StaysAhead
<1> QED
  BY <1>1, <1>6, <1>7 DEF CacheInv

LEMMA QuietSteps ==
    ASSUME FlightInv, FlightInv', CacheInv, NEW c \in Call,
           ReadDb(c) \/ Fetch(c) \/ Acquire(c) \/ TakeSlot(c) \/ TooManyErrors(c) \/ Retry(c) \/ Rotate(c)
    PROVE  CacheInv'
<1>1. call \in [Call -> Local]
  BY DEF FlightInv, Types, CallsOK
<1>2. UNCHANGED <<world, cache, history>>
  BY DEF ReadDb, Fetch, Acquire, TakeSlot, TooManyErrors, Retry, Rotate
<1>3. CASE ReadDb(c)
  BY <1>1, <1>2, <1>3, Within DEF ReadDb, Local, Asking
<1>4. CASE Fetch(c)
  BY <1>1, <1>2, <1>4, Within DEF Fetch, Local, Asking
<1>5. CASE Acquire(c) \/ TakeSlot(c) \/ Rotate(c)
  <2>1. PICK pc \in {"send", "wait", "resend"} : call' = [call EXCEPT ![c].pc = pc]
    BY <1>5 DEF Acquire, TakeSlot, Rotate
  <2>2. \A d \in Call : /\ call'[d].key = call[d].key /\ call'[d].floor = call[d].floor
                        /\ call'[d].got = call[d].got /\ call'[d].row = call[d].row
                        /\ (call'[d].pc = call[d].pc /\ call'[d].now = call[d].now) \/ call'[d].pc = pc
    BY <1>1, <2>1 DEF Local
  <2> QED BY <1>2, <2>1, <2>2, Within DEF Asking
<1>6. CASE TooManyErrors(c)
  BY <1>1, <1>2, <1>6, Within DEF TooManyErrors
<1>7. CASE Retry(c)
  BY <1>1, <1>2, <1>7, Within DEF Retry, Local, Asking
<1> QED BY <1>3, <1>4, <1>5, <1>6, <1>7

\* What is swept out takes nothing away but what was kept.
LEMMA SweepStep ==
    ASSUME FlightInv, FlightInv', CacheInv, NEW k \in Key, Forget(k) \/ CleanUp(k)
    PROVE  CacheInv'
<1>1. UNCHANGED <<world, call, seen, back>>
  BY DEF Forget, CleanUp, history
<1>2. \A j \in Key : mem'[j] \in {mem[j], NoEntry} /\ db'[j] \in {db[j], NoEntry}
  BY DEF Forget, CleanUp, FlightInv, Types, CachesOK
<1>3. \A j \in Key : /\ Stored(j)' \subseteq Stored(j) \cup {NoEntry}
                     /\ {mem'[j], db'[j]} \subseteq Kept(j) \cup {NoEntry}
                     /\ seen[j] <= seen[j]
  BY <1>1, <1>2, KeptOK DEF Stored, Rows, Kept
<1>4. \A d \in Call : call[d].key \in Key /\ call[d].row \in Kept(call[d].key)
  <2>1. \A d \in Call : call[d].key \in Key
    BY Fields DEF FlightInv, Types
  <2> QED BY <2>1 DEF Kept, Stored, Rows
<1>5. Floors' /\ Stamped' /\ Ahead'
  BY <1>1, <1>3, <1>4, Steady
<1>6. Landed'
  BY <1>1, <1>3, <1>4, <1>5, StaysAhead
<1> QED
  BY <1>1, <1>5, <1>6 DEF CacheInv

\* Time passes for k: all that is kept of it has expired.
LEMMA ExpireStep ==
    ASSUME FlightInv, FlightInv', CacheInv, NEW k \in Key, Expire(k)
    PROVE  CacheInv'
<1>1. UNCHANGED <<mem, db, call, seen, back>>
  BY DEF Expire, cache, history
<1>2. PICK changed \in {0, 1} : version' = [version EXCEPT ![k] = @ + changed]
  BY DEF Expire
<1>3. period' = [period EXCEPT ![k] = @ + 1] /\ WorldOK
  BY DEF Expire, FlightInv, Types
<1>4. \A j \in Key : /\ period[j] \in Nat /\ version[j] \in Nat
                     /\ version[j] <= version'[j]
                     /\ \/ period'[j] = period[j] /\ version'[j] = version[j]
                        \/ period'[j] = period[j] + 1
  BY <1>2, <1>3 DEF WorldOK
<1>5. \A j \in Key : Kept(j)' = Kept(j) /\ Stored(j)' = Stored(j)
  BY <1>1 DEF Kept, Stored, Rows
<1>6. \A j \in Key : seen[j] \in Nat /\ \A e \in Kept(j) : e.ver \in Nat /\ e.exp \in Nat
  BY KeptOK
<1>7. Floors'
  <2>1. ASSUME NEW j \in Key PROVE seen'[j] <= version'[j]
    <3>1. seen[j] <= version[j] /\ version[j] <= version'[j] /\ version'[j] \in Nat
      BY <1>4 DEF CacheInv, Floors, FlightInv, Types, WorldOK
    <3> QED BY <1>1, <1>4, <1>6, <3>1
  <2> QED BY <1>1, <2>1 DEF CacheInv, Floors
<1>8. Stamped'
  <2> SUFFICES ASSUME NEW j \in Key, NEW e \in Kept(j)
               PROVE  e.exp <= period'[j] /\ e.ver <= version'[j] /\ (e.exp = period'[j] => e.ver = version'[j])
    BY <1>5 DEF Stamped
  <2>1. e.exp <= period[j] /\ e.ver <= version[j] /\ (e.exp = period[j] => e.ver = version[j])
    BY DEF CacheInv, Stamped
  <2>2. version'[j] \in Nat /\ e.ver \in Nat /\ e.exp \in Nat
    BY <1>6 DEF FlightInv, Types, WorldOK
  <2> QED BY <1>4, <2>1, <2>2
<1>9. Ahead' /\ Landed'
  <2>1. \A d \in Call : call[d].key \in Key
    BY Fields DEF FlightInv, Types
  <2>2. Ahead'
    BY <1>1, <1>5 DEF CacheInv, Ahead
  <2>3. Landed'
    BY <1>1, <1>5, <2>1 DEF CacheInv, Landed
  <2> QED BY <2>2, <2>3
<1> QED
  BY <1>1, <1>7, <1>8, <1>9 DEF CacheInv

\* What Return tells: nothing older than the caller has to be told.
LEMMA ToldNews ==
    ASSUME FlightInv, NEW k \in Key, NEW ver \in Nat, NEW floors, Return(k, ver, floors), ~back,
           ver # 0 => \A floor \in floors : floor \in Nat /\ floor <= ver
    PROVE  /\ ~back'
           /\ \A j \in Key : seen[j] <= seen'[j] /\ (seen'[j] = seen[j] \/ (j = k /\ seen'[j] = ver))
<1>1. seen \in [Key -> Nat] /\ back \in BOOLEAN
  BY DEF FlightInv, Types, HistoryOK
<1>2. ~(ver # 0 /\ \E floor \in floors : ver < floor)
  OBVIOUS
<1>3. ~back'
  BY <1>2 DEF Return
<1>4. seen' = [seen EXCEPT ![k] = IF ver > @ THEN ver ELSE @]
  BY DEF Return
<1>5. seen'[k] = (IF ver > seen[k] THEN ver ELSE seen[k]) /\ \A j \in Key \ {k} : seen'[j] = seen[j]
  BY <1>1, <1>4
<1>6. \A j \in Key : seen[j] \in Nat
  BY <1>1
<1> QED
  BY <1>3, <1>5, <1>6

LEMMA EnterKept ==
    ASSUME FlightInv, FlightInv', CacheInv, NEW c \in Call, NEW k \in Key, Enter(c, k)
    PROVE  CacheInv'
<1>1. UNCHANGED <<world, mem, db>> /\ call \in [Call -> Local]
  BY DEF Enter, cache, FlightInv, Types, CallsOK
<1>2. \A d \in Call : call[d].key \in Key /\ call[d].row \in Kept(call[d].key)
  <2>1. \A d \in Call : call[d].key \in Key
    BY Fields DEF FlightInv, Types
  <2> QED BY <2>1 DEF Kept, Stored, Rows
<1>3. \A j \in Key : /\ {mem[j], db[j]} \subseteq Stored(j) /\ Stored(j) \subseteq Kept(j)
                     /\ seen[j] \in Nat /\ period[j] \in Nat
  BY KeptOK DEF Kept, Stored
<1>4. CASE k \notin Fresh /\ mem[k].exp >= period[k]
  <2>1. Return(k, mem[k].ver, {seen[k]}) /\ UNCHANGED call
    BY <1>4 DEF Enter
  <2>2. mem[k].ver \in Nat /\ mem[k].exp \in Nat
    BY <1>3, KeptOK
  <2>3. seen[k] <= mem[k].ver
    <3>1. mem[k].ver = version[k]
      BY <1>3, <1>4, <2>2 DEF CacheInv, Stamped
    <3> QED BY <3>1 DEF CacheInv, Floors
  <2>4. ~back' /\ \A j \in Key : seen[j] <= seen'[j] /\ (seen'[j] = seen[j] \/ (j = k /\ seen'[j] = mem[k].ver))
    BY <1>3, <2>1, <2>2, <2>3, ToldNews DEF CacheInv
  <2>5. Floors' /\ Stamped' /\ Ahead'
    <3>1. \A j \in Key : seen[j] <= seen'[j] /\ (seen'[j] = seen[j] \/ \E e \in Kept(j) : seen'[j] = e.ver)
      BY <1>3, <2>4
    <3> QED BY <1>1, <1>2, <1>3, <2>1, <3>1, Steady
  <2>6. Landed'
    <3>1. \A j \in Key : Stored(j)' = Stored(j)
      BY <1>1, <2>1 DEF Stored, Rows
    <3>2. \A j \in Key : seen'[j] = seen[j] \/ \E e \in Stored(j) : seen'[j] = e.ver
      BY <1>3, <2>4
    <3> QED BY <1>2, <2>1, <2>5, <3>1, <3>2, StaysAhead
  <2> QED BY <2>4, <2>5, <2>6 DEF CacheInv
<1>5. CASE ~(k \notin Fresh /\ mem[k].exp >= period[k])
  <2> DEFINE new == [Idle EXCEPT !.pc = "db", !.key = k, !.now = period[k], !.cached = mem[k],
                                 !.floor = seen[k]]
  <2>1. call' = [call EXCEPT ![c] = new] /\ UNCHANGED <<seen, back>>
    BY <1>5 DEF Enter, history
  <2>2. /\ new.pc = "db" /\ new.key = k /\ new.row = NoEntry /\ new.got = NoEntry
        /\ new.now = period[k] /\ new.floor = seen[k]
    BY DEF Idle
  <2> HIDE DEF new
  <2>3. call'[c] = new /\ \A d \in Call \ {c} : call'[d] = call[d]
    BY <1>1, <2>1
  <2>4. Floors' /\ Stamped' /\ Ahead'
    <3>1. \A d \in Call :
            \/ /\ call'[d].pc = "db" /\ call'[d].row = NoEntry /\ call'[d].got = NoEntry
               /\ call'[d].now = period[call'[d].key] /\ call'[d].floor = seen[call'[d].key]
            \/ call'[d] = call[d]
      BY <2>2, <2>3
    <3>2. \A j \in Key : seen[j] <= seen'[j] /\ seen'[j] = seen[j]
      BY <1>3, <2>1
    <3> QED BY <1>1, <1>2, <1>3, <3>1, <3>2, Steady
  <2>5. Landed'
    <3>1. \A j \in Key : Stored(j)' \subseteq Stored(j) \cup {NoEntry}
      BY <1>1, <2>2, <2>3 DEF Stored, Rows
    <3> QED BY <1>2, <2>1, <2>2, <2>3, <2>4, <3>1, StaysAhead
  <2> QED BY <2>1, <2>4, <2>5 DEF CacheInv
<1> QED BY <1>4, <1>5

LEMMA UseRowKept ==
    ASSUME FlightInv, FlightInv', CacheInv, NEW c \in Call, UseRow(c)
    PROVE  CacheInv'
<1> DEFINE k == call[c].key
<1>1. /\ UNCHANGED <<world, db>> /\ call \in [Call -> Local]
      /\ call[c].pc = "dbRead" /\ call[c].row.exp >= call[c].now
      /\ mem' = [mem EXCEPT ![k] = call[c].row] /\ call' = [call EXCEPT ![c] = Idle]
      /\ Return(k, call[c].row.ver, {call[c].floor})
  BY DEF UseRow, FlightInv, Types, CallsOK
<1>2. \A d \in Call : call[d].key \in Key /\ call[d].row \in Stored(call[d].key)
  <2>1. \A d \in Call : call[d].key \in Key
    BY Fields DEF FlightInv, Types
  <2> QED BY <2>1 DEF Stored, Rows
<1>3. \A j \in Key : /\ mem[j] \in Stored(j) /\ db[j] \in Stored(j) /\ Stored(j) \subseteq Kept(j)
                     /\ seen[j] \in Nat
  BY KeptOK DEF Kept, Stored
<1>4. k \in Key /\ call[c].row \in Stored(k) /\ call[c].row.ver \in Nat /\ call[c].floor \in Nat
  BY <1>2, <1>3, KeptOK, Fields DEF FlightInv, Types
<1>5. call[c].floor <= call[c].row.ver
  BY <1>1, <1>3, <1>4 DEF CacheInv, Ahead, Asking
<1>6. ~back' /\ \A j \in Key : seen[j] <= seen'[j] /\ (seen'[j] = seen[j] \/ (j = k /\ seen'[j] = call[c].row.ver))
  <2> HIDE DEF k
  <2> QED BY <1>1, <1>4, <1>5, ToldNews DEF CacheInv
<1>7. call'[c] = Idle /\ \A d \in Call \ {c} : call'[d] = call[d]
  BY <1>1
<1>8. \A j \in Key : mem'[j] \in Stored(j) /\ db'[j] \in Stored(j)
  <2>1. mem'[k] = call[c].row /\ \A j \in Key \ {k} : mem'[j] = mem[j]
    BY <1>1, <1>4 DEF FlightInv, Types, CachesOK
  <2> QED BY <1>1, <1>3, <1>4, <2>1
<1>9. \A j \in Key : seen'[j] = seen[j] \/ \E e \in Stored(j) : seen'[j] = e.ver
  BY <1>4, <1>6
<1> HIDE DEF k
<1>10. Floors' /\ Stamped' /\ Ahead'
  <2>1. \A j \in Key : seen[j] <= seen'[j] /\ (seen'[j] = seen[j] \/ \E e \in Kept(j) : seen'[j] = e.ver)
    BY <1>3, <1>6, <1>9
  <2>2. \A d \in Call : call'[d] = Idle \/ (call'[d] = call[d] /\ call[d].row \in Kept(call[d].key))
    BY <1>2, <1>3, <1>7
  <2> QED BY <1>1, <1>3, <1>8, <2>1, <2>2, Steady
<1>11. Landed'
  <2>1. \A j \in Key : Stored(j)' \subseteq Stored(j) \cup {NoEntry}
    BY <1>7, <1>8, <1>2, IdleOK DEF Stored, Rows
  <2> QED BY <1>2, <1>7, <1>9, <1>10, <2>1, IdleOK, StaysAhead
<1> QED BY <1>6, <1>10, <1>11 DEF CacheInv

LEMMA AnswerKept ==
    ASSUME FlightInv, FlightInv', CacheInv, NEW c \in Call, Answer(c)
    PROVE  CacheInv'
<1> DEFINE k == call[c].key
           new == [call[c] EXCEPT !.pc = "persist", !.got = Newest(k), !.cached = NoEntry, !.row = NoEntry,
                                  !.attempt = 0]
<1>1. /\ UNCHANGED <<world, period, version, db, seen, back>> /\ call[c].pc \in Holding
      /\ call \in [Call -> Local] /\ mem \in [Key -> UNION {Entry(j) : j \in Key}]
  BY DEF Answer, world, history, Holding, FlightInv, Types, CallsOK, CachesOK
<1>2. \A d \in Call : call[d].key \in Key /\ call[d].row \in Stored(call[d].key)
  <2>1. \A d \in Call : call[d].key \in Key
    BY Fields DEF FlightInv, Types
  <2> QED BY <2>1 DEF Stored, Rows
<1>3. \A j \in Key : mem[j] \in Stored(j) /\ db[j] \in Stored(j) /\ Stored(j) \subseteq Kept(j) /\ seen[j] <= seen[j]
  BY KeptOK DEF Kept, Stored
<1>4. [ver |-> IF Cached(c).ver = version[k] THEN Cached(c).ver ELSE version[k], exp |-> period[k]] = Newest(k)
  BY DEF Newest
<1>5. mem' = [mem EXCEPT ![k] = Newest(k)] /\ call' = [call EXCEPT ![c] = new]
  BY <1>1, <1>4 DEF Answer, Local
<1>6. /\ new.pc = "persist" /\ new.key = k /\ new.floor = call[c].floor /\ new.row = NoEntry
      /\ new.got = Newest(k) /\ new.got.ver = version[k]
  BY <1>1, <1>2, KeptOK DEF Local
<1> HIDE DEF new
<1>7. call'[c] = new /\ \A d \in Call \ {c} : call'[d] = call[d]
  BY <1>1, <1>5
<1>8. mem'[k] = Newest(k) /\ \A j \in Key \ {k} : mem'[j] = mem[j]
  BY <1>1, <1>2, <1>5
<1>9. Floors' /\ Stamped' /\ Ahead'
  <2>1. \A d \in Call :
          /\ call'[d].key = call[d].key /\ call'[d].floor = call[d].floor
          /\ call'[d].row \in Kept(call[d].key) \cup {NoEntry}
          /\ call'[d].got \in {call[d].got, Newest(call[d].key)}
          /\ call'[d].pc \in Asking => call[d].pc \in Asking /\ call'[d].now = call[d].now
    BY <1>2, <1>3, <1>6, <1>7 DEF Asking
  <2>2. \A j \in Key : {mem'[j], db'[j]} \subseteq Kept(j) \cup {NoEntry, Newest(j)}
    BY <1>1, <1>3, <1>8
  <2> QED BY <1>1, <1>3, <2>1, <2>2, Steady
<1>10. Landed'
  <2> SUFFICES ASSUME NEW d \in Call, call'[d].pc = "persist"
               PROVE  \/ call'[d].got.ver = version'[call'[d].key]
                      \/ /\ call[d].pc = "persist" /\ call'[d].key = call[d].key /\ call'[d].got = call[d].got
                         /\ Stored(call[d].key)' \subseteq Stored(call[d].key) \cup {NoEntry}
                         /\ seen'[call[d].key] = seen[call[d].key]
    BY <1>9, StaysAhead
  <2>1. CASE d = c
    BY <1>1, <1>6, <1>7, <2>1
  <2>2. CASE d # c
    <3>1. call'[d] = call[d] /\ call[d].pc \in Holding
      BY <1>7, <2>2 DEF Holding
    <3>2. call[d].key # k
      <4>1. inflight[call[d].key] = d /\ inflight[k] = c
        BY <1>1, <1>2, <3>1 DEF FlightInv, Shape, OwnFlight, Fetching
      <4> QED BY <2>2, <4>1
    <3>3. Stored(call[d].key)' \subseteq Stored(call[d].key) \cup {NoEntry}
      BY <1>1, <1>2, <1>6, <1>7, <1>8, <3>1, <3>2 DEF Stored, Rows
    <3> QED BY <1>1, <3>1, <3>3
  <2> QED BY <2>1, <2>2
<1> QED BY <1>1, <1>9, <1>10 DEF CacheInv

\* The end of a fetch, which has failed if ver is 0.
LEMMA EndKept ==
    ASSUME FlightInv, FlightInv', CacheInv, NEW c \in Call, call[c].pc \in Holding,
           NEW ver \in Nat, End(c, ver), UNCHANGED <<world, mem>>,
           \/ ver = 0 /\ UNCHANGED db
           \/ /\ call[c].pc = "persist" /\ ver = call[c].got.ver
              /\ db' \in {db, [db EXCEPT ![call[c].key] = call[c].got]}
    PROVE  CacheInv'
<1> DEFINE k == call[c].key
<1>1. \A d \in Call : /\ call[d].key \in Key /\ call[d].floor \in Nat
                      /\ call[d].row \in Stored(call[d].key) /\ call[d].got \in Kept(call[d].key)
  <2>1. \A d \in Call : call[d].key \in Key /\ call[d].floor \in Nat
    BY Fields DEF FlightInv, Types
  <2> QED BY <2>1 DEF Kept, Stored, Rows
<1>2. \A j \in Key : mem[j] \in Stored(j) /\ db[j] \in Stored(j) /\ Stored(j) \subseteq Kept(j)
  BY DEF Kept, Stored
<1>3. \A j \in Key : seen[j] \in Nat
  BY KeptOK
<1>4. \A d \in Call : \/ call'[d] = Idle
                      \/ d # c /\ call'[d] = call[d]
                      \/ call'[d] = [call[d] EXCEPT !.pc = "woken"]
  BY EndEffect DEF FlightInv, Types, Told
<1>5. \A d \in Call : \/ call'[d] = Idle
                      \/ /\ call'[d].key = call[d].key /\ call'[d].floor = call[d].floor
                         /\ call'[d].row = call[d].row /\ call'[d].got = call[d].got
                         /\ \/ d # c /\ call'[d].pc = call[d].pc /\ call'[d].now = call[d].now
                            \/ call'[d].pc = "woken"
  BY <1>4 DEF FlightInv, Types, CallsOK, Local
<1>6. /\ \A j \in Key \ {k} : db'[j] = db[j]
      /\ db'[k] \in Kept(k)
  BY <1>1, <1>2 DEF FlightInv, Types, CachesOK
<1>7. /\ ~back'
      /\ \A j \in Key : seen[j] <= seen'[j] /\ (seen'[j] = seen[j] \/ (j = k /\ seen'[j] = ver))
  <2> DEFINE told == {c} \cup {d \in Call : call[d].pc = "join" /\ call[d].key = k}
             floors == {call[d].floor : d \in told}
  <2>1. Return(k, ver, floors)
    BY DEF End
  <2>2. ASSUME ver # 0 PROVE \A d \in told : call[d].floor \in Nat /\ call[d].floor <= ver
    <3>1. seen[k] <= ver /\ ver \in Nat
      BY <2>2 DEF CacheInv, Landed
    <3>2. \A d \in told : d \in Call /\ call[d].key = k
      OBVIOUS
    <3>3. \A d \in told : call[d].floor <= seen[k]
      BY <3>2 DEF CacheInv, Floors
    <3>4. k \in Key
      BY <1>1
    <3> HIDE DEF told, k
    <3> QED BY <1>1, <1>3, <3>1, <3>2, <3>3, <3>4
  <2>3. ver # 0 => \A floor \in floors : floor \in Nat /\ floor <= ver
    BY <2>2
  <2>4. k \in Key
    BY <1>1
  <2> HIDE DEF k, floors
  <2> QED BY <2>1, <2>3, <2>4, ToldNews DEF CacheInv
<1>8. seen'[k] = seen[k] \/ seen'[k] = call[c].got.ver
  <2>1. k \in Key
    BY <1>1
  <2>2. ver = 0 => seen'[k] = seen[k]
    BY <1>3, <1>7, <2>1 DEF FlightInv, Types, HistoryOK
  <2> QED BY <1>7, <2>1, <2>2
<1>9. Floors' /\ Stamped' /\ Ahead'
  <2>1. \A j \in Key : seen[j] <= seen'[j] /\ (seen'[j] = seen[j] \/ \E e \in Kept(j) : seen'[j] = e.ver)
    BY <1>1, <1>7, <1>8
  <2>2. \A j \in Key : {mem'[j], db'[j]} \subseteq Kept(j)
    BY <1>1, <1>2, <1>6
  <2>3. \A d \in Call : \/ call'[d] = Idle
                        \/ /\ call'[d].key = call[d].key /\ call'[d].floor = call[d].floor
                           /\ call'[d].row \in Kept(call[d].key) /\ call'[d].got = call[d].got
                           /\ call'[d].pc \in Asking => call[d].pc \in Asking /\ call'[d].now = call[d].now
    BY <1>1, <1>2, <1>5 DEF Asking
  <2> HIDE DEF k
  <2> QED BY <2>1, <2>2, <2>3, Steady
<1>10. Landed'
  <2> SUFFICES ASSUME NEW d \in Call, call'[d].pc = "persist"
               PROVE  /\ call[d].pc = "persist" /\ call'[d].key = call[d].key /\ call'[d].got = call[d].got
                      /\ Stored(call[d].key)' \subseteq Stored(call[d].key) \cup {NoEntry}
                      /\ seen'[call[d].key] = seen[call[d].key]
    BY <1>9, StaysAhead
  <2>1. /\ d # c /\ call[d].pc = "persist"
        /\ call'[d].key = call[d].key /\ call'[d].got = call[d].got
    BY <1>5, IdleOK
  <2>2. call[d].key # k
    <3>1. inflight[call[d].key] = d /\ inflight[k] = c
      BY <1>1, <2>1 DEF FlightInv, Shape, OwnFlight, Fetching, Holding
    <3> QED BY <2>1, <3>1
  <2>3. Rows(call[d].key)' \subseteq Rows(call[d].key) \cup {NoEntry}
    BY <1>5, <2>1, IdleOK DEF Rows
  <2>4. mem'[call[d].key] = mem[call[d].key] /\ db'[call[d].key] = db[call[d].key]
    BY <1>1, <1>6, <2>2
  <2>5. Stored(call[d].key)' \subseteq Stored(call[d].key) \cup {NoEntry}
    BY <2>1, <2>3, <2>4 DEF Stored
  <2> QED BY <1>1, <1>7, <2>1, <2>2, <2>5
<1> QED BY <1>7, <1>9, <1>10 DEF CacheInv

LEMMA CacheStart == EsiInit => CacheInv
<1> SUFFICES ASSUME EsiInit PROVE CacheInv
  OBVIOUS
<1>1. FlightInv
  BY FlightStart
<1>2. /\ \A c \in Call : call[c] = Idle
      /\ \A k \in Key : /\ mem[k] = NoEntry /\ db[k] = NoEntry /\ seen[k] = 0 /\ version[k] = 1 /\ period[k] = 1
  BY DEF EsiInit
<1>3. \A k \in Key : Kept(k) \subseteq {NoEntry}
  BY <1>2, IdleOK DEF Kept, Stored, Rows
<1>4. Floors
  BY <1>2, IdleOK DEF Floors, Asking
<1>5. Stamped
  BY <1>2, <1>3, Entries DEF Stamped
<1>6. Ahead /\ Landed
  BY <1>2, IdleOK DEF Ahead, Landed, Asking
<1> QED
  BY <1>4, <1>5, <1>6 DEF CacheInv, EsiInit

LEMMA CacheStep == FlightInv /\ FlightInv' /\ CacheInv /\ [EsiNext]_esiVars => CacheInv'
<1> SUFFICES ASSUME FlightInv, FlightInv', CacheInv, [EsiNext]_esiVars PROVE CacheInv'
  OBVIOUS
<1>1. ASSUME NEW k \in Key, Expire(k) \/ Forget(k) \/ CleanUp(k) PROVE CacheInv'
  BY <1>1, ExpireStep, SweepStep
<1>2. ASSUME NEW v \in Widener, Widen(v) \/ Restore(v) PROVE CacheInv'
  BY <1>2, Within DEF Widen, Restore
<1>3. ASSUME NEW c \in Call, NEW k \in Wants[c], Enter(c, k) PROVE CacheInv'
  BY <1>3, EnterKept, EsiAssumption
<1>4. ASSUME NEW c \in Call, Persist(c) PROVE CacheInv'
  <2>1. /\ call[c].pc = "persist" /\ call[c].pc \in Holding /\ End(c, call[c].got.ver) /\ UNCHANGED <<world, mem>>
        /\ db' \in {db, [db EXCEPT ![call[c].key] = call[c].got]}
    BY <1>4 DEF Persist, Holding
  <2>2. call[c].got.ver \in Nat
    BY Fields, Entries DEF FlightInv, Types
  <2> QED BY <2>1, <2>2, EndKept
<1>5. ASSUME NEW c \in Call, Fail(c) PROVE CacheInv'
  <2>1. call[c].pc \in Holding /\ End(c, 0) /\ UNCHANGED <<world, mem, db>>
    BY <1>5 DEF Fail, Holding, cache
  <2> QED BY <2>1, EndKept
<1>6. ASSUME NEW c \in Call,
             \/ ReadDb(c) \/ UseRow(c) \/ Fetch(c) \/ Acquire(c) \/ TakeSlot(c) \/ Answer(c)
             \/ TooManyErrors(c) \/ Retry(c) \/ Rotate(c)
      PROVE  CacheInv'
  BY <1>6, QuietSteps, UseRowKept, AnswerKept
<1>7. CASE UNCHANGED esiVars
  BY <1>7, Within DEF esiVars
<1> QED
  BY <1>1, <1>2, <1>3, <1>4, <1>5, <1>6, <1>7 DEF EsiNext

\* A call does not return an older body than one that had been returned before it
\* began, whatever expires while it runs, however late it uses a row it has read, and
\* whether or not the answers were saved.
THEOREM NeverTakenBack == EsiSpec => []AnswersMonotonic
<1>1. CacheInv => AnswersMonotonic
  BY DEF CacheInv, AnswersMonotonic
<1> QED
  BY <1>1, FlightAlways, CacheStart, CacheStep, PTL DEF EsiSpec

================================================================================
