------------------------------ MODULE WalletImport ------------------------------
(***************************************************************************)
(* The import of one logistics character's wallet: its transactions, by    *)
(* going back from the newest page to the highest id that was stored       *)
(* before, and its journal, page by page.  Entries are numbered in the     *)
(* order in which they are made.                                           *)
(*                                                                         *)
(* Imports of one character may overlap, from the refresh job, the admin   *)
(* page and the settlement; the wallet grows while they run, which shifts  *)
(* the pages; and each of them may be cut short between two pages, which   *)
(* importAllLinked logs and leaves to the next import.                     *)
(***************************************************************************)
EXTENDS Naturals, FiniteSetsExt

CONSTANTS
    Import,        \* slots for the imports in flight; reused
    EsiPage,       \* entries in a page of ESI
    FullPage,      \* 250: a page with fewer entries is taken for the last one
    DefaultPages,  \* 20: pages of the journal to read when X-Pages is missing
    MaxMade,       \* bound: transactions, and journal entries, of the wallet
    MaxFailures    \* bound: imports that are cut short

ASSUME ImportAssumption ==
    /\ EsiPage \in Nat \ {0} /\ FullPage \in 1..EsiPage
    /\ MaxMade \in Nat /\ MaxFailures \in Nat
    /\ DefaultPages \in Nat /\ DefaultPages * EsiPage >= MaxMade

VARIABLES
    made,      \* made.tx, made.jr: how many entries the wallet has
    stored,    \* stored.tx, stored.jr: the ids in the database
    imp,       \* imp[i]: the local variables of import i
    failures   \* how many imports were cut short

walletVars == <<made, stored, imp, failures>>

\* stopAt: the highest id stored before, 0 for none; from: the from_id of the next
\* page, 0 for none; rows: the page that was fetched; top: the highest id on the
\* first page (history); page, pages: of the journal, pages is 0 while unknown.
NoImport == [pc |-> "idle", stopAt |-> 0, from |-> 0, rows |-> {}, top |-> 0, page |-> 0, pages |-> 0]

Local == [pc : {"idle", "fetchTx", "storeTx", "fetchJr", "storeJr"},
          stopAt : 0..MaxMade, from : 0..MaxMade, rows : SUBSET (1..MaxMade), top : 0..MaxMade,
          page : 0..MaxMade + 1, pages : 0..MaxMade]

WalletTypeOK ==
    /\ made \in [tx : 0..MaxMade, jr : 0..MaxMade]
    /\ stored.tx \subseteq 1..made.tx /\ stored.jr \subseteq 1..made.jr
    /\ imp \in [Import -> Local]
    /\ failures \in 0..MaxFailures

WalletInit ==
    /\ made = [tx |-> 0, jr |-> 0] /\ stored = [tx |-> {}, jr |-> {}]
    /\ imp = [i \in Import |-> NoImport]
    /\ failures = 0

--------------------------------------------------------------------------------
(* ESI                                                                     *)

\* The wallet gets one more transaction, or one more journal entry.
Make(kind) ==
    /\ made[kind] < MaxMade
    /\ made' = [made EXCEPT ![kind] = @ + 1]
    /\ UNCHANGED <<stored, imp, failures>>

Newest(n, S) == {e \in S : Cardinality({f \in S : f > e}) < n}

\* The newest transactions, or the newest of those before from.
TxPage(from) == Newest(EsiPage, {t \in 1..made.tx : from = 0 \/ t < from})

\* A page of the journal, which is empty (404) past the last one, and X-Pages.
JrPage(page) == LET all == 1..made.jr
                IN  Newest(page * EsiPage, all) \ Newest((page - 1) * EsiPage, all)
XPages == (made.jr + EsiPage - 1) \div EsiPage

--------------------------------------------------------------------------------
(* importForCharacter                                                      *)

\* The highest id stored is where the import will stop.
StartImport(i) ==
    /\ imp[i].pc = "idle"
    /\ imp' = [imp EXCEPT ![i] = [NoImport EXCEPT !.pc = "fetchTx", !.stopAt = Max(stored.tx \cup {0})]]
    /\ UNCHANGED <<made, stored, failures>>

FetchTx(i) ==
    /\ imp[i].pc = "fetchTx"
    /\ LET rows == TxPage(imp[i].from)
       IN  imp' = [imp EXCEPT ![i].rows = rows,
                       ![i].pc = IF rows = {} THEN "fetchJr" ELSE "storeTx",
                       ![i].page = IF rows = {} THEN 1 ELSE 0,
                       ![i].top = IF imp[i].from = 0 THEN Max(rows \cup {0}) ELSE @]
    /\ UNCHANGED <<made, stored, failures>>

\* Mutant: a page is taken for the last one when it is no longer than FullPage.
StoreTxShort(i) ==
    /\ imp[i].pc = "storeTx"
    /\ LET rows == imp[i].rows
           last == Min(rows) <= imp[i].stopAt \/ Cardinality(rows) <= FullPage
       IN  /\ stored' = [stored EXCEPT !.tx = @ \cup {t \in rows : t > imp[i].stopAt}]
           /\ imp' = [imp EXCEPT ![i].rows = {}, ![i].from = Min(rows),
                          ![i].pc = IF last THEN "fetchJr" ELSE "fetchTx",
                          ![i].page = IF last THEN 1 ELSE 0]
    /\ UNCHANGED <<made, failures>>

\* What is new on the page is stored; an older page is read unless this one
\* reaches back to stopAt or is the last.
StoreTx(i) ==
    /\ imp[i].pc = "storeTx"
    /\ LET rows == imp[i].rows
           last == Min(rows) <= imp[i].stopAt \/ Cardinality(rows) < FullPage
       IN  /\ stored' = [stored EXCEPT !.tx = @ \cup {t \in rows : t > imp[i].stopAt}]
           /\ imp' = [imp EXCEPT ![i].rows = {}, ![i].from = Min(rows),
                          ![i].pc = IF last THEN "fetchJr" ELSE "fetchTx",
                          ![i].page = IF last THEN 1 ELSE 0]
    /\ UNCHANGED <<made, failures>>

\* The first X-Pages that comes is the number of pages to read.
FetchJr(i) == \E header \in {0, XPages} :
    /\ imp[i].pc = "fetchJr"
    /\ LET rows == JrPage(imp[i].page)
       IN  imp' = IF rows = {} THEN [imp EXCEPT ![i] = NoImport]
                  ELSE [imp EXCEPT ![i].pc = "storeJr", ![i].rows = rows,
                            ![i].pages = IF @ = 0 THEN header ELSE @]
    /\ UNCHANGED <<made, stored, failures>>

\* Mutant: a page that was stored before ends the import.
StoreJrUntilKnown(i) ==
    /\ imp[i].pc = "storeJr"
    /\ LET rows == imp[i].rows
           total == IF imp[i].pages = 0 THEN DefaultPages ELSE imp[i].pages
           last == Cardinality(rows) < FullPage \/ imp[i].page >= total \/ rows \subseteq stored.jr
       IN  /\ stored' = [stored EXCEPT !.jr = @ \cup rows]
           /\ imp' = IF last THEN [imp EXCEPT ![i] = NoImport]
                     ELSE [imp EXCEPT ![i].pc = "fetchJr", ![i].rows = {}, ![i].page = @ + 1]
    /\ UNCHANGED <<made, failures>>

\* Mutant: journal entries are stored among the transactions.
StoreJrSwapped(i) ==
    /\ imp[i].pc = "storeJr"
    /\ stored' = [stored EXCEPT !.tx = @ \cup imp[i].rows]
    /\ imp' = [imp EXCEPT ![i] = NoImport]
    /\ UNCHANGED <<made, failures>>

\* What is on the page is stored, unless it was before; the next page is read
\* unless this one is short or the last.
StoreJr(i) ==
    /\ imp[i].pc = "storeJr"
    /\ LET rows == imp[i].rows
           total == IF imp[i].pages = 0 THEN DefaultPages ELSE imp[i].pages
           last == Cardinality(rows) < FullPage \/ imp[i].page >= total
       IN  /\ stored' = [stored EXCEPT !.jr = @ \cup rows]
           /\ imp' = IF last THEN [imp EXCEPT ![i] = NoImport]
                     ELSE [imp EXCEPT ![i].pc = "fetchJr", ![i].rows = {}, ![i].page = @ + 1]
    /\ UNCHANGED <<made, failures>>

\* A request to ESI or to the database fails, or the process dies.
CutImport(i) ==
    /\ imp[i].pc # "idle" /\ failures < MaxFailures
    /\ failures' = failures + 1
    /\ imp' = [imp EXCEPT ![i] = NoImport]
    /\ UNCHANGED <<made, stored>>

--------------------------------------------------------------------------------
ImportStep(i) == StartImport(i) \/ FetchTx(i) \/ StoreTx(i) \/ FetchJr(i) \/ StoreJr(i)

WalletNext ==
    \/ \E kind \in {"tx", "jr"} : Make(kind)
    \/ \E i \in Import : ImportStep(i) \/ CutImport(i)

\* The hourly job starts an import again and again, and what was started goes on
\* as long as ESI answers: there is always some import that takes a step.
WalletFairness == WF_walletVars(\E i \in Import : ImportStep(i))

WalletSpec == WalletInit /\ [][WalletNext]_walletVars /\ WalletFairness

--------------------------------------------------------------------------------
(* Properties                                                              *)

\* "paginate older until we reach previously seen max id" (wallet.service.ts:18):
\* an import that goes on to the journal has stored every transaction between
\* the highest id stored before and the newest that ESI had shown it, although
\* other imports overlap or are cut short and the wallet grows meanwhile.
ImportCatchesUp ==
    \A i \in Import : imp[i].pc \in {"fetchJr", "storeJr"} =>
        imp[i].stopAt + 1..imp[i].top \subseteq stored.tx

\* The journal is read again as a whole: once the wallet has stopped growing it
\* is complete, whatever page an earlier import failed at and however the pages
\* had shifted.
JournalConverges == <>[](stored.jr = 1..made.jr)

\* The same of the transactions, which allocation takes for every purchase and
\* sale of the Cycle.
TransactionsConverge == <>[](stored.tx = 1..made.tx)

================================================================================
