--------------------------- MODULE WalletImportProofs --------------------------
(***************************************************************************)
(* What WalletImport promises for any number of overlapping imports, pages *)
(* of any size and a wallet that grows meanwhile: its types, and that an   *)
(* import that gets to the journal leaves no gap behind it.  That stored   *)
(* journals converge is liveness and left to TLC.                          *)
(***************************************************************************)
EXTENDS WalletImport, FiniteSetTheorems, WellFoundedInduction, TLAPS

--------------------------------------------------------------------------------
(* Pages                                                                   *)

\* The newest n of 1..m.
LEMMA NewestOf ==
    ASSUME NEW n \in Nat, NEW m \in Nat
    PROVE  Newest(n, 1..m) = {e \in 1..m : m - e < n}
<1>1. ASSUME NEW e \in 1..m PROVE Cardinality({f \in 1..m : f > e}) = m - e
  <2>1. {f \in 1..m : f > e} = e + 1..m
    OBVIOUS
  <2>2. Cardinality(e + 1..m) = IF e + 1 > m THEN 0 ELSE m - (e + 1) + 1
    BY FS_Interval
  <2>3. (IF e + 1 > m THEN 0 ELSE m - (e + 1) + 1) = m - e
    OBVIOUS
  <2> QED BY <2>1, <2>2, <2>3, Zenon
<1> QED BY <1>1 DEF Newest

LEMMA MinOf == ASSUME NEW lo \in Nat, NEW hi \in Nat, lo <= hi PROVE Min(lo..hi) = lo
  BY DEF Min

LEMMA MaxOf == ASSUME NEW lo \in Nat, NEW hi \in Nat, lo <= hi PROVE Max(lo..hi \cup {0}) = hi
  BY DEF Max

LEMMA HighestOf ==
    ASSUME NEW S \in SUBSET (1..MaxMade)
    PROVE  Max(S \cup {0}) \in S \cup {0}
<1> DEFINE T == {MaxMade - x : x \in S \cup {0}}
<1>1. MaxMade \in Nat /\ T \subseteq Nat /\ T # {}
  BY ImportAssumption
<1>2. PICK y \in T : \A z \in T : ~(<<z, y>> \in OpToRel(<, Nat))
  BY <1>1, WFMin, NatLessThanWellFounded
<1>3. \A z \in T : ~(z < y)
  BY <1>1, <1>2 DEF OpToRel
<1>4. PICK x \in S \cup {0} : y = MaxMade - x
  OBVIOUS
<1>5. ASSUME NEW w \in S \cup {0} PROVE x >= w
  <2>1. MaxMade - w \in T /\ w \in Nat /\ x \in Nat
    BY <1>1
  <2>2. ~(MaxMade - w < y)
    BY <1>3, <2>1
  <2> QED BY <1>1, <1>4, <2>1, <2>2
<1> QED BY <1>5 DEF Max

\* The page of transactions that ends at m.
LEMMA TxPageOf ==
    ASSUME made \in [tx : 0..MaxMade, jr : 0..MaxMade], NEW from \in 0..made.tx, NEW m \in Nat,
           m = IF from = 0 THEN made.tx ELSE from - 1
    PROVE  /\ m = 0 => TxPage(from) = {}
           /\ m > 0 => \E lo \in 1..m : TxPage(from) = lo..m /\ (m - lo + 1 < EsiPage => lo = 1)
<1>1. {t \in 1..made.tx : from = 0 \/ t < from} = 1..m /\ EsiPage \in Nat \ {0}
  BY ImportAssumption
<1>2. TxPage(from) = {e \in 1..m : m - e < EsiPage}
  BY <1>1, NewestOf DEF TxPage
<1>3. CASE m >= EsiPage
  <2>1. m - EsiPage + 1 \in 1..m /\ TxPage(from) = m - EsiPage + 1..m
    BY <1>1, <1>2, <1>3
  <2> QED BY <1>1, <1>3, <2>1
<1>4. CASE ~(m >= EsiPage)
  <2>1. TxPage(from) = 1..m
    BY <1>1, <1>2, <1>4
  <2> QED BY <2>1
<1> QED BY <1>3, <1>4

\* A page of the journal that has entries is not beyond the last one.
LEMMA JrPageOf ==
    ASSUME made \in [tx : 0..MaxMade, jr : 0..MaxMade], NEW page \in Nat \ {0}
    PROVE  /\ JrPage(page) \subseteq 1..made.jr
           /\ JrPage(page) # {} => page <= MaxMade
           /\ XPages \in 0..MaxMade
<1> DEFINE m == made.jr
<1>1. m \in Nat /\ m <= MaxMade /\ MaxMade \in Nat /\ EsiPage \in Nat \ {0}
  BY ImportAssumption
<1>2. page * EsiPage \in Nat /\ (page - 1) * EsiPage \in Nat /\ (page - 1) * EsiPage >= page - 1
  BY <1>1
<1>3. JrPage(page) = {e \in 1..m : m - e < page * EsiPage} \ {e \in 1..m : m - e < (page - 1) * EsiPage}
  BY <1>1, <1>2, NewestOf DEF JrPage
<1>4. JrPage(page) # {} => page <= MaxMade
  <2> SUFFICES ASSUME NEW e \in JrPage(page) PROVE page <= MaxMade
    OBVIOUS
  <2>1. e \in 1..m /\ m - e >= (page - 1) * EsiPage
    BY <1>1, <1>2, <1>3
  <2> QED BY <1>1, <1>2, <2>1
<1>5. XPages \in 0..MaxMade
  BY <1>1 DEF XPages
<1> QED BY <1>3, <1>4, <1>5

--------------------------------------------------------------------------------
(* What an import has behind it                                            *)

StoredOK == stored \in [tx : SUBSET Nat, jr : SUBSET Nat]

\* Where the page at hand, or the next one, ends: at the newest transaction that
\* the first page showed, or before from.
End(i) == IF imp[i].from = 0 THEN imp[i].top ELSE imp[i].from - 1

\* Everything from from on is stored, down to stopAt.
Behind(i) ==
    /\ imp[i].from <= made.tx
    /\ imp[i].from # 0 => \A t \in imp[i].stopAt + 1..imp[i].top : t >= imp[i].from => t \in stored.tx

\* The page at hand has no gap, and is the last one if it is not full.
WholePage(i) ==
    /\ End(i) \in 1..made.tx
    /\ \E lo \in 1..End(i) : imp[i].rows = lo..End(i) /\ (End(i) - lo + 1 < EsiPage => lo = 1)

Through(i) == imp[i].stopAt + 1..imp[i].top \subseteq stored.tx /\ imp[i].page # 0

ImportOK(i) ==
    /\ imp[i].pc = "fetchTx" => Behind(i)
    /\ imp[i].pc = "storeTx" => Behind(i) /\ WholePage(i)
    /\ imp[i].pc \in {"fetchJr", "storeJr"} => Through(i)
    /\ imp[i].pc = "storeJr" => imp[i].rows \subseteq 1..made.jr /\ imp[i].page <= MaxMade

WalletInv == WalletTypeOK /\ StoredOK /\ \A i \in Import : ImportOK(i)

LEMMA NoImportOK == NoImport \in Local /\ NoImport.pc = "idle"
  BY ImportAssumption DEF NoImport, Local

LEMMA WalletStart == WalletInit => WalletInv
  BY NoImportOK, ImportAssumption DEF WalletInit, WalletInv, WalletTypeOK, StoredOK, ImportOK

\* What one import does, and the wallet's growth, takes nothing from the others.
LEMMA OthersOK ==
    ASSUME WalletInv, NEW j \in Import, imp'[j] = imp[j], WalletTypeOK',
           made.tx <= made'.tx, made.jr <= made'.jr, stored.tx \subseteq stored'.tx
    PROVE  ImportOK(j)'
<1>1. /\ made.tx \in Nat /\ made.jr \in Nat /\ made'.tx \in Nat /\ made'.jr \in Nat
      /\ imp[j].from \in Nat /\ imp[j].top \in Nat
  BY ImportAssumption DEF WalletInv, WalletTypeOK, Local
<1>2. ImportOK(j)
  BY DEF WalletInv
<1>3. End(j)' = End(j) /\ End(j) \in Int
  BY <1>1 DEF End
<1>4. Behind(j) => Behind(j)'
  BY <1>1 DEF Behind
<1>5. WholePage(j) => WholePage(j)'
  BY <1>1, <1>3 DEF WholePage
<1>6. Through(j) => Through(j)'
  BY DEF Through
<1>7. imp[j].rows \subseteq 1..made.jr => imp[j].rows \subseteq 1..made'.jr
  BY <1>1
<1> QED BY <1>2, <1>4, <1>5, <1>6, <1>7 DEF ImportOK

\* One import changes and stores at most transactions or entries that were made.
LEMMA OneImport ==
    ASSUME WalletInv, NEW i \in Import, NEW new \in Local, imp' = [imp EXCEPT ![i] = new],
           UNCHANGED made, failures' \in 0..MaxFailures, StoredOK',
           stored'.tx \subseteq 1..made.tx, stored'.jr \subseteq 1..made.jr, stored.tx \subseteq stored'.tx,
           ImportOK(i)'
    PROVE  WalletInv'
<1>1. WalletTypeOK'
  BY DEF WalletInv, WalletTypeOK
<1>2. made.tx <= made'.tx /\ made.jr <= made'.jr
  BY ImportAssumption DEF WalletInv, WalletTypeOK
<1>3. ASSUME NEW j \in Import PROVE ImportOK(j)'
  <2>1. CASE j = i
    BY <2>1
  <2>2. CASE j # i
    BY <1>1, <1>2, <2>2, OthersOK DEF WalletInv, WalletTypeOK
  <2> QED BY <2>1, <2>2
<1> QED BY <1>1, <1>3 DEF WalletInv

LEMMA MakeStep == ASSUME WalletInv, NEW kind \in {"tx", "jr"}, Make(kind) PROVE WalletInv'
<1>1. UNCHANGED <<stored, imp, failures>> /\ made[kind] < MaxMade
  BY DEF Make
<1>2. /\ made'.tx = IF kind = "tx" THEN made.tx + 1 ELSE made.tx
      /\ made'.jr = IF kind = "jr" THEN made.jr + 1 ELSE made.jr
      /\ made' \in [tx : 0..MaxMade, jr : 0..MaxMade]
      /\ made.tx \in Nat /\ made.jr \in Nat
  <2>1. CASE kind = "tx"
    BY <1>1, <2>1, ImportAssumption DEF Make, WalletInv, WalletTypeOK
  <2>2. CASE kind = "jr"
    BY <1>1, <2>2, ImportAssumption DEF Make, WalletInv, WalletTypeOK
  <2> QED BY <2>1, <2>2
<1>3. WalletTypeOK'
  BY <1>1, <1>2 DEF WalletInv, WalletTypeOK
<1>4. made.tx <= made'.tx /\ made.jr <= made'.jr
  BY <1>2
<1> QED BY <1>1, <1>3, <1>4, OthersOK DEF WalletInv, StoredOK

LEMMA IdleStep ==
    ASSUME WalletInv, NEW i \in Import, imp' = [imp EXCEPT ![i] = NoImport],
           UNCHANGED made, failures' \in 0..MaxFailures, StoredOK',
           stored'.tx \subseteq 1..made.tx, stored'.jr \subseteq 1..made.jr, stored.tx \subseteq stored'.tx
    PROVE  WalletInv'
<1>1. imp'[i] = NoImport
  BY DEF WalletInv, WalletTypeOK
<1>2. ImportOK(i)'
  BY <1>1, NoImportOK DEF ImportOK
<1> QED BY <1>2, NoImportOK, OneImport

LEMMA StartStep == ASSUME WalletInv, NEW i \in Import, StartImport(i) PROVE WalletInv'
<1> DEFINE new == [NoImport EXCEPT !.pc = "fetchTx", !.stopAt = Max(stored.tx \cup {0})]
<1>1. UNCHANGED <<made, stored, failures>> /\ imp' = [imp EXCEPT ![i] = new]
  BY DEF StartImport
<1>2. stored.tx \subseteq 1..MaxMade
  BY ImportAssumption DEF WalletInv, WalletTypeOK
<1>3. Max(stored.tx \cup {0}) \in 0..MaxMade
  BY <1>2, HighestOf, ImportAssumption
<1>4. new \in Local /\ new.pc = "fetchTx" /\ new.from = 0
  <2>1. new \in Local
    BY <1>3, NoImportOK DEF Local
  <2>2. new.pc = "fetchTx" /\ new.from = 0
    BY DEF NoImport
  <2> QED BY <2>1, <2>2
<1> HIDE DEF new
<1>5. imp'[i] = new
  BY <1>1 DEF WalletInv, WalletTypeOK
<1>6. ImportOK(i)'
  BY <1>1, <1>4, <1>5, ImportAssumption DEF ImportOK, Behind, WalletInv, WalletTypeOK
<1> QED
  BY <1>1, <1>4, <1>6, OneImport DEF WalletInv, WalletTypeOK, StoredOK

LEMMA FetchTxStep == ASSUME WalletInv, NEW i \in Import, FetchTx(i) PROVE WalletInv'
<1> DEFINE from == imp[i].from
           rows == TxPage(from)
           m == IF from = 0 THEN made.tx ELSE from - 1
           new == [imp[i] EXCEPT !.rows = rows, !.pc = IF rows = {} THEN "fetchJr" ELSE "storeTx",
                                 !.page = IF rows = {} THEN 1 ELSE 0,
                                 !.top = IF from = 0 THEN Max(rows \cup {0}) ELSE @]
<1>1. /\ UNCHANGED <<made, stored, failures>> /\ imp[i].pc = "fetchTx" /\ imp[i] \in Local
      /\ imp' = [imp EXCEPT ![i] = new]
  BY DEF FetchTx, WalletInv, WalletTypeOK, Local
<1>2. /\ made \in [tx : 0..MaxMade, jr : 0..MaxMade] /\ from \in 0..made.tx /\ m \in Nat /\ m <= made.tx
      /\ made.tx \in Nat /\ made.tx <= MaxMade /\ MaxMade \in Nat
      /\ imp[i].stopAt \in Nat /\ imp[i].top \in 0..MaxMade
      /\ Behind(i)
  BY <1>1, ImportAssumption DEF WalletInv, WalletTypeOK, ImportOK, Behind, Local
<1>3. /\ m = 0 => rows = {}
      /\ m > 0 => \E lo \in 1..m : rows = lo..m /\ (m - lo + 1 < EsiPage => lo = 1)
  BY <1>2, TxPageOf
<1>4. Max({} \cup {0}) = 0
  BY DEF Max
<1> HIDE DEF rows
<1>5. CASE m = 0
  <2>1. /\ new \in Local /\ new.pc = "fetchJr" /\ new.page = 1 /\ new.stopAt = imp[i].stopAt
        /\ new.top = IF from = 0 THEN 0 ELSE imp[i].top
    <3>1. rows = {} /\ new = [imp[i] EXCEPT !.rows = {}, !.pc = "fetchJr", !.page = 1,
                                            !.top = IF from = 0 THEN 0 ELSE imp[i].top]
      BY <1>3, <1>4, <1>5
    <3>2. (IF from = 0 THEN 0 ELSE imp[i].top) \in 0..MaxMade /\ 1 \in 0..MaxMade + 1
      BY <1>2
    <3> HIDE DEF new
    <3> QED BY <1>1, <3>1, <3>2 DEF Local
  <2> HIDE DEF new
  <2>2. imp'[i] = new
    BY <1>1 DEF WalletInv, WalletTypeOK
  <2>3. imp[i].stopAt + 1..new.top \subseteq stored.tx
    <3>1. CASE from = 0
      BY <1>2, <2>1, <3>1
    <3>2. CASE from # 0
      BY <1>2, <1>5, <2>1, <3>2 DEF Behind
    <3> QED BY <3>1, <3>2
  <2>4. ImportOK(i)'
    BY <1>1, <2>1, <2>2, <2>3 DEF ImportOK, Through
  <2> QED
    BY <1>1, <2>1, <2>4, OneImport DEF WalletInv, WalletTypeOK, StoredOK
<1>6. CASE m # 0
  <2>1. PICK lo \in 1..m : rows = lo..m /\ (m - lo + 1 < EsiPage => lo = 1)
    BY <1>2, <1>3, <1>6
  <2>2. Max(rows \cup {0}) = m /\ rows # {} /\ rows \subseteq 1..MaxMade
    <3>1. lo \in Nat /\ lo <= m
      BY <1>2
    <3>2. Max(rows \cup {0}) = m
      BY <1>2, <2>1, <3>1, MaxOf
    <3>3. rows # {} /\ rows \subseteq 1..MaxMade
      BY <1>2, <2>1, <3>1
    <3> QED BY <3>2, <3>3
  <2>3. /\ new \in Local /\ new.pc = "storeTx" /\ new.rows = rows /\ new.stopAt = imp[i].stopAt
        /\ new.from = from /\ new.top = IF from = 0 THEN m ELSE imp[i].top
    <3>1. new = [imp[i] EXCEPT !.rows = rows, !.pc = "storeTx", !.page = 0,
                               !.top = IF from = 0 THEN m ELSE imp[i].top]
      BY <2>2
    <3>2. (IF from = 0 THEN m ELSE imp[i].top) \in 0..MaxMade /\ 0 \in 0..MaxMade + 1
      BY <1>2
    <3> HIDE DEF new
    <3> QED BY <1>1, <2>2, <3>1, <3>2 DEF Local
  <2> HIDE DEF new
  <2>4. imp'[i] = new
    BY <1>1 DEF WalletInv, WalletTypeOK
  <2>5. End(i)' = m
    BY <1>2, <2>3, <2>4 DEF End
  <2>6. WholePage(i)'
    BY <1>1, <1>2, <2>1, <2>3, <2>4, <2>5, <1>6 DEF WholePage
  <2>7. Behind(i)'
    BY <1>1, <1>2, <2>3, <2>4 DEF Behind
  <2>8. ImportOK(i)'
    BY <2>3, <2>4, <2>6, <2>7 DEF ImportOK
  <2> QED
    BY <1>1, <2>3, <2>8, OneImport DEF WalletInv, WalletTypeOK, StoredOK
<1> QED BY <1>5, <1>6

LEMMA StoreTxStep == ASSUME WalletInv, NEW i \in Import, StoreTx(i) PROVE WalletInv'
<1> DEFINE rows == imp[i].rows
           lo == Min(rows)
           last == lo <= imp[i].stopAt \/ Cardinality(rows) < FullPage
           kept == {t \in rows : t > imp[i].stopAt}
           new == [imp[i] EXCEPT !.rows = {}, !.from = lo, !.pc = IF last THEN "fetchJr" ELSE "fetchTx",
                                 !.page = IF last THEN 1 ELSE 0]
<1>1. /\ UNCHANGED <<made, failures>> /\ imp[i].pc = "storeTx" /\ imp[i] \in Local
      /\ imp' = [imp EXCEPT ![i] = new] /\ stored' = [stored EXCEPT !.tx = @ \cup kept]
  BY DEF StoreTx, WalletInv, WalletTypeOK
<1>2. Behind(i) /\ WholePage(i)
  BY <1>1 DEF WalletInv, ImportOK
<1>3. /\ made.tx \in Nat /\ made.tx <= MaxMade /\ MaxMade \in Nat
      /\ imp[i].stopAt \in Nat /\ imp[i].top \in Nat /\ imp[i].from \in Nat
      /\ EsiPage \in Nat /\ FullPage \in 1..EsiPage
  BY <1>1, ImportAssumption DEF WalletInv, WalletTypeOK, Local
<1>4. PICK l \in 1..End(i) : rows = l..End(i) /\ (End(i) - l + 1 < EsiPage => l = 1)
  BY <1>2 DEF WholePage
<1>5. End(i) \in 1..made.tx /\ l \in Nat /\ l <= End(i) /\ End(i) \in Nat
  BY <1>2, <1>3, <1>4 DEF WholePage
<1>6. lo = l
  BY <1>4, <1>5, MinOf
<1>7. Cardinality(rows) = End(i) - l + 1
  <2>1. Cardinality(l..End(i)) = IF l > End(i) THEN 0 ELSE End(i) - l + 1
    BY <1>5, FS_Interval
  <2>2. (IF l > End(i) THEN 0 ELSE End(i) - l + 1) = End(i) - l + 1
    BY <1>5
  <2> QED BY <1>4, <2>1, <2>2, Zenon
<1>8. last => l <= imp[i].stopAt \/ l = 1
  BY <1>3, <1>4, <1>5, <1>6, <1>7
<1>9. /\ stored' = [tx |-> stored.tx \cup kept, jr |-> stored.jr]
      /\ kept \subseteq 1..made.tx
  BY <1>1, <1>3, <1>4, <1>5 DEF WalletInv, StoredOK
<1>10. \A t \in imp[i].stopAt + 1..imp[i].top : t >= l => t \in stored'.tx
  <2> SUFFICES ASSUME NEW t \in imp[i].stopAt + 1..imp[i].top, t >= l PROVE t \in stored.tx \cup kept
    BY <1>9
  <2>1. CASE t <= End(i)
    BY <1>3, <1>4, <1>5, <2>1
  <2>2. CASE t > End(i)
    <3>1. imp[i].from # 0 /\ t >= imp[i].from
      BY <1>3, <1>5, <2>2 DEF End
    <3> QED BY <1>2, <3>1 DEF Behind
  <2> QED BY <1>3, <1>5, <2>1, <2>2
<1>11. /\ new \in Local /\ new.rows = {} /\ new.from = l /\ new.pc = (IF last THEN "fetchJr" ELSE "fetchTx")
       /\ new.page = (IF last THEN 1 ELSE 0) /\ new.stopAt = imp[i].stopAt /\ new.top = imp[i].top
  <2>1. l \in 0..MaxMade /\ 0 \in 0..MaxMade + 1 /\ 1 \in 0..MaxMade + 1
    BY <1>3, <1>5
  <2> HIDE DEF last, lo
  <2> QED BY <1>1, <1>6, <2>1 DEF Local
<1>12. imp'[i] = new
  BY <1>1 DEF WalletInv, WalletTypeOK
<1> HIDE DEF new, last, kept
<1>13. ImportOK(i)'
  <2>1. CASE last
    <3>1. imp[i].stopAt + 1..imp[i].top \subseteq stored'.tx
      BY <1>3, <1>5, <1>8, <1>10, <2>1
    <3> QED BY <1>11, <1>12, <2>1, <3>1 DEF ImportOK, Through
  <2>2. CASE ~last
    <3>1. Behind(i)'
      BY <1>1, <1>3, <1>5, <1>10, <1>11, <1>12 DEF Behind
    <3> QED BY <1>11, <1>12, <2>2, <3>1 DEF ImportOK
  <2> QED BY <2>1, <2>2
<1>14. /\ StoredOK' /\ stored'.tx \subseteq 1..made.tx /\ stored'.jr \subseteq 1..made.jr
       /\ stored.tx \subseteq stored'.tx
  <2>1. stored.tx \subseteq 1..made.tx /\ stored.jr \subseteq 1..made.jr /\ stored \in [tx : SUBSET Nat, jr : SUBSET Nat]
    BY DEF WalletInv, WalletTypeOK, StoredOK
  <2>2. stored'.tx = stored.tx \cup kept /\ stored'.jr = stored.jr
    BY <1>9
  <2>3. StoredOK'
    <3>1. stored.tx \cup kept \in SUBSET Nat /\ stored.jr \in SUBSET Nat
      <4>1. kept \subseteq Nat
        <5>1. 1..made.tx \subseteq Nat
          BY <1>3
        <5> QED BY <1>9, <5>1
      <4>2. stored.tx \subseteq Nat /\ stored.jr \subseteq Nat
        BY <2>1
      <4> QED BY <4>1, <4>2
    <3> QED BY <1>9, <3>1 DEF StoredOK
  <2> QED BY <1>9, <2>1, <2>2, <2>3
<1> QED
  BY <1>1, <1>11, <1>13, <1>14, OneImport DEF WalletInv, WalletTypeOK

LEMMA FetchJrStep == ASSUME WalletInv, NEW i \in Import, FetchJr(i) PROVE WalletInv'
<1>1. UNCHANGED <<made, stored, failures>> /\ imp[i].pc = "fetchJr" /\ imp[i] \in Local
  BY DEF FetchJr, WalletInv, WalletTypeOK
<1>2. Through(i)
  BY <1>1 DEF WalletInv, ImportOK
<1>3. imp[i].page \in Nat \ {0}
  BY <1>1, <1>2, ImportAssumption DEF Through, Local
<1>4. CASE JrPage(imp[i].page) = {}
  BY <1>1, <1>4, IdleStep DEF FetchJr, WalletInv, WalletTypeOK, StoredOK
<1>5. CASE JrPage(imp[i].page) # {}
  <2> DEFINE rows == JrPage(imp[i].page)
  <2>1. PICK header \in {0, XPages} :
          imp' = [imp EXCEPT ![i].pc = "storeJr", ![i].rows = rows, ![i].pages = IF @ = 0 THEN header ELSE @]
    BY <1>5 DEF FetchJr
  <2> DEFINE new == [imp[i] EXCEPT !.pc = "storeJr", !.rows = rows, !.pages = IF @ = 0 THEN header ELSE @]
  <2>2. imp' = [imp EXCEPT ![i] = new]
    BY <2>1 DEF WalletInv, WalletTypeOK, Local
  <2>3. /\ rows \subseteq 1..made.jr /\ imp[i].page <= MaxMade /\ header \in 0..MaxMade
        /\ rows \subseteq 1..MaxMade
    BY <1>3, <1>5, JrPageOf, ImportAssumption DEF WalletInv, WalletTypeOK
  <2> HIDE DEF rows
  <2>4. /\ new \in Local /\ new.pc = "storeJr" /\ new.rows = rows /\ new.page = imp[i].page
        /\ new.stopAt = imp[i].stopAt /\ new.top = imp[i].top
    BY <1>1, <2>3 DEF Local
  <2> HIDE DEF new
  <2>5. imp'[i] = new
    BY <2>2 DEF WalletInv, WalletTypeOK
  <2>6. ImportOK(i)'
    BY <1>1, <1>2, <2>3, <2>4, <2>5 DEF ImportOK, Through
  <2> QED
    BY <1>1, <2>2, <2>4, <2>6, OneImport DEF WalletInv, WalletTypeOK, StoredOK
<1> QED BY <1>4, <1>5

LEMMA StoreJrStep == ASSUME WalletInv, NEW i \in Import, StoreJr(i) PROVE WalletInv'
<1> DEFINE rows == imp[i].rows
           new == [imp[i] EXCEPT !.pc = "fetchJr", !.rows = {}, !.page = @ + 1]
<1>1. /\ UNCHANGED <<made, failures>> /\ imp[i].pc = "storeJr" /\ imp[i] \in Local
      /\ stored' = [stored EXCEPT !.jr = @ \cup rows]
      /\ imp' = [imp EXCEPT ![i] = NoImport] \/ imp' = [imp EXCEPT ![i] = new]
  BY DEF StoreJr, WalletInv, WalletTypeOK, Local
<1>2. Through(i) /\ rows \subseteq 1..made.jr /\ imp[i].page <= MaxMade
  BY <1>1 DEF WalletInv, ImportOK
<1>3. stored' = [tx |-> stored.tx, jr |-> stored.jr \cup rows]
  BY <1>1 DEF WalletInv, StoredOK
<1>4. /\ StoredOK' /\ stored'.tx \subseteq 1..made.tx /\ stored'.jr \subseteq 1..made.jr
      /\ stored.tx \subseteq stored'.tx
  <2>1. made.jr \in Nat
    BY ImportAssumption DEF WalletInv, WalletTypeOK
  <2> QED BY <1>2, <1>3, <2>1 DEF WalletInv, WalletTypeOK, StoredOK
<1>5. CASE imp' = [imp EXCEPT ![i] = NoImport]
  BY <1>1, <1>4, <1>5, IdleStep DEF WalletInv, WalletTypeOK
<1>6. CASE imp' = [imp EXCEPT ![i] = new]
  <2>1. imp[i].page + 1 \in 0..MaxMade + 1 /\ imp[i].page + 1 # 0
    BY <1>1, <1>2, ImportAssumption DEF Local
  <2>2. /\ new \in Local /\ new.pc = "fetchJr" /\ new.page = imp[i].page + 1
        /\ new.stopAt = imp[i].stopAt /\ new.top = imp[i].top
    BY <1>1, <2>1 DEF Local
  <2> HIDE DEF new
  <2>3. imp'[i] = new
    BY <1>6 DEF WalletInv, WalletTypeOK
  <2>4. ImportOK(i)'
    BY <1>2, <1>3, <2>1, <2>2, <2>3 DEF ImportOK, Through
  <2> QED
    BY <1>1, <1>4, <1>6, <2>2, <2>4, OneImport DEF WalletInv, WalletTypeOK
<1> QED BY <1>1, <1>5, <1>6

LEMMA CutStep == ASSUME WalletInv, NEW i \in Import, CutImport(i) PROVE WalletInv'
<1>1. failures' \in 0..MaxFailures
  BY ImportAssumption DEF CutImport, WalletInv, WalletTypeOK
<1> QED
  BY <1>1, IdleStep DEF CutImport, WalletInv, WalletTypeOK, StoredOK

LEMMA WalletStep == WalletInv /\ [WalletNext]_walletVars => WalletInv'
<1> SUFFICES ASSUME WalletInv, [WalletNext]_walletVars PROVE WalletInv'
  OBVIOUS
<1>1. ASSUME NEW kind \in {"tx", "jr"}, Make(kind) PROVE WalletInv'
  BY <1>1, MakeStep
<1>2. ASSUME NEW i \in Import, ImportStep(i) \/ CutImport(i) PROVE WalletInv'
  BY <1>2, StartStep, FetchTxStep, StoreTxStep, FetchJrStep, StoreJrStep, CutStep DEF ImportStep
<1>3. CASE UNCHANGED walletVars
  <2>1. UNCHANGED <<made, stored, imp, failures>>
    BY <1>3 DEF walletVars
  <2>2. WalletTypeOK' /\ StoredOK'
    BY <2>1 DEF WalletInv, WalletTypeOK, StoredOK
  <2>3. made.tx <= made'.tx /\ made.jr <= made'.jr
    BY <2>1, ImportAssumption DEF WalletInv, WalletTypeOK
  <2>4. \A i \in Import : ImportOK(i)'
    BY <2>1, <2>2, <2>3, OthersOK
  <2> QED BY <2>2, <2>4 DEF WalletInv
<1> QED
  BY <1>1, <1>2, <1>3 DEF WalletNext

LEMMA WalletAlways == WalletSpec => []WalletInv
  BY WalletStart, WalletStep, PTL DEF WalletSpec

--------------------------------------------------------------------------------
(* Theorems                                                                *)

\* The types hold, and nothing is stored that the wallet does not have; in
\* particular the pages of the journal that are asked for stay in their bounds,
\* also when X-Pages is missing.
THEOREM WalletTyped == WalletSpec => []WalletTypeOK
<1>1. WalletInv => WalletTypeOK
  BY DEF WalletInv
<1> QED
  BY <1>1, WalletAlways, PTL

\* "paginate older until we reach previously seen max id": an import that goes on to
\* the journal has stored all that it was shown above that id, however many imports
\* overlap, wherever they are cut short and however the pages shift.
THEOREM ImportLeavesNoGap == WalletSpec => []ImportCatchesUp
<1>1. WalletInv => ImportCatchesUp
  BY DEF WalletInv, ImportOK, Through, ImportCatchesUp
<1> QED
  BY <1>1, WalletAlways, PTL

================================================================================
