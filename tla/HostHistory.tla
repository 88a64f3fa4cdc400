----------------------------- MODULE HostHistory -----------------------------
(***************************************************************************)
(* The list of hosts in the connect dialog (connectdialog.cpp): the group  *)
(* "hosts" of the settings keeps, for each host, its position in the list  *)
(* and its quality.  A host that was only given on the command line has a  *)
(* group (for its password) but no position.                               *)
(*                                                                         *)
(* An editable combo box has a current index and a text, which need not    *)
(* agree.  Listening, which leaves the list alone, is the text "listen".   *)
(***************************************************************************)
EXTENDS Integers, Sequences, FiniteSets

CONSTANT Hosts

ASSUME HostsAssumption == "listen" \notin Hosts

VARIABLES
  position, quality,       \* settings: hosts/<host>/position and quality
  dialogOpen,              \* the dialog exists
  hostnames_sorted,        \* read when it was opened
  currentIndex, text,      \* of the combo box
  quality_combobox,        \* the quality it offers
  touched                  \* history: the user chose the quality

settingsVars == <<position, quality>>
dialogVars == <<dialogOpen, hostnames_sorted, currentIndex, text,
                quality_combobox, touched>>
historyVars == <<settingsVars, dialogVars>>

Default == 2
Unset == -1

HistoryTypeOK ==
  /\ position \in [Hosts -> Int]
  /\ quality \in [Hosts -> 1..3]
  /\ dialogOpen \in BOOLEAN
  /\ hostnames_sorted \in Seq(Hosts)
  /\ currentIndex \in -1..Len(hostnames_sorted)
  /\ text \in Hosts \cup {"", "listen"}
  /\ quality_combobox \in 1..3
  /\ touched \in BOOLEAN

(* New settings, or settings migrated from one last host. *)
HistoryInit ==
  /\ \E migrated \in SUBSET Hosts :
       /\ \A a, b \in migrated : a = b
       /\ position = [h \in Hosts |-> IF h \in migrated THEN 0 ELSE Unset]
  /\ quality = [h \in Hosts |-> Default]
  /\ dialogOpen = FALSE
  /\ hostnames_sorted = <<>>
  /\ currentIndex = -1
  /\ text = ""
  /\ quality_combobox = Default
  /\ touched = FALSE

-----------------------------------------------------------------------------
Listed == {h \in Hosts : position[h] # Unset}

(* The hosts by ascending position; of two with the same one is lost. *)
SortedHosts ==
  LET places == {position[h] : h \in Listed}
      Before(h) == {p \in places : p < position[h]}
  IN [i \in 1..Cardinality(places) |->
        CHOOSE h \in Listed : Cardinality(Before(h)) = i - 1]

InList(list, h) == \E i \in 1..Len(list) : list[i] = h
PlaceOf(list, h) == CHOOSE i \in 1..Len(list) : list[i] = h

QualityOf(t) == IF t \in Hosts THEN quality[t] ELSE Default

(* accept() that rebuilds the list with the host still in it. *)
RebuiltWithDuplicate(h, usedOld) == hostnames_sorted

-----------------------------------------------------------------------------
(* The list that gets the positions from 1 on: a host is in it once. *)
Rebuilt(h, usedOld) ==
  IF usedOld
  THEN [i \in 1..(Len(hostnames_sorted) - 1) |->
          hostnames_sorted[IF i < PlaceOf(hostnames_sorted, h) THEN i ELSE i + 1]]
  ELSE hostnames_sorted

ShownQuality(t) == IF t = "listen" THEN quality_combobox ELSE QualityOf(t)

Open ==
  /\ ~dialogOpen
  /\ dialogOpen' = TRUE
  /\ hostnames_sorted' = SortedHosts
  /\ currentIndex' = 0
  /\ text' = IF hostnames_sorted' = <<>> THEN "" ELSE hostnames_sorted'[1]
  /\ quality_combobox' = QualityOf(text')
  /\ touched' = FALSE
  /\ UNCHANGED settingsVars

(* Choosing an item of the list (item n is the entry to listen) ... *)
Choose ==
  /\ dialogOpen
  /\ \E i \in 0..Len(hostnames_sorted) :
       /\ currentIndex' = i
       /\ text' = IF i = Len(hostnames_sorted) THEN "listen"
                  ELSE hostnames_sorted[i + 1]
  /\ quality_combobox' = ShownQuality(text')
  /\ touched' = (touched /\ text' = "listen")
  /\ UNCHANGED <<settingsVars, dialogOpen, hostnames_sorted>>

(* ... or typing, which leaves the index alone, except that of "listen". *)
Type ==
  /\ dialogOpen
  /\ text' \in Hosts \cup {""}
  /\ currentIndex' = IF text = "listen" THEN -1 ELSE currentIndex
  /\ quality_combobox' = ShownQuality(text')
  /\ touched' = FALSE
  /\ UNCHANGED <<settingsVars, dialogOpen, hostnames_sorted>>

ChooseQuality ==
  /\ dialogOpen
  /\ quality_combobox' \in 1..3
  /\ touched' = TRUE
  /\ UNCHANGED <<settingsVars, dialogOpen, hostnames_sorted, currentIndex, text>>

Cancel ==
  /\ dialogOpen
  /\ dialogOpen' = FALSE
  /\ UNCHANGED <<settingsVars, hostnames_sorted, currentIndex, text,
                 quality_combobox, touched>>

Accept ==
  LET h       == text
      newItem == ~InList(hostnames_sorted, h)
      usedOld == ~newItem /\ currentIndex > 0
      rest    == Rebuilt(h, usedOld)
      (* setValue(h, 0), then setValue(rest[i], i) in this order *)
      Moved   == [x \in Hosts |-> IF InList(rest, x) THEN PlaceOf(rest, x)
                                  ELSE IF x = h THEN 0 ELSE position[x]]
  IN /\ dialogOpen
     /\ dialogOpen' = FALSE
     /\ IF h \in Hosts
          THEN /\ position' = IF newItem \/ usedOld THEN Moved ELSE position
               /\ quality' = [quality EXCEPT ![h] = quality_combobox]
          ELSE UNCHANGED settingsVars
     /\ UNCHANGED <<hostnames_sorted, currentIndex, text, quality_combobox,
                    touched>>

HistoryNext ==
  \/ Open
  \/ Choose
  \/ Type
  \/ ChooseQuality
  \/ Cancel
  \/ Accept

HistorySpec == HistoryInit /\ [][HistoryNext]_historyVars

-----------------------------------------------------------------------------
(* No host is ever dropped from the list or moved before another one,      *)
(* except the one connected to, which is added and, if it is new or was    *)
(* chosen further down the list, comes first; the positions always number  *)
(* the list, so that the next dialog shows all of it; and a quality that   *)
(* the user did not choose is not changed.                                 *)
HistoryIsKept ==
  [][ \/ UNCHANGED settingsVars
      \/ /\ Listed \subseteq Listed'
         /\ Listed' \ Listed \subseteq {text}
         /\ {position'[h] : h \in Listed'} = 0..(Len(SortedHosts') - 1)
         /\ \A a, b \in Listed' : position'[a] = position'[b] => a = b
         /\ \A a, b \in Listed \ {text} :
              position[a] < position[b] => position'[a] < position'[b]
         /\ \/ position' = position
            \/ position'[text] = 0
         /\ \A h \in Hosts : quality'[h] # quality[h] => h = text /\ touched
    ]_historyVars
=============================================================================
