----------------------------- MODULE JunctionsPage -----------------------------
(***************************************************************************)
(* The junction directory (pages/JunctionsPage.tsx): the cards built from  *)
(* the store's junctions, the filters over them, and the junction a card   *)
(* opens.  A name is a text with or without spaces around it; what matters *)
(* of a text is which of the words of the code it contains.                *)
(*                                                                         *)
(* storeJunctions   the store's junctions, <<>> before they arrive; the    *)
(*                  id of a junction is its place                          *)
(* opened           the id of the junction page a card has led to, "none"  *)
(*                  on this page                                           *)
(***************************************************************************)
EXTENDS InformationBounds, Sequences, Functions, TLC

VARIABLES storeJunctions, search, statusFilter, cityTab, opened
filters == <<search, statusFilter, cityTab>>
vars == <<storeJunctions, filters, opened>>

Cities == {"Delhi NCR", "Bangalore", "SUMO Twin"}
Statuses == {"Normal", "Congested", "MARL Active"}
SumoIds == {"J0", "J1", "J2", "J3"}
Name(text, padded) == [text |-> text, padded |-> padded]

(***************************************************************************)
(* The list of cards.                                                      *)
(***************************************************************************)
City(text) == CASE text \in SumoNames -> "SUMO Twin"
                [] text \in BlrNames \ SumoNames -> "Bangalore"
                [] OTHER -> "Delhi NCR"

StatusAt(idx) == <<"Normal", "Congested", "MARL Active">>[((idx - 1) % 3) + 1]

\* The code shown is the city's prefix and the place in the store.
Card(idx) ==
  LET name == storeJunctions[idx]
  IN [id |-> ToString(idx), name |-> name, city |-> City(name.text),
      code |-> <<City(name.text), ToString(idx)>>, status |-> StatusAt(idx)]

SumoCard(id) == [id |-> id, name |-> Name(id, FALSE), city |-> "SUMO Twin",
                 code |-> <<"SUMO Twin", id>>, status |-> "MARL Active"]

\* Mutant: names are compared as they are.
seenNamesUntrimmed(cards) == {card.name.text : card \in {c \in Range(cards) : ~c.name.padded}}
seenNames(cards) == {card.name.text : card \in Range(cards)}

\* forEach over the store: names are compared trimmed, and kept as they are.
AddCard(cards, idx) ==
  LET trimmedName == storeJunctions[idx].text
  IN IF trimmedName \in seenNames(cards) \cup Sensors THEN cards ELSE Append(cards, Card(idx))

uniqueFromDB ==
  LET cardsOf[n \in 0..Len(storeJunctions)] == IF n = 0 THEN <<>> ELSE AddCard(cardsOf[n - 1], n)
  IN cardsOf[Len(storeJunctions)]

SumoCards == [k \in 1..4 |-> SumoCard(<<"J0", "J1", "J2", "J3">>[k])]

\* The sixteen curated junctions shown before the store has any; one stands for those
\* of each city but the twin's.
DEFAULT_CURATED_JUNCTIONS ==
  <<[id |-> "DEL-CP-01", name |-> Name("DEL-CP-01", FALSE), city |-> "Delhi NCR",
     code |-> <<"Delhi NCR", "DEL-01">>, status |-> "MARL Active"],
    [id |-> "BLR-SLK-02", name |-> Name("BLR-SLK-02", FALSE), city |-> "Bangalore",
     code |-> <<"Bangalore", "BLR-02">>, status |-> "Congested"]>> \o SumoCards

HasSumo(cards) == \E card \in Range(cards) : card.city = "SUMO Twin"

junctions ==
  IF storeJunctions = <<>> THEN DEFAULT_CURATED_JUNCTIONS
  ELSE IF HasSumo(uniqueFromDB) THEN uniqueFromDB
  ELSE uniqueFromDB \o SumoCards

(***************************************************************************)
(* The filters, and the cards they leave.                                  *)
(***************************************************************************)

\* The search field finds its words in the name, in the code and in the city.
Searches == {<<"nothing">>} \cup {<<"name", t>> : t \in Names} \cup {<<"city", c>> : c \in Cities}
MatchesSearch(card) ==
  \/ search = <<"nothing">>
  \/ search = <<"name", card.name.text>>
  \/ search = <<"city", card.city>>

filteredJunctions ==
  SelectSeq(junctions, LAMBDA card : /\ MatchesSearch(card)
                                     /\ statusFilter \in {"All", card.status}
                                     /\ cityTab \in {"All", card.city})

Init ==
  /\ storeJunctions = <<>>
  /\ search = <<"nothing">> /\ statusFilter = "All" /\ cityTab = "All"
  /\ opened = "none"

NoFilters == search' = <<"nothing">> /\ statusFilter' = "All" /\ cityTab' = "All"
Here == opened = "none"

StoreLoads ==
  /\ storeJunctions = <<>>
  /\ storeJunctions' \in UNION {[1..n -> [text : Names, padded : BOOLEAN]] : n \in 1..MaxStore}
  /\ UNCHANGED <<filters, opened>>

SetSearch(s) == Here /\ search' = s /\ UNCHANGED <<storeJunctions, statusFilter, cityTab, opened>>
SetStatus(s) == Here /\ statusFilter' = s /\ UNCHANGED <<storeJunctions, search, cityTab, opened>>
SetTab(c) == Here /\ cityTab' = c /\ UNCHANGED <<storeJunctions, search, statusFilter, opened>>

\* The click leads away, and React forgets the filters.
OpenCard ==
  /\ Here
  /\ \E card \in Range(filteredJunctions) : opened' = card.id
  /\ NoFilters
  /\ UNCHANGED storeJunctions

\* The button of the banner.
OpenLiveMap == Here /\ opened' = "map" /\ NoFilters /\ UNCHANGED storeJunctions

BackToNetwork == ~Here /\ opened' = "none" /\ UNCHANGED <<storeJunctions, filters>>

Next ==
  \/ StoreLoads \/ OpenCard \/ OpenLiveMap \/ BackToNetwork
  \/ \E s \in Searches : SetSearch(s)
  \/ \E s \in Statuses \cup {"All"} : SetStatus(s)
  \/ \E c \in Cities \cup {"All"} : SetTab(c)

Spec == Init /\ [][Next]_vars

(***************************************************************************)
(* Properties.                                                             *)
(***************************************************************************)

\* Every variable has its type.
TypeOK ==
  /\ storeJunctions \in Seq([text : Names, padded : BOOLEAN])
  /\ Len(storeJunctions) <= MaxStore
  /\ search \in Searches
  /\ statusFilter \in Statuses \cup {"All"} /\ cityTab \in Cities \cup {"All"}
  /\ opened \in {"none", "map", "DEL-CP-01", "BLR-SLK-02"} \cup SumoIds
              \cup {ToString(i) : i \in 1..MaxStore}

\* The loop's list against its definition: each name that is no sensor's has one card,
\* that of the first junction so named; the twin's own four are there exactly when no
\* junction of the store stands for it; ids and codes tell all cards apart.
DirectoryIsComplete ==
  storeJunctions # <<>> =>
    LET firsts == {i \in DOMAIN storeJunctions :
                     /\ storeJunctions[i].text \notin Sensors
                     /\ \A k \in 1..(i - 1) : storeJunctions[k].text # storeJunctions[i].text}
        twins == {i \in firsts : storeJunctions[i].text \in SumoNames}
        ids == [k \in DOMAIN junctions |-> junctions[k].id]
        codes == [k \in DOMAIN junctions |-> junctions[k].code]
    IN /\ Range(ids) = {ToString(i) : i \in firsts} \cup (IF twins = {} THEN SumoIds ELSE {})
       /\ IsInjective(ids) /\ IsInjective(codes)
       /\ HasSumo(junctions)
=============================================================================
