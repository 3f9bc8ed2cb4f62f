---------------------------- MODULE MCOperatorPages ----------------------------
(***************************************************************************)
(* The two pages that give commands.  The router shows one page at a time, *)
(* and they share nothing: a behaviour is one of either page, chosen in    *)
(* the variable page.  EmergencyPage's variables have their own names,     *)
(* SignalControlPage's an s before those that both have.                   *)
(***************************************************************************)
EXTENDS EmergencyPage, TLC

CONSTANTS
  Junctions, First, Fallback, J0, None, ModeClicks, OverrideClicks, MaxFetches, MaxLines

ASSUME SignalControlPageAssumption ==
  /\ {First, Fallback} \subseteq Junctions
  /\ J0 \notin Junctions /\ None \notin Junctions \cup {J0}
  /\ MaxLines \in Nat /\ MaxLines >= 5 /\ MaxFetches \in Nat

VARIABLES
  page,
  sCareful, mode, runs, sWire, sReplies, sLost, sFaults, store, list, fetches, sCall,
  sMounted, selectedJunctionId, activePlan, activeControl, lines

Signals == INSTANCE SignalControlPage WITH
  careful <- sCareful, wire <- sWire, replies <- sReplies, lost <- sLost,
  faults <- sFaults, mounted <- sMounted, call <- sCall

signalsVars ==
  <<sCareful, mode, runs, sWire, sReplies, sLost, sFaults, store, list, fetches, sCall,
    sMounted, selectedJunctionId, activePlan, activeControl, lines>>
pagesVars == <<page, vars, signalsVars>>

\* The page that is not chosen has one of its initial states.
PagesInit ==
  /\ page \in {"emergency", "signals"}
  /\ Init /\ (page # "emergency" => careful)
  /\ Signals!Init /\ (page # "signals" => sCareful /\ store)

PagesNext ==
  \/ page = "emergency" /\ Next /\ UNCHANGED <<page, signalsVars>>
  \/ page = "signals" /\ Signals!Next /\ UNCHANGED <<page, vars>>

PagesSpec == PagesInit /\ [][PagesNext]_pagesVars

Symmetry == Permutations(Clicks)

\* Operators who wait until all is quiet see what the server has and command what they
\* see, on either page; nobody's retried command runs more than once more.  The
\* variables have their types.
CarefulOperators ==
  /\ TypeOK /\ CarefulOperatorsAgree
  /\ Signals!TypeOK /\ Signals!CarefulSeesSelected /\ Signals!CarefulHitsJunction
  /\ Signals!RunsOnceMore
=============================================================================
