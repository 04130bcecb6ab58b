------------------------------ MODULE ClaimBoard ------------------------------
(***************************************************************************)
(* What the daemon's write path promises to those who read and write       *)
(* claims: a board.  Entries are posted one at a time and never taken      *)
(* down.  What the board shows is replaced at one go, by the fold of all   *)
(* that is posted.  While it is open it shows just that, and who posted an *)
(* entry is told so only once it is shown.  WorkingState implements it.    *)
(***************************************************************************)
CONSTANT Fold(_)   \* what a set of entries comes to

VARIABLES posted,  \* the entries
          shown,   \* what readers see
          open,    \* the board is at rest and takes entries
          granted  \* entries whose authors have been answered

boardVars == <<posted, shown, open, granted>>

BoardInit == posted = {} /\ shown = Fold({}) /\ open = FALSE /\ granted = {}

(* The board closes for an entry, unless that changes nothing.             *)
Post ==
  /\ open
  /\ \E e \in posted' : e \notin posted /\ posted' = posted \cup {e}
  /\ open' => shown = Fold(posted')
  /\ open' \in BOOLEAN
  /\ UNCHANGED <<shown, granted>>

(* The rows are shown together, and the author of one may be answered.     *)
Show ==
  /\ ~open /\ open'
  /\ shown' = Fold(posted)
  /\ granted' = granted \/ \E e \in posted : granted' = granted \cup {e}
  /\ UNCHANGED posted

(* The daemon goes down: what was shown last stays readable.               *)
Close == open /\ open' = FALSE /\ UNCHANGED <<posted, shown, granted>>

BoardNext == Post \/ Show \/ Close

BoardSpec == BoardInit /\ [][BoardNext]_boardVars

===============================================================================
