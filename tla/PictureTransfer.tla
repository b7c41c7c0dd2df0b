--------------------------- MODULE PictureTransfer ---------------------------
(***************************************************************************)
(* What saving a picture and loading it again promises, whatever the file  *)
(* in between looks like: cells of the loaded picture are blank until they *)
(* show what the saved picture has there, and are never touched again.     *)
(***************************************************************************)
CONSTANT Blank

VARIABLES
  picture,  \* what is saved: a function of cells
  shown     \* what has been loaded so far

Init == shown = [cell \in DOMAIN picture |-> Blank]

Transfer ==
  /\ shown' # shown
  /\ shown' = [cell \in DOMAIN picture |-> shown'[cell]]
  /\ \A cell \in DOMAIN picture :
       shown'[cell] = IF shown[cell] = Blank /\ shown'[cell] # Blank
                      THEN picture[cell] ELSE shown[cell]
  /\ UNCHANGED picture

Spec == Init /\ [][Transfer]_<<picture, shown>>
=============================================================================
