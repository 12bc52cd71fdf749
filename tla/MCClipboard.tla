---------------------------- MODULE MCClipboard ----------------------------
(***************************************************************************)
(* Small instances of the clipboard screen.                                *)
(***************************************************************************)
EXTENDS ContextAiScreen, TLC

CONSTANTS code, card, secret, long, blank, j1, j2

(* Reading: code, a longer text with its preview, a text that is only      *)
(* copied with the flag, and a blank one.                                  *)
ReadTexts     == {code, card, secret}
ReadContents  == ReadTexts \cup {long, blank}
ReadPreviewOf == [t \in ReadTexts |-> t] @@ (long :> card)

(* Requests: a text that looks sensitive and one that does not.            *)
AskTexts      == {code, card}
AskPreviewOf  == [t \in AskTexts |-> t]

AllCode(texts) == [t \in texts |-> "CODE"]
ReadTypeOf == AllCode(ReadTexts)
AskTypeOf  == AllCode(AskTexts)

(* The requests run leaves aside what only delays a read: the states in    *)
(* which a text was read and monitoring or the focus is gone again, and    *)
(* those after a failed read.  It goes no further once requests have       *)
(* overlapped and a text has crossed one: its invariants speak of neither. *)
KeepsReading ==
  /\ ~refused
  /\ ~(overlapped /\ crossed)
  /\ latestClipboard # Null => monEnabled /\ monFocus

JobSymmetry == Permutations({j1, j2})
============================================================================
