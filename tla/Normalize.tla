----------------------------- MODULE Normalize -----------------------------
(* normalize::for_hash: what of a device's configuration is hashed to tell  *)
(* whether it has changed.  A device encrypts its secrets and keys anew in  *)
(* every export.  Each export is read by a call of its own, line by line;   *)
(* beside the reader runs the device, which knows what a line is for.       *)
EXTENDS Naturals, Sequences

CONSTANTS
    Export,    \* the exports that are hashed
    Text,      \* lines, and what stands before " ENC " on a line
    Begins,    \* those with the BEGIN marker of a private key
    Ends,      \* those with an END marker, of a key or of anything else
    Blob,      \* what may follow " ENC " on a line
    None,      \* a line without " ENC "
    BlobMark,  \* " ENC <BLOB>"
    KeyMark,   \* the line "<PEM-BLOB>"
    MaxUnits   \* bound: lines and keys of an export, lines of one that is not UTF-8

\* No line of a configuration reads like the line that stands for a key.
ASSUME TextAssumption ==
    /\ Begins \subseteq Text /\ Ends \subseteq Text /\ KeyMark \notin Text
    /\ None \notin Blob /\ BlobMark \notin Blob /\ None # BlobMark

VARIABLES
    said,   \* said[e]: what the export has said, secrets and keys left blank
    inKey,  \* inKey[e]: it has begun a private key and not ended it
    utf8,   \* utf8[e]: its bytes are UTF-8
    inPem,  \* for_hash's local of this name
    out     \* for_hash's result so far

vars == <<said, inKey, utf8, inPem, out>>

Line == [text : Text, mark : Blob \cup {None}]

\* What is said in clear, a secret of the field t, a private key.
Clear(t) == [text |-> t, mark |-> None]
Secret(t) == [text |-> t, mark |-> BlobMark]
Key == [text |-> KeyMark, mark |-> None]
Unit == {Clear(t) : t \in Text} \cup {Secret(t) : t \in Text} \cup {Key}
OutLine == Unit \cup Line

TypeOK ==
    /\ said \in [Export -> Seq(Unit)]
    /\ inKey \in [Export -> BOOLEAN]
    /\ utf8 \in [Export -> BOOLEAN]
    /\ inPem \in [Export -> BOOLEAN]
    /\ out \in [Export -> Seq(OutLine)]
    /\ \A e \in Export : utf8[e] => out[e] \in Seq(Unit)

Init ==
    /\ said = [e \in Export |-> <<>>]
    /\ inKey = [e \in Export |-> FALSE]
    /\ utf8 \in [Export -> BOOLEAN]
    /\ inPem = [e \in Export |-> FALSE]
    /\ out = [e \in Export |-> <<>>]

----------------------------------------------------------------------------
(* The reader *)

LineStartsPem(line) == line.text \in Begins
HasEnd(line) == line.text \in Ends

\* Mutant: a BEGIN line is not searched for the END marker.
StaysInPemBlind(e, line) ==
    IF inPem[e] THEN ~HasEnd(line) ELSE LineStartsPem(line)

\* Whether in_pem is set after a line.
StaysInPem(e, line) == (inPem[e] \/ LineStartsPem(line)) /\ ~HasEnd(line)

\* Mutant: only the beginning of a key is hidden, not its body.
EmitBody(e, line) ==
    IF LineStartsPem(line) /\ ~inPem[e] THEN <<Key>>
    ELSE IF line.mark # None THEN <<Secret(line.text)>>
    ELSE <<line>>

\* Mutant: a secret is hashed as it is.
EmitSecret(e, line) ==
    IF inPem[e] THEN <<>>
    ELSE IF LineStartsPem(line) THEN <<Key>>
    ELSE <<line>>

\* What a line adds to the output.
Emit(e, line) ==
    IF inPem[e] THEN <<>>
    ELSE IF LineStartsPem(line) THEN <<Key>>
    ELSE IF line.mark # None THEN <<Secret(line.text)>>
    ELSE <<line>>

\* One round of the loop.  Bytes that are not UTF-8 are returned as they are.
Read(e, line) ==
    IF utf8[e]
    THEN /\ inPem' = [inPem EXCEPT ![e] = StaysInPem(e, line)]
         /\ out' = [out EXCEPT ![e] = @ \o Emit(e, line)]
    ELSE /\ Len(out[e]) < MaxUnits
         /\ out' = [out EXCEPT ![e] = Append(@, line)]
         /\ UNCHANGED inPem

----------------------------------------------------------------------------
(* The device: an export is a sequence of these *)

Says(e, u) ==
    /\ Len(said[e]) < MaxUnits
    /\ ~inKey[e]
    /\ said' = [said EXCEPT ![e] = Append(@, u)]
    /\ UNCHANGED utf8

\* A line in clear, those of public certificates among them.
ClearLine(e, t) ==
    /\ t \notin Begins
    /\ Says(e, Clear(t))
    /\ UNCHANGED inKey
    /\ Read(e, Clear(t))

SecretLine(e, t, b) ==
    /\ t \notin Begins
    /\ Says(e, Secret(t))
    /\ UNCHANGED inKey
    /\ Read(e, [text |-> t, mark |-> b])

\* A key may end on the line it begins on.
BeginKey(e, t) ==
    /\ t \in Begins
    /\ Says(e, Key)
    /\ inKey' = [inKey EXCEPT ![e] = t \notin Ends]
    /\ Read(e, Clear(t))

\* A line of a key: its body, of any length, or its end.
KeyLine(e, t) ==
    /\ inKey[e]
    /\ inKey' = [inKey EXCEPT ![e] = t \notin Ends]
    /\ Read(e, Clear(t))
    /\ UNCHANGED <<said, utf8>>

Next ==
    \E e \in Export, t \in Text :
        \/ ClearLine(e, t)
        \/ \E b \in Blob : SecretLine(e, t, b)
        \/ BeginKey(e, t)
        \/ KeyLine(e, t)

Spec == Init /\ [][Next]_vars

----------------------------------------------------------------------------
(* Properties *)

\* Two exports that say the same have the same hash, however their secrets and
\* keys are encrypted: an unchanged configuration is found unchanged
\* (storage::save writes nothing then).
SameHash ==
    \A e, f \in Export : utf8[e] /\ utf8[f] /\ said[e] = said[f] => out[e] = out[f]

\* Two exports with the same hash say the same: no change outside the secrets and
\* the keys is taken for none.  (What follows " ENC " on a line, and what shares a
\* line with a marker of a key, counts as part of the secret.)
ChangeSeen ==
    \A e, f \in Export : utf8[e] /\ utf8[f] /\ out[e] = out[f] => said[e] = said[f]
=============================================================================
