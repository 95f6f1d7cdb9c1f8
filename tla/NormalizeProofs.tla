-------------------------- MODULE NormalizeProofs --------------------------
(* for_hash outputs what the export says with its secrets and keys blank,   *)
(* for every set of lines and markers and for exports of every length.      *)
EXTENDS Normalize, TLAPS

\* The reader knows when it is inside a key, and its output is what was said.
Follows(e) == utf8[e] => inPem[e] = inKey[e] /\ out[e] = said[e]

Inv == TypeOK /\ \A e \in Export : Follows(e)

----------------------------------------------------------------------------

LEMMA ClearTyped ==
  ASSUME NEW t \in Text
  PROVE  Clear(t) \in Unit /\ Clear(t) \in Line /\ Clear(t).text = t /\ Clear(t).mark = None
  BY DEF Clear, Unit, Line

\* A line adds at most one line to the output, which has none that cannot be.
LEMMA EmitTyped ==
  ASSUME NEW e \in Export, NEW line \in Line
  PROVE  Emit(e, line) \in Seq(Unit)
  <1>1. Key \in Unit /\ Secret(line.text) \in Unit
    BY DEF Unit, Line
  <1>2. ASSUME line.mark = None PROVE line \in Unit
    <2>1. line = Clear(line.text) /\ line.text \in Text
      BY <1>2 DEF Clear, Line
    <2>2. QED
      BY <2>1 DEF Unit
  <1>3. QED
    BY <1>1, <1>2 DEF Emit

LEMMA ReadTyped ==
  ASSUME TypeOK, NEW e \in Export, NEW line \in Line, Read(e, line), utf8' = utf8
  PROVE  /\ inPem' \in [Export -> BOOLEAN] /\ out' \in [Export -> Seq(OutLine)]
         /\ \A f \in Export : utf8'[f] => out'[f] \in Seq(Unit)
  <1>1. CASE utf8[e]
    <2>1. StaysInPem(e, line) \in BOOLEAN
      BY DEF StaysInPem, TypeOK
    <2>2. out[e] \o Emit(e, line) \in Seq(Unit)
      BY <1>1, EmitTyped DEF TypeOK
    <2>3. \A s \in Seq(Unit) : s \in Seq(OutLine)
      BY DEF OutLine
    <2>4. out[e] \o Emit(e, line) \in Seq(OutLine)
      BY <2>2, <2>3
    <2>5. QED
      BY <1>1, <2>1, <2>2, <2>4 DEF Read, TypeOK
  <1>2. CASE ~utf8[e]
    <2>1. Append(out[e], line) \in Seq(OutLine)
      BY DEF TypeOK, OutLine
    <2>2. QED
      BY <1>2, <2>1 DEF Read, TypeOK
  <1>3. QED
    BY <1>1, <1>2

LEMMA SaysTyped ==
  ASSUME TypeOK, NEW e \in Export, NEW u \in Unit, Says(e, u)
  PROVE  said' \in [Export -> Seq(Unit)] /\ utf8' = utf8
  <1>1. Append(said[e], u) \in Seq(Unit)
    BY DEF TypeOK
  <1>2. QED
    BY <1>1 DEF Says, TypeOK

LEMMA NextTyped ==
  ASSUME TypeOK, [Next]_vars
  PROVE  TypeOK'
  <1>1. CASE UNCHANGED vars
    BY <1>1 DEF TypeOK, vars
  <1>2. ASSUME NEW e \in Export, NEW t \in Text, ClearLine(e, t)
        PROVE  TypeOK'
    BY <1>2, ClearTyped, SaysTyped, ReadTyped DEF ClearLine, TypeOK
  <1>3. ASSUME NEW e \in Export, NEW t \in Text, NEW b \in Blob, SecretLine(e, t, b)
        PROVE  TypeOK'
    <2>1. [text |-> t, mark |-> b] \in Line /\ Secret(t) \in Unit
      BY DEF Line, Unit
    <2>2. QED
      BY <1>3, <2>1, SaysTyped, ReadTyped DEF SecretLine, TypeOK
  <1>4. ASSUME NEW e \in Export, NEW t \in Text, BeginKey(e, t)
        PROVE  TypeOK'
    <2>1. Key \in Unit
      BY DEF Unit
    <2>2. inKey' \in [Export -> BOOLEAN]
      BY <1>4 DEF BeginKey, TypeOK
    <2>3. QED
      BY <1>4, <2>1, <2>2, ClearTyped, SaysTyped, ReadTyped DEF BeginKey, TypeOK
  <1>5. ASSUME NEW e \in Export, NEW t \in Text, KeyLine(e, t)
        PROVE  TypeOK'
    <2>1. inKey' \in [Export -> BOOLEAN]
      BY <1>5 DEF KeyLine, TypeOK
    <2>2. QED
      BY <1>5, <2>1, ClearTyped, ReadTyped DEF KeyLine, TypeOK
  <1>6. QED
    BY <1>1, <1>2, <1>3, <1>4, <1>5 DEF Next

----------------------------------------------------------------------------

\* What an export says next outside a key is what the reader outputs.
LEMMA SaidIsRead ==
  ASSUME TypeOK, NEW e \in Export, Follows(e), utf8[e], NEW u \in Unit, NEW line \in Line,
         Says(e, u), Read(e, line), Emit(e, line) = <<u>>
  PROVE  out'[e] = said'[e]
  <1>1. out'[e] = out[e] \o <<u>>
    BY DEF Read, TypeOK
  <1>2. said'[e] = Append(said[e], u)
    BY DEF Says, TypeOK
  <1>3. out[e] = said[e] /\ said[e] \in Seq(Unit)
    BY DEF Follows, TypeOK
  <1>4. QED
    BY <1>1, <1>2, <1>3

\* The export that goes on is followed ...
LEMMA NextFollows ==
  ASSUME Inv, NEW e \in Export, NEW t \in Text,
         \/ ClearLine(e, t)
         \/ \E b \in Blob : SecretLine(e, t, b)
         \/ BeginKey(e, t)
         \/ KeyLine(e, t)
  PROVE  Follows(e)'
  <1> SUFFICES ASSUME utf8'[e]
               PROVE  inPem'[e] = inKey'[e] /\ out'[e] = said'[e]
    BY DEF Follows
  <1>1. utf8[e] /\ TypeOK /\ Follows(e) /\ inPem[e] = inKey[e]
    <2>1. utf8' = utf8
      BY DEF ClearLine, SecretLine, BeginKey, KeyLine, Says
    <2>2. QED
      BY <2>1 DEF Inv, Follows
  <1>2. CASE ClearLine(e, t)
    <2>1. ~inPem[e] /\ Clear(t).text = t /\ t \notin Begins /\ inKey' = inKey
      BY <1>1, <1>2, ClearTyped DEF ClearLine, Says
    <2>2. inPem'[e] = FALSE
      BY <1>1, <1>2, <2>1 DEF ClearLine, Read, StaysInPem, LineStartsPem, TypeOK
    <2>3. Emit(e, Clear(t)) = <<Clear(t)>>
      BY <2>1, ClearTyped DEF Emit, LineStartsPem
    <2>4. out'[e] = said'[e]
      BY <1>1, <1>2, <2>3, ClearTyped, SaidIsRead DEF ClearLine
    <2>5. inKey'[e] = FALSE
      BY <1>1, <2>1 DEF TypeOK
    <2>6. QED
      BY <2>2, <2>4, <2>5
  <1>3. ASSUME NEW b \in Blob, SecretLine(e, t, b)
        PROVE  inPem'[e] = inKey'[e] /\ out'[e] = said'[e]
    <2> DEFINE line == [text |-> t, mark |-> b]
    <2>1. ~inPem[e] /\ t \notin Begins /\ inKey' = inKey /\ Says(e, Secret(t)) /\ Read(e, line)
      BY <1>1, <1>3 DEF SecretLine, Says
    <2>2. line \in Line /\ line.text = t /\ line.mark # None
      BY TextAssumption DEF Line
    <2>3. Secret(t) \in Unit
      BY DEF Unit
    <2> HIDE DEF line
    <2>4. inPem'[e] = FALSE
      BY <1>1, <2>1, <2>2 DEF Read, StaysInPem, LineStartsPem, TypeOK
    <2>5. Emit(e, line) = <<Secret(t)>>
      BY <2>1, <2>2 DEF Emit, LineStartsPem
    <2>6. out'[e] = said'[e]
      BY <1>1, <2>1, <2>2, <2>3, <2>5, SaidIsRead
    <2>7. inKey'[e] = FALSE
      BY <1>1, <2>1 DEF TypeOK
    <2>8. QED
      BY <2>4, <2>6, <2>7
  <1>4. CASE BeginKey(e, t)
    <2>1. ~inPem[e] /\ Clear(t).text = t /\ t \in Begins /\ Key \in Unit
      BY <1>1, <1>4, ClearTyped DEF BeginKey, Says, Unit
    <2>2. inPem'[e] = (t \notin Ends) /\ inKey'[e] = (t \notin Ends)
      BY <1>1, <1>4, <2>1 DEF BeginKey, Read, StaysInPem, LineStartsPem, HasEnd, TypeOK
    <2>3. Emit(e, Clear(t)) = <<Key>>
      BY <2>1 DEF Emit, LineStartsPem
    <2>4. out'[e] = said'[e]
      BY <1>1, <1>4, <2>1, <2>3, ClearTyped, SaidIsRead DEF BeginKey
    <2>5. QED
      BY <2>2, <2>4
  <1>5. CASE KeyLine(e, t)
    <2>1. inPem[e] /\ Clear(t).text = t /\ said' = said
      BY <1>1, <1>5, ClearTyped DEF KeyLine
    <2>2. inPem'[e] = (t \notin Ends) /\ inKey'[e] = (t \notin Ends)
      BY <1>1, <1>5, <2>1 DEF KeyLine, Read, StaysInPem, HasEnd, TypeOK
    <2>3. Emit(e, Clear(t)) = <<>>
      BY <2>1 DEF Emit
    <2>4. out'[e] = out[e] \o <<>>
      BY <1>1, <1>5, <2>3 DEF KeyLine, Read, TypeOK
    <2>5. out[e] = said[e] /\ out[e] \in Seq(OutLine)
      BY <1>1 DEF Follows, TypeOK
    <2>6. QED
      BY <2>1, <2>2, <2>4, <2>5
  <1>6. QED
    BY <1>2, <1>3, <1>4, <1>5

\* ... and nothing happens to the others.
LEMMA OthersFollow ==
  ASSUME Inv, NEW e \in Export, NEW f \in Export \ {e}, NEW t \in Text,
         \/ ClearLine(e, t)
         \/ \E b \in Blob : SecretLine(e, t, b)
         \/ BeginKey(e, t)
         \/ KeyLine(e, t)
  PROVE  Follows(f)'
  <1>1. TypeOK /\ Follows(f)
    BY DEF Inv
  <1>2. utf8' = utf8 /\ said'[f] = said[f] /\ inKey'[f] = inKey[f]
    BY <1>1 DEF ClearLine, SecretLine, BeginKey, KeyLine, Says, TypeOK
  <1>3. ASSUME NEW line, Read(e, line)
        PROVE  inPem'[f] = inPem[f] /\ out'[f] = out[f]
    BY <1>1, <1>3 DEF Read, TypeOK
  <1>4. inPem'[f] = inPem[f] /\ out'[f] = out[f]
    BY <1>3 DEF ClearLine, SecretLine, BeginKey, KeyLine
  <1>5. QED
    BY <1>1, <1>2, <1>4 DEF Follows

----------------------------------------------------------------------------

\* The reader is in step with the device in every export it reads.
THEOREM ReadsWhatIsSaid == Spec => []Inv
  <1>1. Init => Inv
    <2> SUFFICES ASSUME Init
                 PROVE  Inv
      OBVIOUS
    <2>1. <<>> \in Seq(Unit) /\ <<>> \in Seq(OutLine)
      OBVIOUS
    <2>2. QED
      BY <2>1 DEF Init, Inv, TypeOK, Follows
  <1>2. Inv /\ [Next]_vars => Inv'
    <2> SUFFICES ASSUME Inv, [Next]_vars
                 PROVE  Inv'
      OBVIOUS
    <2>1. TypeOK'
      BY NextTyped DEF Inv
    <2>2. CASE UNCHANGED vars
      BY <2>1, <2>2 DEF Inv, Follows, vars
    <2>3. CASE Next
      <3>1. PICK e \in Export, t \in Text :
               \/ ClearLine(e, t)
               \/ \E b \in Blob : SecretLine(e, t, b)
               \/ BeginKey(e, t)
               \/ KeyLine(e, t)
        BY <2>3 DEF Next
      <3>2. Follows(e)'
        BY <3>1, NextFollows
      <3>3. \A f \in Export \ {e} : Follows(f)'
        BY <3>1, OthersFollow
      <3>4. QED
        BY <2>1, <3>2, <3>3 DEF Inv
    <2>4. QED
      BY <2>2, <2>3
  <1>3. QED
    BY <1>1, <1>2, PTL DEF Spec

\* Exports, what is said of them, the keys and the results keep their types.
THEOREM NormalizeTyped == Spec => []TypeOK
  <1>1. Inv => TypeOK
    BY DEF Inv
  <1>2. QED
    BY <1>1, ReadsWhatIsSaid, PTL

\* An unchanged configuration is hashed as it was, however it is encrypted.
THEOREM UnchangedHashesAlike == Spec => []SameHash
  <1>1. Inv => SameHash
    BY DEF Inv, Follows, SameHash
  <1>2. QED
    BY <1>1, ReadsWhatIsSaid, PTL

\* A change outside the secrets and the keys changes the hash.
THEOREM ChangeIsSeen == Spec => []ChangeSeen
  <1>1. Inv => ChangeSeen
    BY DEF Inv, Follows, ChangeSeen
  <1>2. QED
    BY <1>1, ReadsWhatIsSaid, PTL
=============================================================================
