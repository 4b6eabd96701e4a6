------------------------------- MODULE Tokens -------------------------------
(***************************************************************************)
(* How the NLI backend turns a premise and a hypothesis into token IDs     *)
(* (jevbert/backends/nli.py): reserved strings in the caller's text are    *)
(* disarmed, both sides are tokenized, [bos] p [eos, eos] h [eos] is       *)
(* assembled, and a control token in any other place sends the pair        *)
(* through a stronger escape, or fails it.                                 *)
(*                                                                         *)
(* A text is a sequence of pieces: a character the escape has to tell      *)
(* apart, or a word of Width characters that the tokenizer makes one token *)
(* of. The token of a piece is the piece; a control token is its name.     *)
(***************************************************************************)
EXTENDS Integers, SequencesExt

CONSTANTS
  Width,     \* pieces of more than one character, with their length
  Fold,      \* what the normalizer writes for a piece, where it changes it
  Joint,     \* what it writes for two neighbours it folds together
  Spelling,  \* the special tokens and the pieces that spell them
  Unk        \* the one of them that is no control token

\* all_special_ids without unk_token_id, and the two the assembly inserts.
Control == DOMAIN Spelling \ {Unk}
Bos == "bos"
Eos == "eos"

Angle == "<"
Space == " "

IsSequence(s) == Len(s) \in Nat /\ s = [i \in 1..Len(s) |-> s[i]]

\* reserved_strings_for() lets no other checkpoint load: no tail of a spelling begins one, and
\* none begins with an angle and a space. The name of a token is no piece of a text.
ASSUME SpellingAssumption ==
  /\ {Bos, Eos} \subseteq Control
  /\ {Angle, Space} \cap DOMAIN Spelling = {}
  /\ \A s \in DOMAIN Spelling :
       /\ IsSequence(Spelling[s]) /\ Len(Spelling[s]) > 1 /\ Spelling[s][2] # Space
       /\ \A i \in DOMAIN Spelling[s] : Spelling[s][i] = Angle <=> i = 1

\* What escape_reserved() takes the normalizer for: it leaves what it wrote, and the inserted
\* space, as they are; a piece that becomes an angle becomes nothing else (L08 of
\* compat/differences.md: measured, three characters do). Two pieces it has already written,
\* as escape_every_angle() hands them back, do not become an angle.
ASSUME FoldingAssumption ==
  /\ {Space, Angle} \cap DOMAIN Fold = {}
  /\ \A piece \in DOMAIN Fold :
       /\ IsSequence(Fold[piece]) /\ ToSet(Fold[piece]) \cap DOMAIN Fold = {}
       /\ ToSet(Fold[piece]) \cap DOMAIN Spelling = {}
       /\ Angle \in ToSet(Fold[piece]) => Fold[piece] = <<Angle>>
  /\ \A both \in DOMAIN Joint :
       /\ IsSequence(Joint[both]) /\ ToSet(Joint[both]) \cap DOMAIN Fold = {}
       /\ ToSet(Joint[both]) \cap DOMAIN Spelling = {}
       /\ both[1] # Space /\ both[2] # Space
       /\ Angle \in ToSet(Joint[both]) => both[1] \in DOMAIN Fold \/ both[2] \in DOMAIN Fold

Chars(text) ==
  FoldLeft(LAMBDA n, p : n + (IF p \in DOMAIN Width THEN Width[p] ELSE 1), 0, text)

\* The tokenizer's own normalizer. Pairs of Joint do not overlap.
Together(text, i) == i \in 1..(Len(text) - 1) /\ <<text[i], text[i + 1]>> \in DOMAIN Joint
Folded(piece) == IF piece \in DOMAIN Fold THEN Fold[piece] ELSE <<piece>>
WrittenAt(text, i) ==
  IF Together(text, i) THEN Joint[<<text[i], text[i + 1]>>]
  ELSE IF Together(text, i - 1) THEN <<>>
  ELSE Folded(text[i])
Normalize(text) == FlattenSeq([i \in DOMAIN text |-> WrittenAt(text, i)])

\* The special tokens that the pieces of a normalized text spell from the i-th on.
Spelled(pieces, i) ==
  {s \in DOMAIN Spelling : IsPrefix(Spelling[s], SubSeq(pieces, i, Len(pieces)))}

\* The tokenizer reads special tokens out of the normalized text; spaces only separate.
Covered(pieces, i) ==
  \E j \in 1..(i - 1) : \E s \in Spelled(pieces, j) : i < j + Len(Spelling[s])
TokenAt(pieces, i) ==
  IF Covered(pieces, i) \/ pieces[i] = Space THEN <<>>
  ELSE IF Spelled(pieces, i) # {} THEN <<CHOOSE s \in Spelled(pieces, i) : TRUE>>
  ELSE <<pieces[i]>>
Tokenize(text) ==
  LET pieces == Normalize(text)
  IN FlattenSeq([i \in DOMAIN pieces |-> TokenAt(pieces, i)])

-----------------------------------------------------------------------------
Spaced(text, behind) ==
  FlattenSeq([i \in DOMAIN text |-> IF text[i] \in behind THEN <<text[i], Space>>
                                    ELSE <<text[i]>>])

\* An ordinary "<" is left alone; otherwise every piece that folds into one is spaced.
SpellsNothing(pieces) == \A i \in DOMAIN pieces : Spelled(pieces, i) = {}
EscapeReserved(text) ==
  IF SpellsNothing(Normalize(text)) THEN text
  ELSE Spaced(text, {piece \in ToSet(text) : Angle \in ToSet(Normalize(<<piece>>))})

\* The fallback edits what the normalizer wrote.
EscapeEveryAngle(text) ==
  IF Angle \notin ToSet(Normalize(text)) THEN text ELSE Spaced(Normalize(text), {Angle})

Assemble(premise, hypothesis) ==
  <<Bos>> \o premise \o <<Eos, Eos>> \o hypothesis \o <<Eos>>

\* misplaced_control_token() is not None.
Misplaced(ids, premise) ==
  \/ Len(ids) < premise + 4
  \/ \E i \in DOMAIN ids :
       IF i = 1 THEN ids[i] # Bos
       ELSE IF i \in {premise + 2, premise + 3, Len(ids)} THEN ids[i] # Eos
       ELSE ids[i] \in Control

\* What a pair that cannot be encoded gives: the ValueError that ends in a 500.
NotEncoded == <<>>

Reencode(pair) ==
  LET premise == Tokenize(EscapeEveryAngle(pair.premise))
      ids == Assemble(premise, Tokenize(EscapeEveryAngle(pair.hypothesis)))
  IN IF Misplaced(ids, Len(premise)) THEN NotEncoded ELSE ids

\* count_and_encode() for one pair; that equal premises share their tokens changes nothing.
NoSecondTry(pair) ==    \* mutant: scored as it is
  Assemble(Tokenize(EscapeReserved(pair.premise)), Tokenize(EscapeReserved(pair.hypothesis)))
Encode(pair) ==
  LET premise == Tokenize(EscapeReserved(pair.premise))
      ids == Assemble(premise, Tokenize(EscapeReserved(pair.hypothesis)))
  IN IF Misplaced(ids, Len(premise)) THEN Reencode(pair) ELSE ids

-----------------------------------------------------------------------------
\* What the caller wrote, as the tokenizer sees it, with the spaces left out.
Data(text) ==
  LET pieces == Normalize(text)
  IN FlattenSeq([i \in DOMAIN pieces |-> IF pieces[i] = Space THEN <<>> ELSE <<pieces[i]>>])

\* Two neighbours of the text, or of what the normalizer makes of it, are folded together: a
\* space between them changes what is written.
Composed(text) ==
  \/ \E i \in DOMAIN text : Together(text, i)
  \/ \E i \in DOMAIN Normalize(text) : Together(Normalize(text), i)

(* These are the tokens of the text: no control token, and the caller's own pieces, none
   lost, none added, none taken for a special token. Which pieces these are is left open
   where the text has both an angle and neighbours that are folded together. *)
Reads(ids, text) ==
  /\ ToSet(ids) \cap Control = {}
  /\ ~(Composed(text) /\ Angle \in ToSet(Normalize(text))) => ids = Data(text)
=============================================================================
