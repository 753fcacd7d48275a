----------------------------- MODULE StrictJson -----------------------------
(***************************************************************************)
(* check_no_duplicate_keys, which scans a document for repeated object     *)
(* keys before serde_json parses it, fed with the tokens of documents that *)
(* serde_json accepts, next to a record of what each token means.          *)
(*                                                                         *)
(* A string is spelled plainly or with an escape.  The scanner takes the   *)
(* character after a backslash for itself; serde_json decodes it.          *)
(***************************************************************************)
EXTENDS SequencesExt

CONSTANTS Letters, MaxTokens, MaxDepth

VARIABLES
  stack,   \* the scanner's Ctx stack
  found,   \* what it returned: "none" while it goes on
  doc,     \* what the document means so far: its open values, outermost first
  dup,     \* has an object of it two equal keys?
  plain,   \* are all its strings spelled plainly?
  tokens   \* how many tokens there were

jsonVars == <<stack, found, doc, dup, plain, tokens>>

Spellings == [letter: Letters, escaped: BOOLEAN]

parse_string(s) == s.letter

\* serde_json: an escape stands for another character.
Decoded(s) == <<s.letter, s.escaped>>

JsonInit ==
  /\ stack = <<>> /\ found = "none"
  /\ doc = <<[kind |-> "root", at |-> "value", keys |-> {}]>>
  /\ dup = FALSE /\ plain = TRUE /\ tokens = 0

(***************************************************************************)
(* The document: where in the grammar it is.                               *)
(***************************************************************************)
Replaced(s, e) == Append(Front(s), e)

ValueExpected == Last(doc).at = "value" \/ (Last(doc).kind = "array" /\ Last(doc).at = "first")

KeyExpected == Last(doc).kind = "object" /\ Last(doc).at \in {"first", "key"}

\* The innermost open value has got a member.
Filled == Replaced(doc, [Last(doc) EXCEPT !.at = "next"])

Closes(kind) == Last(doc).kind = kind /\ Last(doc).at \in {"first", "next"}

\* The scan goes on with another token.
Token == found = "none" /\ tokens < MaxTokens /\ tokens' = tokens + 1

(***************************************************************************)
(* The scanner, one arm of its match each.                                 *)
(***************************************************************************)
Open(kind) ==
  /\ Token /\ ValueExpected /\ Len(doc) <= MaxDepth
  /\ doc' = Append(Filled, [kind |-> kind, at |-> "first", keys |-> {}])
  /\ stack' = Append(stack, [kind |-> kind, seen |-> {}, expect_key |-> kind = "object"])
  /\ UNCHANGED <<found, dup, plain>>

Close(kind) ==
  /\ Token /\ Closes(kind)
  /\ doc' = Front(doc)
  /\ IF stack # <<>> /\ Last(stack).kind = kind
     THEN stack' = Front(stack) /\ UNCHANGED found
     ELSE found' = "malformed" /\ UNCHANGED stack
  /\ UNCHANGED <<dup, plain>>

Comma ==
  /\ Token /\ Last(doc).kind # "root" /\ Last(doc).at = "next"
  /\ doc' = Replaced(doc, [Last(doc) EXCEPT !.at = IF Last(doc).kind = "object"
                                                   THEN "key" ELSE "value"])
  /\ stack' = IF stack # <<>> /\ Last(stack).kind = "object"
              THEN Replaced(stack, [Last(stack) EXCEPT !.expect_key = TRUE])
              ELSE stack
  /\ UNCHANGED <<found, dup, plain>>

Colon ==
  /\ Token /\ Last(doc).at = "colon"
  /\ doc' = Replaced(doc, [Last(doc) EXCEPT !.at = "value"])
  /\ UNCHANGED <<stack, found, dup, plain>>

\* Mutant: any string of an object is taken for a key.
InKeyPositionAlways == stack # <<>> /\ Last(stack).kind = "object"

InKeyPosition == stack # <<>> /\ Last(stack).kind = "object" /\ Last(stack).expect_key

\* What the scanner does with a string literal.
ScanString(s) ==
  IF InKeyPosition
  THEN IF parse_string(s) \in Last(stack).seen
       THEN found' = "duplicate" /\ UNCHANGED stack
       ELSE /\ stack' = Replaced(stack, [Last(stack) EXCEPT !.seen = @ \cup {parse_string(s)},
                                                            !.expect_key = FALSE])
            /\ UNCHANGED found
  ELSE UNCHANGED <<stack, found>>

Key(s) ==
  /\ Token /\ KeyExpected
  /\ doc' = Replaced(doc, [Last(doc) EXCEPT !.at = "colon", !.keys = @ \cup {Decoded(s)}])
  /\ dup' = (dup \/ Decoded(s) \in Last(doc).keys)
  /\ plain' = (plain /\ ~s.escaped)
  /\ ScanString(s)

String(s) ==
  /\ Token /\ ValueExpected
  /\ doc' = Filled
  /\ plain' = (plain /\ ~s.escaped)
  /\ ScanString(s)
  /\ UNCHANGED dup

\* A number, true, false or null.
Scalar ==
  /\ Token /\ ValueExpected
  /\ doc' = Filled
  /\ UNCHANGED <<stack, found, dup, plain>>

JsonNext ==
  \/ \E kind \in {"object", "array"} : Open(kind) \/ Close(kind)
  \/ Comma \/ Colon \/ Scalar
  \/ \E s \in Spellings : Key(s) \/ String(s)

\* The end of the text, where the scanner demands that everything is closed.
Complete == Len(doc) = 1 /\ Last(doc).at = "next"

Rejects == found # "none" \/ (Complete /\ stack # <<>>)

-----------------------------------------------------------------------------
\* The scanner refuses a document that is spelled plainly exactly when an
\* object of it has two equal keys, at whatever depth and whatever stands
\* between them, and no document because of its shape.  (Whether a string is a
\* key, which check_no_duplicate_keys tells from expect_key alone.)
DuplicatesFound ==
  /\ found # "malformed"
  /\ plain => (Rejects <=> dup)
=============================================================================
