-------------------------------- MODULE Json --------------------------------
(***************************************************************************)
(* The field scanner of internal/vectorize/fast.go.  A body is a sequence  *)
(* of JSON tokens.  The scanner is no parser: it looks for the first token *)
(* that is the quoted key, whatever encloses it, and for the next colon.   *)
(* White space and escapes are left out, and so are braces in strings.     *)
(***************************************************************************)
EXTENDS Naturals, Sequences, FiniteSets

Punct(c) == [kind |-> "punct", s |-> c, n |-> 0]
Str(s) == [kind |-> "string", s |-> s, n |-> 0]
Time(minutes) == [kind |-> "string", s |-> "RFC3339", n |-> minutes]
Num(n) == [kind |-> "number", s |-> "digits", n |-> n]
Lit(s) == [kind |-> "literal", s |-> s, n |-> 0]
Bool(b) == Lit(IF b THEN "true" ELSE "false")

Tokens == [kind : {"punct", "string", "number", "literal"}, s : STRING, n : Nat]

\* { } [ ] , and :
OpenBrace == Punct("open brace")
CloseBrace == Punct("close brace")
OpenBracket == Punct("open bracket")
CloseBracket == Punct("close bracket")
Comma == Punct("comma")
Colon == Punct("colon")

NotFound == [ok |-> FALSE, raw |-> <<>>]
Found(raw) == [ok |-> TRUE, raw |-> raw]

First(S) == CHOOSE i \in S : \A j \in S : i <= j

Depth(b, open, close, k) ==
  Cardinality({i \in 1..k : b[i] = open}) - Cardinality({i \in 1..k : b[i] = close})

\* The value up to the bracket that closes the first one.
Balanced(b, open, close) ==
  LET ends == {k \in 1..Len(b) : b[k] = close /\ Depth(b, open, close, k) = 0}
  IN  IF ends = {} THEN NotFound ELSE Found(SubSeq(b, 1, First(ends)))

objectFromValue(b) ==
  IF b = <<>> \/ b[1] # OpenBrace THEN NotFound ELSE Balanced(b, OpenBrace, CloseBrace)

arrayFromValue(b) == Balanced(b, OpenBracket, CloseBracket)

ScalarToComma(b) ==                               \* mutant: } and ] do not end it
  LET stops == {k \in 1..Len(b) : b[k] = Comma}
  IN  Found(IF stops = {} THEN b ELSE SubSeq(b, 1, First(stops) - 1))

\* A number or a literal ends before the next of these, or with the body.
scalarFromValue(b) ==
  LET stops == {k \in 1..Len(b) : b[k] \in {Comma, CloseBrace, CloseBracket}}
  IN  Found(IF stops = {} THEN b ELSE SubSeq(b, 1, First(stops) - 1))

\* The switch on the value's first token.
valueFrom(b) ==
  CASE b[1].kind = "string"   -> Found(<<b[1]>>)
    [] b[1] = OpenBrace       -> objectFromValue(b)
    [] b[1] = OpenBracket     -> arrayFromValue(b)
    [] OTHER                  -> scalarFromValue(b)

\* The value after the first occurrence of the key and the colon next to come.
rawField(b, key) ==
  LET keys == {i \in 1..Len(b) : b[i] = Str(key)}
      colons == {i \in 1..Len(b) : b[i] = Colon /\ i > First(keys)}
      value == SubSeq(b, First(colons) + 1, Len(b))
  IN  IF keys = {} \/ colons = {} \/ value = <<>> THEN NotFound ELSE valueFrom(value)

objectField(b, key) ==
  LET raw == rawField(b, key) IN IF raw.ok THEN objectFromValue(raw.raw) ELSE NotFound

\* stringField, floatField, intField, boolField: one token of that kind.
IsA(field, kind) == field.ok /\ Len(field.raw) = 1 /\ field.raw[1].kind = kind

IsString(field) == IsA(field, "string")
IsNumber(field) == IsA(field, "number")
IsBool(field) == IsA(field, "literal") /\ field.raw[1].s \in {"true", "false"}

\* parseRFC3339Z.
IsTime(field) == IsString(field) /\ field.raw[1].s = "RFC3339"

\* containsQuoted: some quoted string of the array is the target.
containsQuoted(array, target) == \E i \in 1..Len(array) : array[i] = target
=============================================================================
