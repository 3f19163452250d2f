-------------------------------- MODULE Json --------------------------------
(***************************************************************************)
(* The JSON reader of src/json/json.cpp: Parse, which fills a fixed array  *)
(* of tokens in one pass, and the Json view that looks members up in it.   *)
(*                                                                         *)
(* The input is a sequence of lexemes, chosen one at a time while Parse    *)
(* runs over it; a position is the number of a lexeme.  Beside the parser  *)
(* a reference reader follows the grammar of JSON with a stack and records *)
(* every member of every container.  Inputs of any shape are tried up to   *)
(* MaxAny lexemes, beginnings of JSON documents up to MaxLen.              *)
(***************************************************************************)
EXTENDS Integers, Sequences, FiniteSets

CONSTANTS
  Strings,       \* the texts of string lexemes
  Capacity,      \* tokens.size()
  MaxAny,        \* bound: lexemes of an input of any shape
  MaxLen         \* bound: lexemes of the beginning of a JSON document

NoKey == "no key"   \* of an element of an array

ASSUME JsonAssumption ==
  /\ Strings \cap {"{", "}", "[", "]", ":", ",", "prim", NoKey} = {}
  /\ Capacity \in Nat /\ MaxAny \in Nat /\ MaxLen \in Nat

VARIABLES
  \* Parser; tokens are numbered from 1, and 0 stands for -1
  src,           \* the lexemes read, js[0..pos]
  tokens,        \* the tokens in use, of which toknext is the number
  toksuper,
  result,        \* "running", or how Parse ended: "Ok", "NoMemory", "Invalid", "Partial"
  \* the reference reader
  viable,        \* what was read begins a JSON document
  expect,        \* what may come next
  stack,         \* the open containers, each [kind, token]
  key,           \* the key read last in each open object
  count,         \* tokens the document has so far
  kinds,         \* the containers: token -> "Object" or "Array"
  members        \* [holder, key, value], in document order

parse     == <<tokens, toksuper, result>>
reference == <<viable, expect, stack, key, count, kinds, members>>
jsonVars  == <<src, parse, reference>>

JsonInit ==
  /\ src = <<>> /\ tokens = <<>> /\ toksuper = 0 /\ result = "running"
  /\ viable = TRUE /\ expect = "value" /\ stack = <<>> /\ key = <<>>
  /\ count = 0 /\ kinds = <<>> /\ members = <<>>

-----------------------------------------------------------------------------
(* Parse                                                                   *)

\* Alloc, and the fields every kind of token gets.
Token(type, end) ==
  [type |-> type, start |-> Len(src) + 1, end |-> end, size |-> 0, parent |-> toksuper]

Full == Len(tokens) >= Capacity

\* The token array with one more child for toksuper.
Counted ==
  [i \in 1..Len(tokens) |->
     IF i = toksuper THEN [tokens[i] EXCEPT !.size = @ + 1] ELSE tokens[i]]

Fails(code) == result' = code /\ UNCHANGED <<tokens, toksuper>>

ParseOpen(type) ==
  \/ Full /\ Fails("NoMemory")
  \/ /\ ~Full
     /\ tokens' = Append(Counted, Token(type, 0))
     /\ toksuper' = Len(tokens) + 1
     /\ UNCHANGED result

\* The container that a closing bracket closes: the newest one still open.
Unclosed(i) == tokens[i].end = 0
Innermost(i) == Unclosed(i) /\ \A j \in (i + 1)..Len(tokens) : ~Unclosed(j)

ParseClose(type) ==
  \/ (~\E i \in 1..Len(tokens) : Unclosed(i)) /\ Fails("Invalid")
  \/ \E i \in 1..Len(tokens) :
       /\ Innermost(i)
       /\ \/ tokens[i].type # type /\ Fails("Invalid")
          \/ /\ tokens[i].type = type
             /\ tokens' = [tokens EXCEPT ![i].end = Len(src) + 2]
             /\ toksuper' = tokens[i].parent
             /\ UNCHANGED result

\* Mutant of ParseScalar: a full array is noticed one token late.
ParseScalarInclusive(type) ==
  \/ Len(tokens) > Capacity /\ Fails("NoMemory")
  \/ /\ Len(tokens) <= Capacity
     /\ tokens' = Append(Counted, Token(type, Len(src) + 2))
     /\ UNCHANGED <<toksuper, result>>

\* ParseString and ParsePrimitive when the lexeme is in order.
ParseScalar(type) ==
  \/ Full /\ Fails("NoMemory")
  \/ /\ ~Full
     /\ tokens' = Append(Counted, Token(type, Len(src) + 2))
     /\ UNCHANGED <<toksuper, result>>

\* The next value belongs to the last token.
ParseColon == toksuper' = Len(tokens) /\ UNCHANGED <<tokens, result>>

\* Mutant of ParseComma: the key stays the holder.
ParseCommaKeeps == UNCHANGED parse

\* Back up from a key to its object.
ParseComma ==
  /\ toksuper' = IF toksuper # 0 /\ tokens[toksuper].type \notin {"Array", "Object"}
                   THEN tokens[toksuper].parent
                   ELSE toksuper
  /\ UNCHANGED <<tokens, result>>

ParseLexeme(x) ==
  CASE x = "{" -> ParseOpen("Object")
    [] x = "[" -> ParseOpen("Array")
    [] x = "}" -> ParseClose("Object")
    [] x = "]" -> ParseClose("Array")
    [] x = ":" -> ParseColon
    [] x = "," -> ParseComma
    [] x = "prim" -> ParseScalar("Primitive")
    [] OTHER -> ParseScalar("String")

\* Mutant of Outcome: truncation is not looked for.
OutcomeOk == IF tokens = <<>> THEN "Invalid" ELSE "Ok"

\* The end of the input: a container still open means that it was truncated.
\* ParseToView refuses a document of no tokens.
Outcome ==
  IF \E i \in 1..Len(tokens) : Unclosed(i) THEN "Partial"
    ELSE IF tokens = <<>> THEN "Invalid" ELSE "Ok"

-----------------------------------------------------------------------------
(* The Json view                                                           *)

\* raw() of a string token.
Raw(i) == src[tokens[i].start]

\* The first element of a set of token numbers; 0 is the invalid view.
First(S) == IF S = {} THEN 0 ELSE CHOOSE i \in S : \A j \in S : i <= j

\* operator[](key): the token behind the first key of that name; an index
\* behind the last token is an invalid view.
MemberOf(obj, name) ==
  LET hit == First({i \in (obj + 1)..Len(tokens) :
                      tokens[i].parent = obj /\ tokens[i].type = "String" /\ Raw(i) = name})
  IN  IF tokens[obj].type # "Object" \/ hit = 0 \/ hit = Len(tokens) THEN 0 ELSE hit + 1

\* operator[](i): the child with i children before it.
ElementOf(arr, n) ==
  IF tokens[arr].type # "Array" THEN 0
    ELSE First({i \in (arr + 1)..Len(tokens) :
                  /\ tokens[i].parent = arr
                  /\ Cardinality({j \in (arr + 1)..(i - 1) : tokens[j].parent = arr}) = n})

SizeOf(i) == IF tokens[i].type \in {"Object", "Array"} THEN tokens[i].size ELSE 0

-----------------------------------------------------------------------------
(* The reference reader: the grammar of JSON                               *)

Top == stack[Len(stack)]

\* After a value: its container goes on, or the document is complete.
After(s) == IF s = <<>> THEN "end" ELSE "more"

\* A value begins: it is a member of the container on top of the stack.
Value(open) ==
  /\ count' = count + 1
  /\ members' = IF stack = <<>> THEN members
                ELSE Append(members, [holder |-> Top.token,
                                      key    |-> IF Top.kind = "Object" THEN key[Len(stack)] ELSE NoKey,
                                      value  |-> count + 1])
  /\ stack' = IF open = "none" THEN stack
              ELSE Append(stack, [kind |-> open, token |-> count + 1])
  /\ key' = IF open = "none" THEN key ELSE Append(key, NoKey)
  /\ kinds' = Append(kinds, open)
  /\ expect' = CASE open = "none"   -> After(stack)
                 [] open = "Object" -> "key or close"
                 [] open = "Array"  -> "value or close"

Legal(x) ==
  /\ viable
  /\ CASE x \in {"{", "[", "prim"} -> expect \in {"value", "value or close"}
       [] x \in Strings -> expect \in {"value", "value or close", "key", "key or close"}
       [] x = ":" -> expect = "colon"
       [] x = "," -> expect = "more"
       [] x = "}" -> stack # <<>> /\ Top.kind = "Object" /\ expect \in {"more", "key or close"}
       [] x = "]" -> stack # <<>> /\ Top.kind = "Array" /\ expect \in {"more", "value or close"}

Pop(s) == SubSeq(s, 1, Len(s) - 1)

Refer(x) ==
  /\ viable' = viable
  /\ \/ x = "{" /\ Value("Object")
     \/ x = "[" /\ Value("Array")
     \/ x = "prim" /\ Value("none")
     \/ /\ x \in Strings
        /\ IF expect \in {"value", "value or close"}
             THEN Value("none")
             ELSE /\ key' = [key EXCEPT ![Len(stack)] = x]
                  /\ count' = count + 1 /\ kinds' = Append(kinds, "none")
                  /\ expect' = "colon"
                  /\ UNCHANGED <<stack, members>>
     \/ /\ x \in {":", ","}
        /\ expect' = IF x = "," /\ Top.kind = "Object" THEN "key" ELSE "value"
        /\ UNCHANGED <<stack, key, count, kinds, members>>
     \/ /\ x \in {"}", "]"}
        /\ stack' = Pop(stack) /\ key' = Pop(key)
        /\ expect' = After(stack')
        /\ UNCHANGED <<count, kinds, members>>

-----------------------------------------------------------------------------

Lexemes == {"{", "}", "[", "]", ":", ",", "prim"} \cup Strings

\* The next lexeme is x, and the reference reader follows while it can.
Input(x) ==
  /\ result = "running"
  /\ \/ Legal(x) /\ Len(src) < MaxLen /\ Refer(x)
     \/ /\ ~Legal(x) /\ Len(src) < MaxAny
        /\ viable' = FALSE
        /\ UNCHANGED <<expect, stack, key, count, kinds, members>>
  /\ src' = Append(src, x)

\* One turn of Parse's loop; a primitive has its terminator behind it.
Turn(x) == Input(x) /\ ParseLexeme(x)

\* ParsePrimitive runs into the end of the input: the primitive is whole, and
\* has no terminator behind it.  It gets no token.
EndInPrimitive == Input("prim") /\ Fails("Partial")

\* A string or a primitive that is not in order, with an escape or a control
\* character that is not allowed, or a string that the input ends inside of:
\* the last is how a document may have been cut off.
Malformed ==
  /\ result = "running"
  /\ \E code \in {"Invalid", "Partial"} :
       /\ Fails(code)
       /\ viable' = (code = "Partial" /\ \E s \in Strings : Legal(s))
  /\ UNCHANGED <<src, expect, stack, key, count, kinds, members>>

End ==
  /\ result = "running"
  /\ result' = Outcome
  /\ UNCHANGED <<src, tokens, toksuper, reference>>

JsonNext == (\E x \in Lexemes : Turn(x)) \/ EndInPrimitive \/ Malformed \/ End

JsonSpec == JsonInit /\ [][JsonNext]_jsonVars

-----------------------------------------------------------------------------
(* Properties                                                              *)

Types == {"Object", "Array", "String", "Primitive"}

Complete == viable /\ expect = "end"

\* Type correctness, for inputs of any shape: the array is not overrun, every
\* index Parse and the view follow is that of a token in use, parents come
\* before their children, and size counts the children.
JsonTypeOK ==
  /\ Len(tokens) <= Capacity
  /\ toksuper \in 0..Len(tokens)
  /\ result \in {"running", "Ok", "NoMemory", "Invalid", "Partial"}
  /\ \A i \in 1..Len(tokens) :
       /\ tokens[i].type \in Types
       /\ tokens[i].start \in 1..Len(src)
       /\ tokens[i].end = 0 \/ tokens[i].end \in (tokens[i].start + 1)..(Len(src) + 1)
       /\ tokens[i].parent \in 0..(i - 1)
       /\ tokens[i].size = Cardinality({j \in 1..Len(tokens) : tokens[j].parent = i})

\* The verdict on a JSON document and on the beginning of one.  It is accepted
\* only when it is complete, with one token for every key and value; NoMemory
\* means that it has more of them than the array has tokens, and then it is
\* never accepted; only the empty input is Invalid; and Partial means that it
\* was cut off, or that it is one primitive with nothing behind it, which
\* ParsePrimitive refuses (PartialMeansCut below).
VerdictIsRight ==
  viable =>
    /\ result = "Invalid" => src = <<>>
    /\ result = "NoMemory" => count > Capacity
    /\ count > Capacity => result \in {"NoMemory", "Partial"}
    /\ result = "Ok" => Complete /\ Len(tokens) = count
    /\ result = "Partial" => ~Complete \/ src = <<"prim">>

\* Partial is for an input that ended in the middle of a value (json.hpp:23), so
\* a document that is complete is not Partial.  The code breaks this: the
\* document that is one primitive, such as 42, is complete and is Partial.
PartialMeansCut == (viable /\ result = "Partial") => ~Complete

\* The view answers as the document reads: the size of every container, the
\* first member of every name and the element at every index, wherever the
\* container is nested and whatever precedes it.
ReadsBack ==
  (Complete /\ result = "Ok") =>
    \A c \in 1..count :
      LET Held == {m \in 1..Len(members) : members[m].holder = c}
          Value1(S) == IF S = {} THEN 0 ELSE members[First(S)].value
      IN  kinds[c] # "none" =>
            /\ tokens[c].type = kinds[c]
            /\ SizeOf(c) = Cardinality(Held)
            /\ \A k \in Strings : MemberOf(c, k) = Value1({m \in Held : members[m].key = k})
            /\ \A n \in 0..Cardinality(Held) :
                 ElementOf(c, n) =
                   IF kinds[c] # "Array" THEN 0
                     ELSE Value1({m \in Held : Cardinality({j \in Held : j < m}) = n})

=============================================================================
