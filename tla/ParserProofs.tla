--------------------------- MODULE ParserProofs ----------------------------
(***************************************************************************)
(* Theorems about the two readers of text: Json, for every capacity,       *)
(* nesting and length of the input, and DemoCli, for every set of tokens,  *)
(* every length of the command line and any number of calls in a process.  *)
(***************************************************************************)
EXTENDS Json, DemoCli, FiniteSetTheorems, SequenceTheorems, WellFoundedInduction, TLAPS

-----------------------------------------------------------------------------
(* The invariant of Json                                                   *)

TokenSet == [type : Types, start : Nat, end : Nat, size : Nat, parent : Nat]

\* What the token array is, whatever the input.
Shape == tokens \in Seq(TokenSet) /\ src \in Seq(Lexemes) /\ JsonTypeOK

Kinds == {"none", "Object", "Array"}

\* The reference reader's state goes with the array.
Sizes ==
  /\ stack \in Seq([kind : {"Object", "Array"}, token : Nat])
  /\ key \in Seq(Strings \cup {NoKey}) /\ Len(key) = Len(stack)
  /\ kinds \in Seq(Kinds) /\ Len(kinds) = count /\ Len(tokens) = count
  /\ members \in Seq([holder : Nat, key : Strings \cup {NoKey}, value : Nat])

\* The open containers are those without an end, the innermost the newest.
Nesting ==
  /\ \A k \in 1..Len(stack) : stack[k].token \in 1..count /\ kinds[stack[k].token] = stack[k].kind
  /\ \A k, l \in 1..Len(stack) : k < l => stack[k].token < stack[l].token
  /\ \A i \in 1..count : tokens[i].end = 0 <=> \E k \in 1..Len(stack) : stack[k].token = i
  /\ \A i \in 1..count : IF kinds[i] = "none" THEN tokens[i].type \in {"String", "Primitive"}
                                              ELSE tokens[i].type = kinds[i]

\* The token that values in the k-th open container are children of: an array
\* itself, a key of an object.
Holder(k, q) ==
  IF k = 0 THEN q = 0
  ELSE IF stack[k].kind = "Array" THEN q = stack[k].token
  ELSE q \in 1..count /\ tokens[q].type = "String" /\ tokens[q].parent = stack[k].token

\* A key has been read and its value has not begun.
Waiting == stack # <<>> /\ Top.kind = "Object" /\ expect \in {"colon", "value"}

\* toksuper follows the grammar, and the parents of the open containers are
\* where it returns to.
Supers ==
  /\ \A k \in 1..Len(stack) : Holder(k - 1, tokens[stack[k].token].parent)
  /\ IF expect \in {"value", "more", "end"} THEN Holder(Len(stack), toksuper) ELSE toksuper = Top.token
  /\ Waiting => /\ count # 0 /\ tokens[count].type = "String" /\ tokens[count].parent = Top.token
                /\ Raw(count) = key[Len(stack)]
                /\ expect = "value" => toksuper = count

\* What may come next fits the innermost container.
Expected ==
  /\ expect \in {"value", "value or close", "key", "key or close", "colon", "more", "end"}
  /\ expect = "end" => stack = <<>> /\ count # 0
  /\ stack = <<>> => expect = "end" \/ (expect = "value" /\ src = <<>> /\ count = 0)
  /\ expect \in {"key", "key or close", "colon"} => stack # <<>> /\ Top.kind = "Object"
  /\ expect = "value or close" => stack # <<>> /\ Top.kind = "Array"

\* The member r is in the array: the value of an element is a child of its
\* array, that of a member comes behind its key, a child of the object.
Stored(r) ==
  /\ r.holder \in 1..count /\ r.value \in 1..count
  /\ \/ kinds[r.holder] = "Array" /\ r.key = NoKey /\ tokens[r.value].parent = r.holder
     \/ /\ kinds[r.holder] = "Object" /\ r.value - 1 \in 1..count
        /\ tokens[r.value - 1].parent = r.holder /\ Raw(r.value - 1) = r.key

\* The children of a container are its members and no others.
Listed ==
  /\ \A m \in 1..Len(members) : Stored(members[m])
  /\ \A m, l \in 1..Len(members) : m < l => members[m].value < members[l].value
  /\ \A j \in 1..count : tokens[j].parent # 0 =>
       /\ kinds[tokens[j].parent] = "Array" =>
            \E m \in 1..Len(members) : members[m].holder = tokens[j].parent /\ members[m].value = j
       /\ kinds[tokens[j].parent] = "Object" =>
            /\ tokens[j].type = "String"
            /\ \/ \E m \in 1..Len(members) :
                    members[m].holder = tokens[j].parent /\ members[m].value = j + 1
               \/ Waiting /\ j = count

Mirror == Sizes /\ Nesting /\ Supers /\ Expected /\ Listed

\* While what was read begins a document, the two readers agree.
Agree ==
  /\ viable \in BOOLEAN /\ count \in Nat
  /\ viable =>
       /\ result \in {"running", "Ok"} => Mirror
       /\ result = "Ok" => expect = "end"
       /\ result = "NoMemory" => count > Capacity
       /\ count > Capacity => result \in {"NoMemory", "Partial"}
       /\ result = "Invalid" => src = <<>>
       /\ result = "Partial" => expect # "end" \/ src = <<"prim">>

-----------------------------------------------------------------------------
(* The token array: Parse on any input                                     *)

\* A lexeme has been read.
Read(x) ==
  /\ src' \in Seq(Lexemes) /\ Len(src') = Len(src) + 1
  /\ \A i \in 1..Len(src) : src'[i] = src[i]
  /\ src'[Len(src) + 1] = x

\* The array has one more token, a child of toksuper.
Grown(type, end) ==
  /\ tokens' \in Seq(TokenSet) /\ Len(tokens') = Len(tokens) + 1
  /\ \A i \in 1..Len(tokens) :
       /\ tokens'[i].type = tokens[i].type /\ tokens'[i].start = tokens[i].start
       /\ tokens'[i].end = tokens[i].end /\ tokens'[i].parent = tokens[i].parent
       /\ tokens'[i].size = IF i = toksuper THEN tokens[i].size + 1 ELSE tokens[i].size
  /\ tokens'[Len(tokens) + 1].type = type /\ tokens'[Len(tokens) + 1].start = Len(src) + 1
  /\ tokens'[Len(tokens) + 1].end = end /\ tokens'[Len(tokens) + 1].parent = toksuper
  /\ tokens'[Len(tokens) + 1].size = 0

\* The c-th token has its end.
Ended(c) ==
  /\ tokens' \in Seq(TokenSet) /\ Len(tokens') = Len(tokens)
  /\ \A i \in 1..Len(tokens) :
       /\ tokens'[i].type = tokens[i].type /\ tokens'[i].start = tokens[i].start
       /\ tokens'[i].parent = tokens[i].parent /\ tokens'[i].size = tokens[i].size
       /\ tokens'[i].end = IF i = c THEN Len(src) + 2 ELSE tokens[i].end

LEMMA Reads ==
  ASSUME src \in Seq(Lexemes), NEW x \in Lexemes, src' = Append(src, x)
  PROVE  Read(x)
  BY DEF Read

LEMMA Grows ==
  ASSUME Shape, NEW type \in Types, NEW end \in Nat,
         tokens' = Append(Counted, Token(type, end))
  PROVE  Grown(type, end)
  <1> DEFINE n == Len(tokens)
             t == Token(type, end)
  <1>1. n \in Nat /\ toksuper \in Nat /\ Len(src) \in Nat
    BY DEF Shape, JsonTypeOK
  <1>2. /\ t \in TokenSet /\ t.type = type /\ t.start = Len(src) + 1 /\ t.end = end
        /\ t.parent = toksuper /\ t.size = 0
    BY <1>1 DEF Token, TokenSet
  <1>3. ASSUME NEW i \in 1..n
        PROVE  /\ Counted[i] \in TokenSet
               /\ Counted[i].type = tokens[i].type /\ Counted[i].start = tokens[i].start
               /\ Counted[i].end = tokens[i].end /\ Counted[i].parent = tokens[i].parent
               /\ Counted[i].size = IF i = toksuper THEN tokens[i].size + 1 ELSE tokens[i].size
    <2>1. tokens[i] \in TokenSet
      BY DEF Shape
    <2>2. Counted[i] = IF i = toksuper THEN [tokens[i] EXCEPT !.size = @ + 1] ELSE tokens[i]
      BY DEF Counted
    <2>3. CASE i = toksuper
      <3>1. tokens[i] = [type |-> tokens[i].type, start |-> tokens[i].start, end |-> tokens[i].end,
                         size |-> tokens[i].size, parent |-> tokens[i].parent]
        BY <2>1 DEF TokenSet
      <3>2. Counted[i] = [type |-> tokens[i].type, start |-> tokens[i].start, end |-> tokens[i].end,
                          size |-> tokens[i].size + 1, parent |-> tokens[i].parent]
        BY <2>2, <2>3, <3>1
      <3> QED  BY <2>1, <2>3, <3>2 DEF TokenSet
    <2> QED  BY <2>1, <2>2, <2>3
  <1>4. Counted \in Seq(TokenSet) /\ Len(Counted) = n
    <2>1. Counted = [i \in 1..n |-> Counted[i]]
      BY DEF Counted
    <2> HIDE DEF n
    <2> QED  BY <1>1, <1>3, <2>1
  <1> HIDE DEF t, n
  <1>5. /\ tokens' \in Seq(TokenSet) /\ Len(tokens') = n + 1 /\ tokens'[n + 1] = t
        /\ \A i \in 1..n : tokens'[i] = Counted[i]
    BY <1>1, <1>2, <1>4 DEF t
  <1> QED  BY <1>2, <1>3, <1>5 DEF Grown, n

LEMMA Ends ==
  ASSUME Shape, NEW c \in 1..Len(tokens), tokens' = [tokens EXCEPT ![c].end = Len(src) + 2]
  PROVE  Ended(c)
  <1>1. ASSUME NEW i \in 1..Len(tokens)
        PROVE  /\ tokens'[i] \in TokenSet
               /\ tokens'[i].type = tokens[i].type /\ tokens'[i].start = tokens[i].start
               /\ tokens'[i].parent = tokens[i].parent /\ tokens'[i].size = tokens[i].size
               /\ tokens'[i].end = IF i = c THEN Len(src) + 2 ELSE tokens[i].end
    <2>1. tokens[i] \in TokenSet /\ Len(src) \in Nat
      BY DEF Shape
    <2>2. tokens'[i] = IF i = c THEN [tokens[i] EXCEPT !.end = Len(src) + 2] ELSE tokens[i]
      <3>1. i \in DOMAIN tokens /\ c \in DOMAIN tokens
        BY DEF Shape
      <3> QED  BY <3>1
    <2> QED  BY <2>1, <2>2 DEF TokenSet
  <1>2. tokens' \in Seq(TokenSet) /\ Len(tokens') = Len(tokens)
    <2>1. DOMAIN tokens' = 1..Len(tokens) /\ Len(tokens) \in Nat
      BY DEF Shape
    <2>2. tokens' = [i \in 1..Len(tokens) |-> tokens'[i]]
      BY <2>1 DEF Shape
    <2>3. tokens' \in [1..Len(tokens) -> TokenSet]
      BY <1>1, <2>2
    <2> DEFINE n == Len(tokens)
    <2>4. n \in Nat /\ tokens' \in [1..n -> TokenSet]
      BY <2>1, <2>3
    <2> HIDE DEF n
    <2>5. tokens' \in Seq(TokenSet)
      BY ONLY <2>4, SeqDef, Zenon
    <2>6. Len(tokens') = n
      BY <2>4, <2>5
    <2> QED  BY <2>5, <2>6 DEF n
  <1> QED  BY <1>1, <1>2 DEF Ended

\* The tokens whose parent is the i-th.
Children(i) == {j \in 1..Len(tokens) : tokens[j].parent = i}

NewChildren(i) == {j \in 1..Len(tokens') : tokens'[j].parent = i}

Verdicts == {"running", "Ok", "NoMemory", "Invalid", "Partial"}

LEMMA CapacityNat ==
  Capacity \in Nat
  BY JsonAssumption, Zenon

LEMMA ShapeIs ==
  ASSUME Shape
  PROVE  /\ tokens \in Seq(TokenSet) /\ src \in Seq(Lexemes)
         /\ Len(tokens) \in Nat /\ Len(src) \in Nat /\ Capacity \in Nat
         /\ Len(tokens) <= Capacity
         /\ toksuper \in 0..Len(tokens) /\ toksuper \in Nat /\ result \in Verdicts
         /\ \A i \in 1..Len(tokens) :
              /\ tokens[i] \in TokenSet /\ tokens[i].type \in Types
              /\ tokens[i].start \in Nat /\ tokens[i].end \in Nat
              /\ tokens[i].size \in Nat /\ tokens[i].parent \in Nat
              /\ tokens[i].start \in 1..Len(src)
              /\ tokens[i].end = 0 \/ tokens[i].end \in (tokens[i].start + 1)..(Len(src) + 1)
              /\ tokens[i].parent \in 0..(i - 1)
              /\ tokens[i].size = Cardinality(Children(i))
  <1>1. /\ tokens \in Seq(TokenSet) /\ src \in Seq(Lexemes)
        /\ Len(tokens) \in Nat /\ Len(src) \in Nat /\ Capacity \in Nat
        /\ Len(tokens) <= Capacity
        /\ toksuper \in 0..Len(tokens) /\ toksuper \in Nat /\ result \in Verdicts
    <2>1. tokens \in Seq(TokenSet) /\ src \in Seq(Lexemes)
      BY DEF Shape
    <2>2. Len(tokens) \in Nat /\ Len(src) \in Nat /\ Capacity \in Nat
      BY <2>1, CapacityNat
    <2>3. Len(tokens) <= Capacity /\ toksuper \in 0..Len(tokens) /\ result \in Verdicts
      BY DEF Shape, JsonTypeOK, Verdicts
    <2> QED  BY <2>1, <2>2, <2>3
  <1>2. \A i \in 1..Len(tokens) :
          /\ tokens[i].type \in Types
          /\ tokens[i].start \in 1..Len(src)
          /\ tokens[i].end = 0 \/ tokens[i].end \in (tokens[i].start + 1)..(Len(src) + 1)
          /\ tokens[i].parent \in 0..(i - 1)
          /\ tokens[i].size = Cardinality(Children(i))
    BY DEF Shape, JsonTypeOK, Children
  <1>3. \A i \in 1..Len(tokens) : tokens[i] \in TokenSet
    BY <1>1
  <1>4. \A t \in TokenSet : t.start \in Nat /\ t.end \in Nat /\ t.size \in Nat /\ t.parent \in Nat
    BY DEF TokenSet
  <1> QED  BY <1>1, <1>2, <1>3, <1>4

LEMMA GrownChildren ==
  ASSUME Shape, NEW type, NEW end, Grown(type, end), NEW i \in 1..(Len(tokens) + 1)
  PROVE  Cardinality(NewChildren(i)) = IF i = Len(tokens) + 1 THEN 0
                                     ELSE IF i = toksuper THEN Cardinality(Children(i)) + 1
                                     ELSE Cardinality(Children(i))
  <1> DEFINE n == Len(tokens)
  <1>1. /\ n \in Nat /\ toksuper \in 0..n
        /\ \A j \in 1..n : tokens[j].parent \in 0..(j - 1)
    BY ShapeIs
  <1>2. /\ Len(tokens') = n + 1 /\ \A j \in 1..n : tokens'[j].parent = tokens[j].parent
        /\ tokens'[n + 1].parent = toksuper
    BY DEF Grown
  <1>3. NewChildren(i) = {j \in 1..(n + 1) : tokens'[j].parent = i}
    BY <1>2 DEF NewChildren
  <1>4. CASE i = n + 1
    <2>1. NewChildren(i) = {}
      BY <1>1, <1>2, <1>3, <1>4
    <2> QED  BY <1>4, <2>1, FS_EmptySet
  <1>5. CASE i # n + 1 /\ i = toksuper
    <2>0. Children(i) = {j \in 1..n : tokens[j].parent = i}
      BY DEF Children
    <2>1. NewChildren(i) = Children(i) \cup {n + 1} /\ n + 1 \notin Children(i)
      <3> HIDE DEF n
      <3> QED  BY <1>1, <1>2, <1>3, <1>5, <2>0
    <2>2. IsFiniteSet(1..n) /\ Children(i) \subseteq 1..n
      BY <1>1, FS_Interval DEF Children
    <2>3. IsFiniteSet(Children(i))
      BY <2>2, FS_Subset
    <2> QED  BY <1>5, <2>1, <2>3, FS_AddElement
  <1>6. CASE i # n + 1 /\ i # toksuper
    <2>1. NewChildren(i) = Children(i)
      BY <1>1, <1>2, <1>3, <1>6 DEF Children
    <2> QED  BY <1>6, <2>1
  <1> QED  BY <1>4, <1>5, <1>6

LEMMA ShapeGrown ==
  ASSUME Shape, ~Full, NEW x, Read(x), NEW type \in Types, NEW end \in {0, Len(src) + 2},
         Grown(type, end), toksuper' \in 0..(Len(tokens) + 1), result' \in Verdicts
  PROVE  Shape'
  <1> DEFINE n == Len(tokens)
             m == Len(src)
  <1>1. /\ n \in Nat /\ m \in Nat /\ Capacity \in Nat /\ n < Capacity /\ toksuper \in 0..n
        /\ Len(tokens') = n + 1 /\ Len(src') = m + 1
        /\ tokens' \in Seq(TokenSet) /\ src' \in Seq(Lexemes)
    BY ShapeIs DEF Full, Grown, Read
  <1>2. ASSUME NEW i \in 1..n
        PROVE  /\ tokens'[i].type \in Types
               /\ tokens'[i].start \in 1..(m + 1)
               /\ tokens'[i].end = 0 \/ tokens'[i].end \in (tokens'[i].start + 1)..(m + 2)
               /\ tokens'[i].parent \in 0..(i - 1)
               /\ tokens'[i].size = Cardinality(NewChildren(i))
    <2>1. /\ tokens[i].type \in Types /\ tokens[i].start \in 1..m
          /\ tokens[i].start \in Nat /\ tokens[i].end \in Nat
          /\ tokens[i].end = 0 \/ tokens[i].end \in (tokens[i].start + 1)..(m + 1)
          /\ tokens[i].parent \in 0..(i - 1)
          /\ tokens[i].size = Cardinality(Children(i))
      BY ShapeIs
    <2>2. /\ tokens'[i].type = tokens[i].type /\ tokens'[i].start = tokens[i].start
          /\ tokens'[i].end = tokens[i].end /\ tokens'[i].parent = tokens[i].parent
          /\ tokens'[i].size = IF i = toksuper THEN tokens[i].size + 1 ELSE tokens[i].size
      BY DEF Grown
    <2>3. tokens'[i].size = Cardinality(NewChildren(i))
      BY <1>1, <2>1, <2>2, GrownChildren
    <2> DEFINE a == tokens[i].start
               z == tokens[i].end
    <2>4. a \in 1..m /\ a \in Nat /\ z \in Nat /\ (z = 0 \/ z \in (a + 1)..(m + 1)) /\ m \in Nat
      BY <1>1, <2>1
    <2> HIDE DEF n, m, a, z
    <2>5. a \in 1..(m + 1) /\ (z = 0 \/ z \in (a + 1)..(m + 2))
      BY ONLY <2>4
    <2>6. /\ tokens'[i].start \in 1..(m + 1)
          /\ tokens'[i].end = 0 \/ tokens'[i].end \in (tokens'[i].start + 1)..(m + 2)
      BY <2>2, <2>5 DEF a, z
    <2> QED  BY <2>1, <2>2, <2>3, <2>6
  <1>3. /\ tokens'[n + 1].type \in Types
        /\ tokens'[n + 1].start \in 1..(m + 1)
        /\ tokens'[n + 1].end = 0 \/ tokens'[n + 1].end \in (tokens'[n + 1].start + 1)..(m + 2)
        /\ tokens'[n + 1].parent \in 0..n
        /\ tokens'[n + 1].size = Cardinality(NewChildren(n + 1))
    <2>1. tokens'[n + 1].size = Cardinality(NewChildren(n + 1))
      <3>1. n + 1 \in 1..(Len(tokens) + 1)
        BY <1>1
      <3>2. Cardinality(NewChildren(n + 1)) = 0
        BY <3>1, GrownChildren
      <3> QED  BY <3>2 DEF Grown
    <2> QED  BY <1>1, <2>1 DEF Grown
  <1>4. \A i \in 1..Len(tokens') :
          /\ tokens'[i].type \in Types
          /\ tokens'[i].start \in 1..Len(src')
          /\ tokens'[i].end = 0 \/ tokens'[i].end \in (tokens'[i].start + 1)..(Len(src') + 1)
          /\ tokens'[i].parent \in 0..(i - 1)
          /\ tokens'[i].size = Cardinality(NewChildren(i))
    <2>1. \A i \in 1..(n + 1) : i \in 1..n \/ i = n + 1
      BY <1>1
    <2> HIDE DEF n, m
    <2>2. Len(src') + 1 = m + 2 /\ (n + 1) - 1 = n
      BY <1>1
    <2> SUFFICES ASSUME NEW i \in 1..(n + 1)
                 PROVE  /\ tokens'[i].type \in Types
                        /\ tokens'[i].start \in 1..(m + 1)
                        /\ tokens'[i].end = 0 \/ tokens'[i].end \in (tokens'[i].start + 1)..(m + 2)
                        /\ tokens'[i].parent \in 0..(i - 1)
                        /\ tokens'[i].size = Cardinality(NewChildren(i))
      BY <1>1, <2>2
    <2>3. CASE i \in 1..n
      BY <1>2, <2>3
    <2>4. CASE i = n + 1
      BY <1>3, <2>2, <2>4
    <2> QED  BY <2>1, <2>3, <2>4
  <1>5. Len(tokens') <= Capacity' /\ toksuper' \in 0..Len(tokens')
    BY <1>1
  <1> QED  BY <1>1, <1>4, <1>5 DEF Shape, JsonTypeOK, NewChildren, Verdicts

LEMMA ShapeEnded ==
  ASSUME Shape, NEW x, Read(x), NEW c \in 1..Len(tokens), Ended(c),
         toksuper' \in 0..Len(tokens), result' \in Verdicts
  PROVE  Shape'
  <1>1. /\ Len(src) \in Nat /\ Len(tokens) \in Nat /\ Len(tokens') = Len(tokens)
        /\ Len(src') = Len(src) + 1 /\ Len(tokens) <= Capacity
        /\ tokens' \in Seq(TokenSet) /\ src' \in Seq(Lexemes)
    BY ShapeIs DEF Ended, Read
  <1>2. ASSUME NEW i \in 1..Len(tokens')
        PROVE  /\ tokens'[i].type \in Types
               /\ tokens'[i].start \in 1..Len(src')
               /\ tokens'[i].end = 0 \/ tokens'[i].end \in (tokens'[i].start + 1)..(Len(src') + 1)
               /\ tokens'[i].parent \in 0..(i - 1)
               /\ tokens'[i].size = Cardinality({j \in 1..Len(tokens') : tokens'[j].parent = i})
    <2>1. {j \in 1..Len(tokens') : tokens'[j].parent = i} = Children(i)
      BY <1>1 DEF Ended, Children
    <2>2. /\ tokens[i].type \in Types /\ tokens[i].start \in 1..Len(src)
          /\ tokens[i].start \in Nat /\ tokens[i].end \in Nat
          /\ tokens[i].end = 0 \/ tokens[i].end \in (tokens[i].start + 1)..(Len(src) + 1)
          /\ tokens[i].parent \in 0..(i - 1)
          /\ tokens[i].size = Cardinality(Children(i))
      BY <1>1, ShapeIs
    <2>3. /\ tokens'[i].type = tokens[i].type /\ tokens'[i].start = tokens[i].start
          /\ tokens'[i].parent = tokens[i].parent /\ tokens'[i].size = tokens[i].size
          /\ tokens'[i].end = IF i = c THEN Len(src) + 2 ELSE tokens[i].end
      BY <1>1 DEF Ended
    <2>4. tokens'[i].end = 0 \/ tokens'[i].end \in (tokens'[i].start + 1)..(Len(src') + 1)
      BY <1>1, <2>2, <2>3
    <2>5. tokens'[i].start \in 1..Len(src')
      BY <1>1, <2>2, <2>3
    <2> QED  BY <2>1, <2>2, <2>3, <2>4, <2>5
  <1> QED  BY <1>1, <1>2 DEF Shape, JsonTypeOK, Verdicts

LEMMA ShapeSame ==
  ASSUME Shape, tokens' = tokens, (\E x : Read(x)) \/ src' = src,
         toksuper' \in 0..Len(tokens), result' \in Verdicts
  PROVE  Shape'
  <1>1. /\ Len(src) \in Nat /\ Len(tokens) \in Nat /\ Len(src') \in {Len(src), Len(src) + 1}
        /\ src' \in Seq(Lexemes)
    BY ShapeIs DEF Read
  <1>2. ASSUME NEW i \in 1..Len(tokens)
        PROVE  /\ tokens[i].type \in Types
               /\ tokens[i].start \in 1..Len(src')
               /\ tokens[i].end = 0 \/ tokens[i].end \in (tokens[i].start + 1)..(Len(src') + 1)
               /\ tokens[i].parent \in 0..(i - 1)
               /\ tokens[i].size = Cardinality(Children(i))
    BY <1>1, ShapeIs
  <1> QED  BY <1>1, <1>2, ShapeIs DEF Shape, JsonTypeOK, Verdicts, Children

LEMMA LexemesDiffer ==
  ASSUME NEW x \in Strings
  PROVE  x \notin {"{", "}", "[", "]", ":", ",", "prim", NoKey}
  BY JsonAssumption

LEMMA ScalarShape ==
  ASSUME Shape, result = "running", NEW x, Read(x), NEW type \in {"String", "Primitive"},
         ParseScalar(type)
  PROVE  Shape'
  <1>1. CASE Fails("NoMemory")
    BY <1>1, ShapeSame, ShapeIs DEF Fails, Verdicts
  <1>2. CASE ~Full /\ tokens' = Append(Counted, Token(type, Len(src) + 2))
             /\ UNCHANGED <<toksuper, result>>
    <2>1. Len(src) + 2 \in Nat /\ Len(tokens) \in Nat /\ toksuper' \in 0..(Len(tokens) + 1)
      BY <1>2, ShapeIs
    <2>2. type \in Types
      BY DEF Types
    <2>3. Grown(type, Len(src) + 2)
      BY <1>2, <2>1, <2>2, Grows
    <2> QED  BY <1>2, <2>1, <2>2, <2>3, ShapeGrown DEF Verdicts
  <1> QED  BY <1>1, <1>2 DEF ParseScalar

LEMMA OpenShape ==
  ASSUME Shape, result = "running", NEW x, Read(x), NEW type \in {"Object", "Array"},
         ParseOpen(type)
  PROVE  Shape'
  <1>1. CASE Fails("NoMemory")
    BY <1>1, ShapeSame, ShapeIs DEF Fails, Verdicts
  <1>2. CASE ~Full /\ tokens' = Append(Counted, Token(type, 0))
             /\ toksuper' = Len(tokens) + 1 /\ UNCHANGED result
    <2>1. 0 \in Nat /\ Len(tokens) \in Nat /\ toksuper' \in 0..(Len(tokens) + 1)
      BY <1>2, ShapeIs
    <2>2. type \in Types
      BY DEF Types
    <2>3. Grown(type, 0)
      BY <1>2, <2>1, <2>2, Grows
    <2> QED  BY <1>2, <2>1, <2>2, <2>3, ShapeGrown DEF Verdicts
  <1> QED  BY <1>1, <1>2 DEF ParseOpen

LEMMA CloseShape ==
  ASSUME Shape, result = "running", NEW x, Read(x), NEW type, ParseClose(type)
  PROVE  Shape'
  <1>1. CASE Fails("Invalid")
    BY <1>1, ShapeSame, ShapeIs DEF Fails, Verdicts
  <1>2. ASSUME NEW i \in 1..Len(tokens), tokens' = [tokens EXCEPT ![i].end = Len(src) + 2],
               toksuper' = tokens[i].parent, UNCHANGED result
        PROVE  Shape'
    <2>1. Ended(i)
      BY <1>2, Ends
    <2>2. toksuper' \in 0..Len(tokens)
      BY <1>2, ShapeIs
    <2> QED  BY <1>2, <2>1, <2>2, ShapeEnded DEF Verdicts
  <1> QED  BY <1>1, <1>2 DEF ParseClose

LEMMA ShapeTurn ==
  ASSUME Shape, NEW x \in Lexemes, Turn(x)
  PROVE  Shape'
  <1>1. result = "running" /\ Read(x) /\ ParseLexeme(x)
    BY Reads, ShapeIs DEF Turn, Input
  <1>2. CASE x \in {"{", "["}
    <2>1. ParseOpen("Object") \/ ParseOpen("Array")
      BY <1>1, <1>2 DEF ParseLexeme
    <2> QED  BY <1>1, <2>1, OpenShape
  <1>3. CASE x \in {"}", "]"}
    <2>1. ParseClose("Object") \/ ParseClose("Array")
      BY <1>1, <1>3 DEF ParseLexeme
    <2> QED  BY <1>1, <2>1, CloseShape
  <1>4. CASE x \in {":", ","}
    <2>1. ParseColon \/ ParseComma
      BY <1>1, <1>4 DEF ParseLexeme
    <2>2. toksuper' \in 0..Len(tokens) /\ tokens' = tokens /\ result' = result
      BY <2>1, ShapeIs DEF ParseColon, ParseComma
    <2> QED  BY <1>1, <2>2, ShapeSame DEF Verdicts
  <1>5. CASE x = "prim" \/ x \in Strings
    <2>1. ParseScalar("Primitive") \/ ParseScalar("String")
      BY <1>1, <1>5, LexemesDiffer DEF ParseLexeme
    <2> QED  BY <1>1, <2>1, ScalarShape
  <1> QED  BY <1>2, <1>3, <1>4, <1>5 DEF Lexemes

LEMMA ShapeStep ==
  ASSUME Shape, [JsonNext]_jsonVars
  PROVE  Shape'
  <1>1. CASE \E x \in Lexemes : Turn(x)
    BY <1>1, ShapeTurn
  <1>2. CASE Malformed
    BY <1>2, ShapeSame, ShapeIs DEF Malformed, Fails, Verdicts
  <1>3. CASE End
    BY <1>3, ShapeSame, ShapeIs DEF End, Outcome, Verdicts
  <1>4. CASE UNCHANGED jsonVars
    BY <1>4, ShapeSame, ShapeIs DEF jsonVars, parse
  <1>5. CASE EndInPrimitive
    <2>1. src' = Append(src, "prim") /\ UNCHANGED <<tokens, toksuper>> /\ result' = "Partial"
      BY <1>5 DEF EndInPrimitive, Input, Fails
    <2>2. Read("prim")
      BY <2>1, Reads, ShapeIs DEF Lexemes
    <2> QED  BY <2>1, <2>2, ShapeSame, ShapeIs DEF Verdicts
  <1> QED  BY <1>1, <1>2, <1>3, <1>4, <1>5 DEF JsonNext

\* Parse never overruns its array or follows an index that is not that of a
\* token in use, the parents of the tokens form a tree, and every size is the
\* number of children, whatever the input is, a JSON document or not.
THEOREM JsonTypes == JsonSpec => []JsonTypeOK
  <1>1. JsonInit => Shape
    <2> SUFFICES ASSUME JsonInit PROVE Shape
      OBVIOUS
    <2>1. tokens = <<>> /\ src = <<>> /\ toksuper = 0 /\ result = "running" /\ Len(<<>>) = 0
      BY DEF JsonInit
    <2>2. 1..0 = {} /\ Capacity \in Nat
      BY CapacityNat
    <2> QED  BY <2>1, <2>2 DEF Shape, JsonTypeOK
  <1>2. Shape /\ [JsonNext]_jsonVars => Shape'
    BY ShapeStep
  <1>3. Shape => JsonTypeOK
    BY DEF Shape
  <1> QED  BY <1>1, <1>2, <1>3, PTL DEF JsonSpec

-----------------------------------------------------------------------------
(* The two readers agree                                                   *)

Frames  == [kind : {"Object", "Array"}, token : Nat]
Records == [holder : Nat, key : Strings \cup {NoKey}, value : Nat]

LEMMA SizesIs ==
  ASSUME Sizes
  PROVE  /\ Len(stack) \in Nat /\ Len(key) = Len(stack) /\ key \in Seq(Strings \cup {NoKey})
         /\ Len(tokens) = count /\ Len(kinds) = count /\ count \in Nat /\ kinds \in Seq(Kinds)
         /\ Len(members) \in Nat /\ stack \in Seq(Frames) /\ members \in Seq(Records)
         /\ stack = <<>> <=> Len(stack) = 0
         /\ \A k \in 1..Len(stack) : /\ stack[k] \in Frames /\ stack[k].token \in Nat
                                     /\ stack[k].kind \in {"Object", "Array"}
                                     /\ key[k] \in Strings \cup {NoKey}
         /\ \A i \in 1..count : kinds[i] \in Kinds
         /\ \A m \in 1..Len(members) : /\ members[m].holder \in Nat /\ members[m].value \in Nat
                                       /\ members[m].key \in Strings \cup {NoKey}
  <1>1. /\ stack \in Seq(Frames) /\ members \in Seq(Records) /\ kinds \in Seq(Kinds)
        /\ Len(kinds) = count /\ Len(tokens) = count /\ Len(key) = Len(stack)
        /\ key \in Seq(Strings \cup {NoKey})
    BY DEF Sizes, Frames, Records
  <1>2. /\ Len(stack) \in Nat /\ count \in Nat /\ Len(members) \in Nat
        /\ stack = <<>> <=> Len(stack) = 0
    BY <1>1
  <1>3. /\ \A k \in 1..Len(stack) : stack[k] \in Frames
        /\ \A m \in 1..Len(members) : members[m] \in Records
        /\ \A i \in 1..count : kinds[i] \in Kinds
        /\ \A k \in 1..Len(stack) : key[k] \in Strings \cup {NoKey}
    BY <1>1
  <1>4. /\ \A f \in Frames : f.token \in Nat /\ f.kind \in {"Object", "Array"}
        /\ \A r \in Records : r.holder \in Nat /\ r.value \in Nat /\ r.key \in Strings \cup {NoKey}
    BY DEF Frames, Records
  <1> QED  BY <1>1, <1>2, <1>3, <1>4

\* What a lexeme was read as does not change.
LEMMA RawKept ==
  ASSUME Shape, NEW x, Read(x),
         \A i \in 1..Len(tokens) : tokens'[i].start = tokens[i].start
  PROVE  \A i \in 1..Len(tokens) : src'[tokens'[i].start] = Raw(i)
  BY ShapeIs DEF Read, Raw

\* The reference reader begins a value.
Begun(open) ==
  /\ count' = count + 1
  /\ kinds' \in Seq(Kinds) /\ Len(kinds') = count + 1 /\ kinds'[count + 1] = open
  /\ \A i \in 1..count : kinds'[i] = kinds[i]
  /\ stack' \in Seq(Frames) /\ key' \in Seq(Strings \cup {NoKey})
  /\ open = "none" => stack' = stack /\ key' = key
  /\ open # "none" => /\ Len(stack') = Len(stack) + 1 /\ Len(key') = Len(stack) + 1
                      /\ \A k \in 1..Len(stack) : stack'[k] = stack[k] /\ key'[k] = key[k]
                      /\ stack'[Len(stack) + 1].kind = open
                      /\ stack'[Len(stack) + 1].token = count + 1
                      /\ key'[Len(stack) + 1] = NoKey
  /\ members' \in Seq(Records)
  /\ stack = <<>> => members' = members
  /\ stack # <<>> =>
       /\ Len(members') = Len(members) + 1
       /\ \A m \in 1..Len(members) : members'[m] = members[m]
       /\ members'[Len(members) + 1].holder = Top.token
       /\ members'[Len(members) + 1].key = IF Top.kind = "Object" THEN key[Len(stack)] ELSE NoKey
       /\ members'[Len(members) + 1].value = count + 1
  /\ expect' = IF open = "none" THEN After(stack)
               ELSE IF open = "Object" THEN "key or close" ELSE "value or close"

LEMMA Begins ==
  ASSUME Sizes, NEW open \in Kinds, Value(open)
  PROVE  Begun(open)
  <1> DEFINE f == [kind |-> open, token |-> count + 1]
             r == [holder |-> Top.token,
                   key    |-> IF Top.kind = "Object" THEN key[Len(stack)] ELSE NoKey,
                   value  |-> count + 1]
  <1>1. /\ count' = count + 1 /\ count \in Nat /\ Len(kinds) = count /\ kinds \in Seq(Kinds)
        /\ kinds' = Append(kinds, open)
    BY SizesIs DEF Value
  <1>2. /\ kinds' \in Seq(Kinds) /\ Len(kinds') = count + 1 /\ kinds'[count + 1] = open
        /\ \A i \in 1..count : kinds'[i] = kinds[i]
    BY <1>1
  <1>3. /\ stack' = IF open = "none" THEN stack ELSE Append(stack, f)
        /\ key' = IF open = "none" THEN key ELSE Append(key, NoKey)
        /\ stack \in Seq(Frames) /\ key \in Seq(Strings \cup {NoKey}) /\ Len(key) = Len(stack)
        /\ Len(stack) \in Nat
    BY SizesIs DEF Value
  <1>4. f.kind = open /\ f.token = count + 1 /\ (open # "none" => f \in Frames)
    BY <1>1 DEF Frames, Kinds
  <1>5. /\ stack' \in Seq(Frames) /\ key' \in Seq(Strings \cup {NoKey})
        /\ open = "none" => stack' = stack /\ key' = key
        /\ open # "none" => /\ Len(stack') = Len(stack) + 1 /\ Len(key') = Len(stack) + 1
                            /\ \A k \in 1..Len(stack) : stack'[k] = stack[k] /\ key'[k] = key[k]
                            /\ stack'[Len(stack) + 1] = f
                            /\ key'[Len(stack) + 1] = NoKey
    <2> HIDE DEF f
    <2> QED  BY <1>3, <1>4
  <1>6. members' = (IF stack = <<>> THEN members ELSE Append(members, r)) /\ members \in Seq(Records)
    BY SizesIs DEF Value
  <1>7. stack # <<>> => r \in Records
    <2> SUFFICES ASSUME stack # <<>> PROVE r \in Records
      OBVIOUS
    <2>1. Len(stack) \in 1..Len(stack)
      BY SizesIs
    <2>2. Top.token \in Nat /\ key[Len(stack)] \in Strings \cup {NoKey}
      BY <2>1, SizesIs DEF Top
    <2> QED  BY <1>1, <2>2 DEF Records
  <1>8. /\ r.holder = Top.token /\ r.value = count + 1
        /\ r.key = IF Top.kind = "Object" THEN key[Len(stack)] ELSE NoKey
    OBVIOUS
  <1>9. /\ members' \in Seq(Records)
        /\ stack = <<>> => members' = members
        /\ stack # <<>> => /\ Len(members') = Len(members) + 1
                           /\ \A m \in 1..Len(members) : members'[m] = members[m]
                           /\ members'[Len(members) + 1] = r
    <2> HIDE DEF r
    <2> QED  BY <1>6, <1>7
  <1>10. expect' = IF open = "none" THEN After(stack)
                   ELSE IF open = "Object" THEN "key or close" ELSE "value or close"
    BY DEF Value, Kinds
  <1> HIDE DEF f, r
  <1> QED  BY <1>1, <1>2, <1>4, <1>5, <1>8, <1>9, <1>10 DEF Begun

\* A value may begin, and where it is stored.
LEMMA ReadyHolder ==
  ASSUME Sizes, Supers, Expected, expect \in {"value", "value or close"}
  PROVE  Holder(Len(stack), toksuper)
  <1>1. CASE expect = "value"
    BY <1>1 DEF Supers
  <1>2. CASE expect = "value or close"
    <2>1. toksuper = Top.token /\ stack # <<>> /\ Top.kind = "Array"
      BY <1>2 DEF Supers, Expected
    <2>2. Len(stack) # 0
      BY <2>1, SizesIs
    <2> QED  BY <2>1, <2>2 DEF Holder, Top
  <1> QED  BY <1>1, <1>2

\* The move of both readers on a value.
ValueMove(x, open, type, end) ==
  /\ Read(x) /\ Grown(type, end) /\ Begun(open)
  /\ open \in Kinds /\ type \in Types
  /\ expect \in {"value", "value or close"}
  /\ open = "none" => type \in {"String", "Primitive"} /\ end # 0 /\ toksuper' = toksuper
  /\ open # "none" => type = open /\ end = 0 /\ toksuper' = Len(tokens) + 1

LEMMA ValueNesting ==
  ASSUME Shape, Mirror, NEW x, NEW open, NEW type, NEW end, ValueMove(x, open, type, end)
  PROVE  Sizes' /\ Nesting'
  <1> DEFINE d == Len(stack)
  <1>1. /\ count \in Nat /\ d \in Nat /\ Len(tokens) = count /\ count' = count + 1
        /\ Len(kinds') = count + 1 /\ Len(tokens') = count + 1
    BY SizesIs DEF Mirror, ValueMove, Begun, Grown
  <1>2. Sizes'
    BY <1>1, SizesIs DEF Mirror, ValueMove, Begun, Sizes, Frames, Records
  <1>3. ASSUME NEW i \in 1..count
        PROVE  /\ kinds'[i] = kinds[i] /\ tokens'[i].type = tokens[i].type
               /\ tokens'[i].end = tokens[i].end
    BY <1>1, <1>3 DEF ValueMove, Begun, Grown
  <1>4. /\ kinds'[count + 1] = open /\ tokens'[count + 1].type = type
        /\ tokens'[count + 1].end = end
        /\ end = 0 <=> open # "none"
        /\ IF open = "none" THEN type \in {"String", "Primitive"} ELSE type = open
    BY <1>1 DEF ValueMove, Begun, Grown
  <1>5. ASSUME NEW k \in 1..d
        PROVE  /\ stack'[k] = stack[k] /\ stack[k].token \in 1..count
               /\ kinds[stack[k].token] = stack[k].kind
    BY <1>5 DEF Mirror, Nesting, ValueMove, Begun
  <1>6. /\ open = "none" => Len(stack') = d
        /\ open # "none" => /\ Len(stack') = d + 1 /\ stack'[d + 1].kind = open
                            /\ stack'[d + 1].token = count + 1
    BY DEF ValueMove, Begun
  <1>7. /\ \A k, l \in 1..d : k < l => stack[k].token < stack[l].token
        /\ \A i \in 1..count : tokens[i].end = 0 <=> \E k \in 1..d : stack[k].token = i
        /\ \A i \in 1..count : IF kinds[i] = "none" THEN tokens[i].type \in {"String", "Primitive"}
                                                    ELSE tokens[i].type = kinds[i]
    BY DEF Mirror, Nesting
  <1> HIDE DEF d
  <1>8. \A k \in 1..Len(stack') : stack'[k].token \in 1..count' /\ kinds'[stack'[k].token] = stack'[k].kind
    BY <1>1, <1>3, <1>4, <1>5, <1>6
  <1>9. \A k, l \in 1..Len(stack') : k < l => stack'[k].token < stack'[l].token
    BY <1>1, <1>5, <1>6, <1>7
  <1>10. \A i \in 1..count' : tokens'[i].end = 0 <=> \E k \in 1..Len(stack') : stack'[k].token = i
    <2>1. ASSUME NEW i \in 1..count
          PROVE  tokens'[i].end = 0 <=> \E k \in 1..Len(stack') : stack'[k].token = i
      <3>1. (\E k \in 1..Len(stack') : stack'[k].token = i) <=> \E k \in 1..d : stack'[k].token = i
        <4>1. CASE open = "none"
          BY <1>6, <4>1
        <4>2. CASE open # "none"
          <5>1. \A k \in 1..(d + 1) : k \in 1..d \/ k = d + 1
            BY <1>1
          <5>2. 1..d \subseteq 1..(d + 1)
            BY <1>1
          <5>3. i # count + 1
            BY <1>1
          <5> QED  BY <1>6, <4>2, <5>1, <5>2, <5>3
        <4> QED  BY <4>1, <4>2
      <3>2. (\E k \in 1..d : stack'[k].token = i) <=> \E k \in 1..d : stack[k].token = i
        BY <1>5
      <3> QED  BY <1>3, <1>7, <3>1, <3>2
    <2>2. tokens'[count + 1].end = 0 <=> \E k \in 1..Len(stack') : stack'[k].token = count + 1
      BY <1>1, <1>4, <1>5, <1>6
    <2> QED  BY <1>1, <2>1, <2>2
  <1>11. \A i \in 1..count' : IF kinds'[i] = "none" THEN tokens'[i].type \in {"String", "Primitive"}
                                                    ELSE tokens'[i].type = kinds'[i]
    BY <1>1, <1>3, <1>4, <1>7
  <1> QED  BY <1>2, <1>8, <1>9, <1>10, <1>11 DEF Nesting

LEMMA ValueSupers ==
  ASSUME Shape, Mirror, NEW x, NEW open, NEW type, NEW end, ValueMove(x, open, type, end)
  PROVE  Supers' /\ Expected'
  <1> DEFINE d == Len(stack)
  <1>1. /\ count \in Nat /\ d \in Nat /\ Len(tokens) = count /\ count' = count + 1
        /\ stack = <<>> <=> d = 0
        /\ toksuper \in 0..count
    BY SizesIs, ShapeIs DEF Mirror, ValueMove, Begun
  <1>2. Holder(d, toksuper)
    BY ReadyHolder DEF Mirror, ValueMove
  <1>3. /\ \A i \in 1..count : /\ tokens'[i].type = tokens[i].type
                               /\ tokens'[i].parent = tokens[i].parent
        /\ tokens'[count + 1].parent = toksuper
    BY <1>1 DEF ValueMove, Grown
  <1>4. /\ \A k \in 1..d : stack'[k] = stack[k]
        /\ open = "none" => stack' = stack /\ toksuper' = toksuper /\ expect' = After(stack)
        /\ open # "none" => /\ Len(stack') = d + 1 /\ stack'[d + 1].kind = open
                            /\ stack'[d + 1].token = count + 1 /\ toksuper' = count + 1
                            /\ expect' = IF open = "Object" THEN "key or close" ELSE "value or close"
        /\ open \in Kinds
    BY <1>1 DEF ValueMove, Begun
  <1>5. \A k \in 1..d : stack[k].token \in 1..count /\ Holder(k - 1, tokens[stack[k].token].parent)
    BY DEF Mirror, Nesting, Supers
  <1> DEFINE NewHolder(k, q) ==
               IF k = 0 THEN q = 0
               ELSE IF stack'[k].kind = "Array" THEN q = stack'[k].token
               ELSE q \in 1..count' /\ tokens'[q].type = "String" /\ tokens'[q].parent = stack'[k].token
  <1>6. ASSUME NEW k \in 0..d, NEW q, Holder(k, q)
        PROVE  NewHolder(k, q)
    <2> HIDE DEF d
    <2>1. k # 0 => k \in 1..d
      BY <1>1
    <2>2. \A i \in 1..count : i \in 1..count'
      BY <1>1
    <2> QED  BY <1>3, <1>4, <1>6, <2>1, <2>2 DEF Holder
  <1>7. \A k \in 1..Len(stack') : NewHolder(k - 1, tokens'[stack'[k].token].parent)
    <2>1. ASSUME NEW k \in 1..d
          PROVE  NewHolder(k - 1, tokens'[stack'[k].token].parent)
      <3>1. k - 1 \in 0..d
        BY <1>1
      <3>2. stack'[k] = stack[k] /\ stack[k].token \in 1..count
        BY <1>4, <1>5
      <3>3. tokens'[stack[k].token].parent = tokens[stack[k].token].parent
        BY <1>3, <3>2
      <3>4. Holder(k - 1, tokens[stack[k].token].parent)
        BY <1>5
      <3> HIDE DEF d, NewHolder
      <3>5. NewHolder(k - 1, tokens[stack[k].token].parent)
        BY <1>6, <3>1, <3>4
      <3> QED  BY <3>2, <3>3, <3>5
    <2>2. open # "none" => NewHolder((d + 1) - 1, tokens'[stack'[d + 1].token].parent)
      <3>1. (d + 1) - 1 = d /\ d \in 0..d
        BY <1>1
      <3> HIDE DEF d, NewHolder
      <3> QED  BY <1>2, <1>3, <1>4, <1>6, <3>1
    <2>3. Len(stack') = d \/ (open # "none" /\ Len(stack') = d + 1)
      BY <1>4
    <2> HIDE DEF d, NewHolder
    <2>4. \A k \in 1..(d + 1) : k \in 1..d \/ k = d + 1
      BY <1>1
    <2> QED  BY <2>1, <2>2, <2>3, <2>4
  <1>8. IF expect' \in {"value", "more", "end"} THEN NewHolder(Len(stack'), toksuper')
        ELSE toksuper' = stack'[Len(stack')].token
    <2>1. CASE open = "none"
      <3>1. NewHolder(d, toksuper)
        BY <1>1, <1>2, <1>6
      <3>2. Len(stack') = d /\ expect' \in {"more", "end"}
        BY <1>4, <2>1 DEF After
      <3> HIDE DEF NewHolder
      <3> QED  BY <1>4, <2>1, <3>1, <3>2
    <2>2. CASE open # "none"
      BY <1>4, <2>2
    <2> QED  BY <2>1, <2>2
  <1>9. ~Waiting'
    BY <1>4 DEF Waiting, After
  <1>10. Supers'
    BY <1>7, <1>8, <1>9 DEF Supers, Holder, Top
  <1>11. Expected'
    <2>1. CASE open = "none"
      <3>1. count' # 0 /\ stack' = stack /\ expect' = IF stack = <<>> THEN "end" ELSE "more"
        BY <1>1, <1>4, <2>1 DEF After
      <3> QED  BY <3>1 DEF Expected
    <2>2. CASE open # "none"
      <3>1. stack' # <<>>
        <4>1. Len(stack') = d + 1
          BY <1>4, <2>2
        <4>2. d + 1 # 0
          <5> HIDE DEF d
          <5> QED  BY <1>1
        <4>3. Len(<<>>) = 0
          OBVIOUS
        <4> HIDE DEF d
        <4> QED  BY <4>1, <4>2, <4>3
      <3> QED  BY <1>4, <2>2, <3>1 DEF Expected, Top, Kinds
    <2> QED  BY <2>1, <2>2
  <1> QED  BY <1>10, <1>11

LEMMA ValueListed ==
  ASSUME Shape, Mirror, NEW x, NEW open, NEW type, NEW end, ValueMove(x, open, type, end)
  PROVE  Listed'
  <1> DEFINE d == Len(stack)
             n == Len(members)
             NewStored(r) ==
               /\ r.holder \in 1..count' /\ r.value \in 1..count'
               /\ \/ kinds'[r.holder] = "Array" /\ r.key = NoKey /\ tokens'[r.value].parent = r.holder
                  \/ /\ kinds'[r.holder] = "Object" /\ r.value - 1 \in 1..count'
                     /\ tokens'[r.value - 1].parent = r.holder
                     /\ src'[tokens'[r.value - 1].start] = r.key
  <1>1. /\ count \in Nat /\ d \in Nat /\ n \in Nat /\ Len(tokens) = count /\ count' = count + 1
        /\ stack = <<>> <=> d = 0
        /\ toksuper \in 0..count
        /\ \A i \in 1..count : tokens[i].parent \in 0..(i - 1)
    BY SizesIs, ShapeIs DEF Mirror, ValueMove, Begun
  <1>2. Holder(d, toksuper)
    BY ReadyHolder DEF Mirror, ValueMove
  <1>3. /\ \A i \in 1..count : /\ tokens'[i].type = tokens[i].type
                               /\ tokens'[i].parent = tokens[i].parent
                               /\ src'[tokens'[i].start] = Raw(i)
        /\ tokens'[count + 1].parent = toksuper
    BY <1>1, RawKept DEF ValueMove, Grown
  <1>4. /\ \A i \in 1..count : kinds'[i] = kinds[i]
        /\ \A i \in 1..count : kinds[i] # "none" => tokens[i].type = kinds[i]
    BY DEF ValueMove, Begun, Mirror, Nesting
  <1>5. /\ \A m \in 1..n : Stored(members[m])
        /\ \A m, l \in 1..n : m < l => members[m].value < members[l].value
        /\ \A m \in 1..n : members[m].value \in Nat
    BY SizesIs DEF Mirror, Listed
  <1>6. ~Waiting'
    BY DEF Waiting, After, ValueMove, Begun, Kinds
  <1>7. ASSUME NEW r, Stored(r), r.value \in Nat
        PROVE  NewStored(r)
    <2>1. 1..count \subseteq 1..count'
      BY <1>1
    <2> QED  BY <1>3, <1>4, <1>7, <2>1 DEF Stored
  <1>8. ASSUME NEW j \in 1..count, tokens[j].parent # 0
        PROVE  tokens[j].parent \in 1..count
    BY <1>1, <1>8
  <1>9. CASE stack = <<>>
    <2>1. members' = members /\ toksuper = 0 /\ ~Waiting
      BY <1>1, <1>2, <1>9 DEF ValueMove, Begun, Holder, Waiting
    <2>2. \A m \in 1..n : NewStored(members[m])
      <3> HIDE DEF NewStored
      <3> QED  BY <1>5, <1>7
    <2>3. ASSUME NEW j \in 1..count', tokens'[j].parent # 0
          PROVE  /\ kinds'[tokens'[j].parent] = "Array" =>
                      \E m \in 1..n : members[m].holder = tokens'[j].parent /\ members[m].value = j
                 /\ kinds'[tokens'[j].parent] = "Object" =>
                      /\ tokens'[j].type = "String"
                      /\ \E m \in 1..n :
                           members[m].holder = tokens'[j].parent /\ members[m].value = j + 1
      <3>0. j \in 1..count \/ j = count + 1
        <4>1. count \in Nat /\ j \in 1..(count + 1)
          BY <1>1
        <4> QED  BY ONLY <4>1
      <3>1. j \in 1..count /\ tokens[j].parent # 0
        BY <1>3, <2>1, <2>3, <3>0
      <3>2. tokens'[j].parent = tokens[j].parent /\ tokens'[j].type = tokens[j].type
            /\ kinds'[tokens[j].parent] = kinds[tokens[j].parent]
        BY <1>3, <1>4, <1>8, <3>1
      <3> QED  BY <2>1, <3>1, <3>2 DEF Mirror, Listed
    <2> QED  BY <1>5, <2>1, <2>2, <2>3 DEF Listed, Stored, Raw
  <1>10. CASE stack # <<>>
    <2> DEFINE q == Top.token
               w == members'[n + 1]
    <2>1. /\ Len(members') = n + 1 /\ \A m \in 1..n : members'[m] = members[m]
          /\ w.holder = q /\ w.value = count + 1
          /\ w.key = IF Top.kind = "Object" THEN key[d] ELSE NoKey
      BY <1>10 DEF ValueMove, Begun
    <2>2. /\ d \in 1..d /\ q \in 1..count /\ kinds[q] = Top.kind /\ Top.kind \in {"Object", "Array"}
      BY <1>1, <1>10, SizesIs DEF Mirror, Nesting, Top
    <2>3. Top.kind = "Object" => /\ Waiting /\ count # 0 /\ tokens[count].parent = q
                                 /\ Raw(count) = key[d]
      <3> SUFFICES ASSUME Top.kind = "Object" PROVE Waiting
        BY DEF Mirror, Supers
      <3> QED  BY <1>10 DEF Mirror, Expected, ValueMove, Waiting
    <2>4. Top.kind = "Array" => toksuper = q /\ ~Waiting
      BY <1>1, <1>2, <1>10 DEF Holder, Waiting, Top
    <2>5. Top.kind = "Object" => toksuper \in 1..count /\ tokens[toksuper].type = "String"
      BY <1>1, <1>2, <1>10, <2>2 DEF Holder, Top
    <2>6. NewStored(w)
      <3>1. q \in 1..count' /\ count + 1 \in 1..count' /\ kinds'[q] = kinds[q]
        BY <1>1, <1>4, <2>2
      <3>2. CASE Top.kind = "Array"
        BY <1>3, <2>1, <2>2, <2>4, <3>1, <3>2
      <3>3. CASE Top.kind = "Object"
        <4>1. w.value - 1 = count /\ count \in 1..count /\ count \in 1..count'
          BY <1>1, <2>1, <2>3, <3>3
        <4> QED  BY <1>3, <2>1, <2>2, <2>3, <3>1, <3>3, <4>1
      <3> QED  BY <2>2, <3>2, <3>3
    <2>7. \A m \in 1..(n + 1) : m \in 1..n \/ m = n + 1
      BY <1>1
    <2>8. \A m \in 1..(n + 1) : NewStored(members'[m])
      <3> HIDE DEF NewStored
      <3>1. \A m \in 1..n : NewStored(members[m])
        BY <1>5, <1>7
      <3> QED  BY <2>1, <2>6, <2>7, <3>1
    <2>9. \A m, l \in 1..(n + 1) : m < l => members'[m].value < members'[l].value
      <3>1. \A m \in 1..n : members[m].value < count + 1
        BY <1>1, <1>5 DEF Stored
      <3> HIDE DEF n, d
      <3> SUFFICES ASSUME NEW m \in 1..(n + 1), NEW l \in 1..(n + 1), m < l
                   PROVE  members'[m].value < members'[l].value
        OBVIOUS
      <3>2. m \in 1..n
        BY <1>1
      <3>3. members'[m].value = members[m].value
        BY <2>1, <3>2
      <3>4. CASE l \in 1..n
        BY <1>5, <2>1, <3>2, <3>3, <3>4
      <3>5. CASE l = n + 1
        BY <2>1, <3>1, <3>2, <3>3, <3>5
      <3> QED  BY <2>7, <3>4, <3>5
    <2>10. ASSUME NEW j \in 1..count, tokens[j].parent # 0
           PROVE  /\ kinds'[tokens'[j].parent] = "Array" =>
                       \E m \in 1..(n + 1) : members'[m].holder = tokens'[j].parent
                                             /\ members'[m].value = j
                  /\ kinds'[tokens'[j].parent] = "Object" =>
                       /\ tokens'[j].type = "String"
                       /\ \E m \in 1..(n + 1) :
                            members'[m].holder = tokens'[j].parent /\ members'[m].value = j + 1
      <3>2. tokens'[j].parent = tokens[j].parent /\ tokens'[j].type = tokens[j].type
            /\ kinds'[tokens[j].parent] = kinds[tokens[j].parent]
        BY <1>3, <1>4, <1>8, <2>10
      <3>3. /\ kinds[tokens[j].parent] = "Array" =>
                 \E m \in 1..n : members[m].holder = tokens[j].parent /\ members[m].value = j
            /\ kinds[tokens[j].parent] = "Object" =>
                 /\ tokens[j].type = "String"
                 /\ \/ \E m \in 1..n :
                         members[m].holder = tokens[j].parent /\ members[m].value = j + 1
                    \/ Waiting /\ j = count
        BY <2>10 DEF Mirror, Listed
      <3>4. 1..n \subseteq 1..(n + 1) /\ n + 1 \in 1..(n + 1)
        BY <1>1
      <3>5. Waiting /\ j = count => w.holder = tokens[j].parent /\ w.value = j + 1
        BY <2>1, <2>2, <2>3, <2>4
      <3> HIDE DEF n, d
      <3> QED  BY <2>1, <3>2, <3>3, <3>4, <3>5
    <2>11. /\ kinds'[toksuper] = "Array" /\ toksuper # 0 => w.holder = toksuper
           /\ toksuper # 0 => kinds'[toksuper] # "Object"
      <3>1. toksuper # 0 => toksuper \in 1..count /\ kinds'[toksuper] = kinds[toksuper]
        BY <1>1, <1>4
      <3>2. CASE Top.kind = "Array"
        BY <2>1, <2>2, <2>4, <3>1, <3>2
      <3>3. CASE Top.kind = "Object"
        BY <1>4, <2>5, <3>1, <3>3
      <3> QED  BY <2>2, <3>2, <3>3
    <2>12. ASSUME NEW j \in 1..count', tokens'[j].parent # 0
           PROVE  /\ kinds'[tokens'[j].parent] = "Array" =>
                       \E m \in 1..(n + 1) : members'[m].holder = tokens'[j].parent
                                             /\ members'[m].value = j
                  /\ kinds'[tokens'[j].parent] = "Object" =>
                       /\ tokens'[j].type = "String"
                       /\ \E m \in 1..(n + 1) :
                            members'[m].holder = tokens'[j].parent /\ members'[m].value = j + 1
      <3>1. CASE j \in 1..count
        BY <1>3, <2>10, <2>12, <3>1
      <3>2. CASE j = count + 1
        <4>1. tokens'[j].parent = toksuper /\ n + 1 \in 1..(n + 1)
          BY <1>1, <1>3, <3>2
        <4> HIDE DEF n, d
        <4> QED  BY <2>1, <2>11, <2>12, <3>2, <4>1
      <3> QED  BY <1>1, <3>1, <3>2
    <2> QED  BY <2>1, <2>8, <2>9, <2>12 DEF Listed, Stored, Raw
  <1> QED  BY <1>9, <1>10

\* The move of both readers on a key.
KeyMove(x) ==
  /\ Read(x) /\ Grown("String", Len(src) + 2) /\ toksuper' = toksuper
  /\ x \in Strings /\ expect \in {"key", "key or close"} /\ expect' = "colon"
  /\ key' = [key EXCEPT ![Len(stack)] = x]
  /\ count' = count + 1 /\ kinds' = Append(kinds, "none")
  /\ UNCHANGED <<stack, members>>

LEMMA KeyMirror ==
  ASSUME Shape, Mirror, NEW x, KeyMove(x)
  PROVE  Mirror'
  <1> DEFINE d == Len(stack)
             n == Len(members)
  <1>1. /\ count \in Nat /\ d \in Nat /\ n \in Nat /\ Len(tokens) = count /\ count' = count + 1
        /\ stack = <<>> <=> d = 0
        /\ Len(src) \in Nat /\ Len(tokens') = count + 1
        /\ \A i \in 1..count : tokens[i].parent \in 0..(i - 1)
    BY SizesIs, ShapeIs DEF Mirror, KeyMove, Grown
  <1>2. /\ stack # <<>> /\ Top.kind = "Object" /\ toksuper = Top.token /\ d \in 1..d
        /\ stack' = stack /\ members' = members /\ toksuper' = toksuper /\ expect' = "colon"
        /\ Top' = Top
    <2>1. /\ stack # <<>> /\ Top.kind = "Object" /\ toksuper = Top.token
          /\ stack' = stack /\ members' = members /\ toksuper' = toksuper /\ expect' = "colon"
      BY DEF Mirror, Expected, Supers, KeyMove
    <2> QED  BY <1>1, <2>1 DEF Top
  <1>3. /\ \A i \in 1..count : /\ tokens'[i].type = tokens[i].type
                               /\ tokens'[i].parent = tokens[i].parent
                               /\ tokens'[i].end = tokens[i].end
                               /\ src'[tokens'[i].start] = Raw(i)
        /\ tokens'[count + 1].parent = toksuper /\ tokens'[count + 1].type = "String"
        /\ tokens'[count + 1].end # 0 /\ src'[tokens'[count + 1].start] = x
    <2>1. /\ \A i \in 1..count : /\ tokens'[i].type = tokens[i].type
                                 /\ tokens'[i].parent = tokens[i].parent
                                 /\ tokens'[i].end = tokens[i].end
          /\ tokens'[count + 1].parent = toksuper /\ tokens'[count + 1].type = "String"
          /\ tokens'[count + 1].end = Len(src) + 2 /\ tokens'[count + 1].start = Len(src) + 1
          /\ src'[Len(src) + 1] = x
      BY <1>1 DEF KeyMove, Grown, Read
    <2>2. \A i \in 1..count : src'[tokens'[i].start] = Raw(i)
      BY <1>1, RawKept DEF KeyMove, Grown
    <2> QED  BY <1>1, <2>1, <2>2
  <1>4. /\ kinds' \in Seq(Kinds) /\ Len(kinds') = count + 1 /\ kinds'[count + 1] = "none"
        /\ \A i \in 1..count : kinds'[i] = kinds[i]
    <2>1. kinds \in Seq(Kinds) /\ Len(kinds) = count /\ kinds' = Append(kinds, "none")
      BY SizesIs DEF Mirror, KeyMove
    <2>2. "none" \in Kinds
      BY DEF Kinds
    <2> QED  BY <1>1, <2>1, <2>2
  <1>5. /\ key' \in Seq(Strings \cup {NoKey}) /\ Len(key') = d /\ key'[d] = x
    <2>1. key \in Seq(Strings \cup {NoKey}) /\ Len(key) = d /\ x \in Strings \cup {NoKey}
          /\ key' = [key EXCEPT ![d] = x]
      BY SizesIs DEF Mirror, KeyMove
    <2> HIDE DEF d
    <2> QED  BY <1>2, <2>1, ExceptSeq
  <1>6. Sizes'
    <2>1. /\ stack \in Seq([kind : {"Object", "Array"}, token : Nat])
          /\ members \in Seq([holder : Nat, key : Strings \cup {NoKey}, value : Nat])
      BY DEF Mirror, Sizes
    <2> QED  BY <1>1, <1>2, <1>4, <1>5, <2>1 DEF Sizes
  <1>7. /\ \A k \in 1..d : stack[k].token \in 1..count /\ kinds[stack[k].token] = stack[k].kind
        /\ \A k, l \in 1..d : k < l => stack[k].token < stack[l].token
        /\ \A i \in 1..count : tokens[i].end = 0 <=> \E k \in 1..d : stack[k].token = i
        /\ \A i \in 1..count : IF kinds[i] = "none" THEN tokens[i].type \in {"String", "Primitive"}
                                                    ELSE tokens[i].type = kinds[i]
    BY DEF Mirror, Nesting
  <1>8. \A i \in 1..count' : i \in 1..count \/ i = count + 1
    BY <1>1
  <1>9. 1..count \subseteq 1..count' /\ count + 1 \notin 1..count
    BY <1>1
  <1>10. Nesting'
    <2>1. \A k \in 1..d : stack[k].token \in 1..count' /\ kinds'[stack[k].token] = stack[k].kind
      BY <1>4, <1>7, <1>9
    <2>2. \A i \in 1..count' : tokens'[i].end = 0 <=> \E k \in 1..d : stack[k].token = i
      BY <1>3, <1>7, <1>8, <1>9
    <2>3. \A i \in 1..count' : IF kinds'[i] = "none" THEN tokens'[i].type \in {"String", "Primitive"}
                                                     ELSE tokens'[i].type = kinds'[i]
      BY <1>3, <1>4, <1>7, <1>8
    <2> QED  BY <1>2, <1>7, <2>1, <2>2, <2>3 DEF Nesting
  <1> DEFINE NewHolder(k, q) ==
               IF k = 0 THEN q = 0
               ELSE IF stack[k].kind = "Array" THEN q = stack[k].token
               ELSE q \in 1..count' /\ tokens'[q].type = "String" /\ tokens'[q].parent = stack[k].token
  <1>11. ASSUME NEW k \in 1..d
         PROVE  NewHolder(k - 1, tokens'[stack[k].token].parent)
    <2>1. Holder(k - 1, tokens[stack[k].token].parent)
      BY DEF Mirror, Supers
    <2>2. tokens'[stack[k].token].parent = tokens[stack[k].token].parent
      BY <1>3, <1>7
    <2> QED  BY <1>3, <1>9, <2>1, <2>2 DEF Holder
  <1>12. Supers'
    <2>1. count' # 0 /\ count' \in Nat
      BY <1>1
    <2>2. \A k \in 1..Len(stack') : Holder(k - 1, tokens[stack[k].token].parent)'
      BY <1>2, <1>11 DEF Holder
    <2>3. tokens'[count'].type = "String" /\ tokens'[count'].parent = Top'.token
          /\ Raw(count)' = key'[Len(stack')] /\ toksuper' = Top'.token
      BY <1>1, <1>2, <1>3, <1>5 DEF Raw
    <2> QED  BY <1>2, <2>1, <2>2, <2>3 DEF Supers
  <1>13. Expected'
    BY <1>2 DEF Expected
  <1>14. Waiting' /\ ~Waiting
    BY <1>2 DEF Waiting, KeyMove
  <1>15. Listed'
    <2>1. ASSUME NEW m \in 1..n
          PROVE  Stored(members[m])'
      <3>1. Stored(members[m])
        BY DEF Mirror, Listed
      <3> QED  BY <1>2, <1>3, <1>4, <1>9, <3>1 DEF Stored, Raw
    <2>2. \A m, l \in 1..n : m < l => members[m].value < members[l].value
      BY DEF Mirror, Listed
    <2>3. ASSUME NEW j \in 1..count', tokens'[j].parent # 0
          PROVE  /\ kinds'[tokens'[j].parent] = "Array" =>
                      \E m \in 1..n : members[m].holder = tokens'[j].parent /\ members[m].value = j
                 /\ kinds'[tokens'[j].parent] = "Object" =>
                      /\ tokens'[j].type = "String"
                      /\ \/ \E m \in 1..n :
                              members[m].holder = tokens'[j].parent /\ members[m].value = j + 1
                         \/ j = count'
      <3>1. CASE j \in 1..count
        <4>1. tokens'[j].parent = tokens[j].parent /\ tokens'[j].type = tokens[j].type
          BY <1>3, <3>1
        <4>2. tokens[j].parent \in 1..count
          BY <1>1, <2>3, <3>1, <4>1
        <4>3. kinds'[tokens[j].parent] = kinds[tokens[j].parent]
          BY <1>4, <4>2
        <4> QED  BY <1>14, <2>3, <3>1, <4>1, <4>3 DEF Mirror, Listed
      <3>2. CASE j = count + 1
        <4>1. tokens'[j].parent = Top.token /\ kinds'[Top.token] = "Object"
          BY <1>2, <1>3, <1>4, <1>7, <3>2 DEF Top
        <4> QED  BY <1>1, <1>3, <3>2, <4>1
      <3> QED  BY <1>8, <3>1, <3>2
    <2> QED  BY <1>2, <1>14, <2>1, <2>2, <2>3 DEF Listed
  <1> QED  BY <1>6, <1>10, <1>12, <1>13, <1>15 DEF Mirror

\* Colons and commas only move toksuper.
StillMove(x) ==
  /\ Read(x) /\ UNCHANGED <<tokens, stack, key, count, kinds, members>>
  /\ stack # <<>> /\ toksuper' \in 0..Len(tokens)

LEMMA StillMirror ==
  ASSUME Shape, Mirror, NEW x, StillMove(x), Expected', Waiting' <=> Waiting,
         IF expect' \in {"value", "more", "end"} THEN Holder(Len(stack), toksuper')
                                                 ELSE toksuper' = Top.token,
         Waiting /\ expect' = "value" => toksuper' = count
  PROVE  Mirror'
  <1>1. /\ tokens' = tokens /\ stack' = stack /\ key' = key /\ count' = count /\ kinds' = kinds
        /\ members' = members /\ Top' = Top /\ Len(tokens) = count /\ count \in Nat
    BY SizesIs DEF StillMove, Mirror, Top
  <1>2. \A i \in 1..count : Raw(i)' = Raw(i)
    BY <1>1, RawKept DEF StillMove, Raw
  <1>3. Sizes' /\ Nesting'
    BY <1>1 DEF Mirror, Sizes, Nesting
  <1>4. Supers'
    <2>1. Waiting => count \in 1..count /\ Raw(count)' = Raw(count)
      BY <1>1, <1>2 DEF Mirror, Supers, Raw
    <2>2. \A k \in 1..Len(stack') : Holder(k - 1, tokens[stack[k].token].parent)'
      BY <1>1 DEF Mirror, Supers, Holder
    <2>3. IF expect' \in {"value", "more", "end"} THEN Holder(Len(stack), toksuper)'
                                                  ELSE toksuper' = Top'.token
      BY <1>1 DEF Holder
    <2> QED  BY <1>1, <2>1, <2>2, <2>3 DEF Mirror, Supers
  <1>5. Listed'
    <2>1. ASSUME NEW m \in 1..Len(members)
          PROVE  Stored(members[m])'
      <3>1. Stored(members[m])
        BY DEF Mirror, Listed
      <3> QED  BY <1>1, <1>2, <3>1 DEF Stored, Raw
    <2> QED  BY <1>1, <2>1 DEF Mirror, Listed
  <1> QED  BY <1>3, <1>4, <1>5 DEF Mirror

LEMMA ColonMirror ==
  ASSUME Shape, Mirror, NEW x, StillMove(x), expect = "colon", expect' = "value",
         toksuper' = Len(tokens)
  PROVE  Mirror'
  <1>1. /\ stack' = stack /\ Top' = Top /\ Len(tokens) = count /\ count \in Nat
        /\ stack # <<>> /\ Top.kind = "Object" /\ Len(stack) # 0
    BY SizesIs DEF StillMove, Mirror, Top, Expected
  <1>2. Waiting /\ Waiting'
    BY <1>1 DEF Waiting
  <1>3. count # 0 /\ tokens[count].type = "String" /\ tokens[count].parent = Top.token
    BY <1>2 DEF Mirror, Supers
  <1>4. Holder(Len(stack), count)
    BY <1>1, <1>3 DEF Holder, Top
  <1>5. Expected'
    BY <1>1 DEF Expected
  <1> QED  BY <1>1, <1>2, <1>4, <1>5, StillMirror

LEMMA CommaMirror ==
  ASSUME Shape, Mirror, NEW x, StillMove(x), expect = "more", ParseComma,
         expect' = IF Top.kind = "Object" THEN "key" ELSE "value"
  PROVE  Mirror'
  <1>1. /\ stack' = stack /\ Top' = Top /\ Len(tokens) = count /\ count \in Nat
        /\ stack # <<>> /\ Top.kind \in {"Object", "Array"} /\ Len(stack) # 0
        /\ Len(stack) \in 1..Len(stack)
    BY SizesIs DEF StillMove, Mirror, Top
  <1>2. /\ Top.token \in 1..count /\ kinds[Top.token] = Top.kind
        /\ tokens[Top.token].type = Top.kind
    <2>1. Top.token \in 1..count /\ kinds[Top.token] = Top.kind
      BY <1>1 DEF Mirror, Nesting, Top
    <2> QED  BY <1>1, <2>1 DEF Mirror, Nesting
  <1>3. Holder(Len(stack), toksuper)
    BY DEF Mirror, Supers
  <1>4. ~Waiting /\ ~Waiting'
    BY <1>1 DEF Waiting
  <1>5. Expected'
    BY <1>1 DEF Expected
  <1>6. CASE Top.kind = "Array"
    <2>1. toksuper = Top.token
      BY <1>1, <1>3, <1>6 DEF Holder, Top
    <2>2. toksuper' = toksuper
      BY <1>2, <1>6, <2>1 DEF ParseComma
    <2> QED  BY <1>3, <1>4, <1>5, <1>6, <2>2, StillMirror
  <1>7. CASE Top.kind = "Object"
    <2>1. toksuper \in 1..count /\ tokens[toksuper].type = "String"
          /\ tokens[toksuper].parent = Top.token
      BY <1>1, <1>3, <1>7 DEF Holder, Top
    <2>2. toksuper' = Top.token
      BY <1>1, <2>1 DEF ParseComma
    <2> QED  BY <1>4, <1>5, <1>7, <2>2, StillMirror
  <1> QED  BY <1>1, <1>6, <1>7

LEMMA PopIs ==
  ASSUME NEW S, NEW s \in Seq(S), s # <<>>
  PROVE  /\ Pop(s) \in Seq(S) /\ Len(Pop(s)) = Len(s) - 1
         /\ \A k \in 1..(Len(s) - 1) : Pop(s)[k] = s[k]
  <1>1. Len(s) \in Nat /\ Len(s) # 0
    OBVIOUS
  <1> DEFINE n == Len(s)
  <1>2. n - 1 \in 0..n /\ n - 1 \in Nat
    BY <1>1
  <1>3. Pop(s) = [k \in 1..(n - 1) |-> s[k]]
    BY <1>1, <1>2 DEF Pop
  <1>4. \A k \in 1..(n - 1) : s[k] \in S
    BY <1>1
  <1>5. Pop(s) \in [1..(n - 1) -> S]
    BY <1>3, <1>4
  <1>6. Pop(s) \in Seq(S)
    BY <1>2, <1>5, SeqDef, Zenon
  <1> HIDE DEF n
  <1>7. Len(Pop(s)) = n - 1
    BY <1>2, <1>5, <1>6
  <1> QED  BY <1>3, <1>6, <1>7 DEF n

\* The bracket closes the container on top of the stack.
CloseMove(x) ==
  /\ Read(x) /\ stack # <<>> /\ Ended(Top.token) /\ toksuper' = tokens[Top.token].parent
  /\ expect \in {"more", "key or close", "value or close"} /\ expect' = After(stack')
  /\ stack' = Pop(stack) /\ key' = Pop(key)
  /\ UNCHANGED <<count, kinds, members>>

LEMMA CloseMirror ==
  ASSUME Shape, Mirror, NEW x, CloseMove(x)
  PROVE  Mirror'
  <1> DEFINE d == Len(stack)
  <1>1. /\ d \in Nat /\ d # 0 /\ d \in 1..d /\ d - 1 \in Nat /\ 1..(d - 1) \subseteq 1..d
        /\ Len(tokens) = count /\ count \in Nat
        /\ count' = count /\ kinds' = kinds /\ members' = members
        /\ toksuper' = tokens[Top.token].parent /\ expect' = After(stack')
        /\ stack # <<>> /\ Len(src) \in Nat
    <2>1. /\ d \in Nat /\ d # 0 /\ Len(tokens) = count /\ count \in Nat
          /\ count' = count /\ kinds' = kinds /\ members' = members
          /\ toksuper' = tokens[Top.token].parent /\ expect' = After(stack')
          /\ stack # <<>> /\ Len(src) \in Nat
      BY SizesIs, ShapeIs DEF Mirror, CloseMove
    <2> HIDE DEF d
    <2> QED  BY <2>1
  <1>2. /\ stack' \in Seq(Frames) /\ Len(stack') = d - 1 /\ \A k \in 1..(d - 1) : stack'[k] = stack[k]
        /\ key' \in Seq(Strings \cup {NoKey}) /\ Len(key') = d - 1
    <2>1. /\ stack \in Seq(Frames) /\ key \in Seq(Strings \cup {NoKey}) /\ Len(key) = d
          /\ stack' = Pop(stack) /\ key' = Pop(key) /\ stack # <<>>
      BY SizesIs DEF Mirror, CloseMove
    <2>2. key # <<>>
      BY <1>1, <2>1
    <2> QED  BY <2>1, <2>2, PopIs
  <1>3. /\ \A k \in 1..d : stack[k].token \in 1..count /\ kinds[stack[k].token] = stack[k].kind
        /\ \A k, l \in 1..d : k < l => stack[k].token < stack[l].token
        /\ \A i \in 1..count : tokens[i].end = 0 <=> \E k \in 1..d : stack[k].token = i
        /\ \A i \in 1..count : IF kinds[i] = "none" THEN tokens[i].type \in {"String", "Primitive"}
                                                    ELSE tokens[i].type = kinds[i]
    BY DEF Mirror, Nesting
  <1>4. /\ Len(tokens') = count
        /\ \A i \in 1..count : /\ tokens'[i].type = tokens[i].type
                               /\ tokens'[i].parent = tokens[i].parent
                               /\ tokens'[i].end = IF i = Top.token THEN Len(src) + 2 ELSE tokens[i].end
                               /\ src'[tokens'[i].start] = Raw(i)
    <2>1. \A i \in 1..count : src'[tokens'[i].start] = Raw(i)
      BY <1>1, RawKept DEF CloseMove, Ended
    <2> QED  BY <1>1, <2>1 DEF CloseMove, Ended
  <1>5. ~Waiting /\ ~Waiting'
    BY DEF CloseMove, Waiting, After
  <1>6. Sizes'
    <2>1. members \in Seq([holder : Nat, key : Strings \cup {NoKey}, value : Nat])
          /\ kinds \in Seq(Kinds) /\ Len(kinds) = count
      BY DEF Mirror, Sizes
    <2> QED  BY <1>1, <1>2, <1>4, <2>1 DEF Sizes, Frames
  <1>7. Nesting'
    <2> HIDE DEF d
    <2>1. \A k \in 1..Len(stack') : stack'[k].token \in 1..count /\ kinds[stack'[k].token] = stack'[k].kind
      BY <1>1, <1>2, <1>3
    <2>2. \A k, l \in 1..Len(stack') : k < l => stack'[k].token < stack'[l].token
      BY <1>1, <1>2, <1>3
    <2>3. ASSUME NEW i \in 1..count
          PROVE  tokens'[i].end = 0 <=> \E k \in 1..Len(stack') : stack'[k].token = i
      <3>1. Top = stack[d]
        BY DEF Top, d
      <3>2. CASE i = Top.token
        <4>1. tokens'[i].end # 0
          BY <1>1, <1>4, <3>2
        <4>2. \A k \in 1..(d - 1) : stack[k].token < stack[d].token /\ stack[d].token \in Nat
          BY <1>1, <1>3
        <4>3. \A k \in 1..(d - 1) : stack[k].token # i
          BY <1>1, <1>3, <3>1, <3>2, <4>2
        <4> QED  BY <1>2, <4>1, <4>3
      <3>3. CASE i # Top.token
        <4>1. tokens'[i].end = tokens[i].end
          BY <1>4, <3>3
        <4>2. \A k \in 1..d : k \in 1..(d - 1) \/ k = d
          BY <1>1
        <4>3. (\E k \in 1..d : stack[k].token = i) <=> \E k \in 1..(d - 1) : stack[k].token = i
          BY <1>1, <3>1, <3>3, <4>2
        <4>4. (\E k \in 1..(d - 1) : stack[k].token = i) <=> \E k \in 1..Len(stack') : stack'[k].token = i
          BY <1>2
        <4> QED  BY <1>3, <4>1, <4>3, <4>4
      <3> QED  BY <3>2, <3>3
    <2> QED  BY <1>1, <1>3, <1>4, <2>1, <2>2, <2>3 DEF Nesting
  <1> DEFINE NewHolder(k, q) ==
               IF k = 0 THEN q = 0
               ELSE IF stack'[k].kind = "Array" THEN q = stack'[k].token
               ELSE q \in 1..count' /\ tokens'[q].type = "String" /\ tokens'[q].parent = stack'[k].token
  <1>8. ASSUME NEW k \in 0..(d - 1), NEW q, Holder(k, q)
        PROVE  NewHolder(k, q)
    <2>1. k # 0 => k \in 1..(d - 1)
      BY <1>1
    <2> QED  BY <1>1, <1>2, <1>4, <1>8, <2>1 DEF Holder
  <1>9. \A k \in 1..d : Holder(k - 1, tokens[stack[k].token].parent)
    BY DEF Mirror, Supers
  <1>10. Supers'
    <2>1. ASSUME NEW k \in 1..Len(stack')
          PROVE  NewHolder(k - 1, tokens'[stack'[k].token].parent)
      <3>1. k \in 1..d /\ k \in 1..(d - 1) /\ k - 1 \in 0..(d - 1)
        BY <1>1, <1>2
      <3> HIDE DEF NewHolder, d
      <3> QED  BY <1>2, <1>3, <1>4, <1>8, <1>9, <3>1
    <2>2. NewHolder(Len(stack'), toksuper')
      <3>1. d - 1 \in 0..(d - 1) /\ Holder(d - 1, toksuper')
        BY <1>1, <1>9 DEF Top
      <3> HIDE DEF NewHolder, d
      <3> QED  BY <1>2, <1>8, <3>1
    <2>3. expect' \in {"more", "end"}
      BY <1>1 DEF After
    <2> QED  BY <1>5, <2>1, <2>2, <2>3 DEF Supers, Holder
  <1>11. Expected'
    <2>1. count' # 0
      BY <1>1, <1>3
    <2> QED  BY <1>1, <2>1 DEF Expected, After
  <1>12. Listed'
    <2>1. ASSUME NEW m \in 1..Len(members)
          PROVE  Stored(members[m])'
      <3>1. Stored(members[m])
        BY DEF Mirror, Listed
      <3> QED  BY <1>1, <1>4, <3>1 DEF Stored, Raw
    <2> QED  BY <1>1, <1>4, <1>5, <2>1 DEF Mirror, Listed
  <1> QED  BY <1>6, <1>7, <1>10, <1>11, <1>12 DEF Mirror

\* What a turn on a lexeme that continues the document does.
Continues ==
  \/ result' = "running" /\ Mirror' /\ count' <= Capacity
  \/ result' = "NoMemory" /\ count' > Capacity

LEMMA Room ==
  ASSUME Shape, Sizes
  PROVE  /\ Len(tokens) = count /\ count \in Nat /\ count + 1 \in Nat /\ Capacity \in Nat
         /\ count <= Capacity
         /\ Len(src) + 2 \in Nat /\ Len(src) + 2 # 0
         /\ Full => count + 1 > Capacity
         /\ ~Full => count + 1 <= Capacity
  <1>1. /\ Len(tokens) = count /\ count \in Nat /\ Capacity \in Nat /\ Len(src) \in Nat
        /\ Len(tokens) <= Capacity
    BY SizesIs, ShapeIs
  <1>2. Full <=> count >= Capacity
    BY <1>1 DEF Full
  <1> QED  BY <1>1, <1>2

LEMMA OpenContinues ==
  ASSUME Shape, Mirror, result = "running", NEW x, Read(x), NEW type \in {"Object", "Array"},
         expect \in {"value", "value or close"}, ParseOpen(type), Value(type)
  PROVE  Continues /\ count' \in Nat
  <1>1. /\ Begun(type) /\ type \in Kinds /\ type \in Types /\ type # "none"
    BY Begins DEF Mirror, Kinds, Types
  <1>2. Sizes /\ count' = count + 1 /\ count + 1 \in Nat
    BY <1>1, Room DEF Mirror, Begun
  <1>3. CASE Full /\ Fails("NoMemory")
    BY <1>2, <1>3, Room DEF Fails, Continues
  <1>4. CASE ~Full /\ tokens' = Append(Counted, Token(type, 0))
             /\ toksuper' = Len(tokens) + 1 /\ UNCHANGED result
    <2>1. Grown(type, 0)
      BY <1>1, <1>4, Grows
    <2>2. ValueMove(x, type, type, 0)
      BY <1>1, <1>4, <2>1 DEF ValueMove
    <2>3. Mirror'
      BY <2>2, ValueNesting, ValueSupers, ValueListed DEF Mirror
    <2> QED  BY <1>2, <1>4, <2>3, Room DEF Continues
  <1> QED  BY <1>2, <1>3, <1>4 DEF ParseOpen

LEMMA ScalarContinues ==
  ASSUME Shape, Mirror, result = "running", NEW x, Read(x), NEW type \in {"String", "Primitive"},
         expect \in {"value", "value or close"}, ParseScalar(type), Value("none")
  PROVE  Continues /\ count' \in Nat
  <1>1. /\ Begun("none") /\ "none" \in Kinds /\ type \in Types
    BY Begins DEF Mirror, Kinds, Types
  <1>2. /\ Sizes /\ count' = count + 1 /\ count + 1 \in Nat
        /\ Len(src) + 2 \in Nat /\ Len(src) + 2 # 0
    BY <1>1, Room DEF Mirror, Begun
  <1>3. CASE Full /\ Fails("NoMemory")
    BY <1>2, <1>3, Room DEF Fails, Continues
  <1>4. CASE ~Full /\ tokens' = Append(Counted, Token(type, Len(src) + 2))
             /\ UNCHANGED <<toksuper, result>>
    <2>1. Grown(type, Len(src) + 2)
      BY <1>1, <1>2, <1>4, Grows
    <2>2. ValueMove(x, "none", type, Len(src) + 2)
      BY <1>1, <1>2, <1>4, <2>1 DEF ValueMove
    <2>3. Mirror'
      BY <2>2, ValueNesting, ValueSupers, ValueListed DEF Mirror
    <2> QED  BY <1>2, <1>4, <2>3, Room DEF Continues
  <1> QED  BY <1>2, <1>3, <1>4 DEF ParseScalar

LEMMA KeyContinues ==
  ASSUME Shape, Mirror, result = "running", NEW x \in Strings, Read(x),
         expect \in {"key", "key or close"}, ParseScalar("String"),
         key' = [key EXCEPT ![Len(stack)] = x], count' = count + 1,
         kinds' = Append(kinds, "none"), expect' = "colon", UNCHANGED <<stack, members>>
  PROVE  Continues /\ count' \in Nat
  <1>1. Sizes /\ count + 1 \in Nat /\ Len(src) + 2 \in Nat /\ "String" \in Types
    BY Room DEF Mirror, Types
  <1>2. CASE Full /\ Fails("NoMemory")
    BY <1>1, <1>2, Room DEF Fails, Continues
  <1>3. CASE ~Full /\ tokens' = Append(Counted, Token("String", Len(src) + 2))
             /\ UNCHANGED <<toksuper, result>>
    <2>1. Grown("String", Len(src) + 2)
      BY <1>1, <1>3, Grows
    <2>2. KeyMove(x)
      BY <1>3, <2>1 DEF KeyMove
    <2> QED  BY <1>1, <1>3, <2>2, Room, KeyMirror DEF Continues
  <1> QED  BY <1>1, <1>2, <1>3 DEF ParseScalar

LEMMA CloseContinues ==
  ASSUME Shape, Mirror, result = "running", NEW x, Read(x), stack # <<>>,
         NEW type, type = Top.kind, ParseClose(type),
         expect \in {"more", "key or close", "value or close"}, expect' = After(stack'),
         stack' = Pop(stack), key' = Pop(key), UNCHANGED <<count, kinds, members>>
  PROVE  Continues /\ count' \in Nat
  <1> DEFINE d == Len(stack)
             c == Top.token
  <1>1. /\ d \in Nat /\ d \in 1..d /\ Len(tokens) = count /\ count \in Nat /\ count <= Capacity
    <2>1. d \in Nat /\ d # 0 /\ Len(tokens) = count /\ count \in Nat /\ count <= Capacity
      BY SizesIs, Room DEF Mirror
    <2> HIDE DEF d
    <2> QED  BY ONLY <2>1
  <1>2. /\ c \in 1..count /\ c = stack[d].token /\ kinds[c] = Top.kind
    BY <1>1 DEF Mirror, Nesting, Top
  <1>3. tokens[c].type = Top.kind
    <2>1. Top.kind # "none"
      BY <1>1, SizesIs DEF Mirror, Top
    <2> QED  BY <1>2, <2>1 DEF Mirror, Nesting
  <1>4. Unclosed(c)
    BY <1>1, <1>2 DEF Mirror, Nesting, Unclosed
  <1>5. ASSUME NEW i \in 1..count, Innermost(i)
        PROVE  i = c
    <2>1. PICK k \in 1..d : stack[k].token = i
      BY <1>5 DEF Mirror, Nesting, Innermost, Unclosed
    <2>2. k # d => i < c
      <3>1. \A m, l \in 1..d : m < l => stack[m].token < stack[l].token
        BY DEF Mirror, Nesting
      <3> HIDE DEF d, c
      <3>2. k # d => k < d
        BY ONLY <1>1, k \in 1..d
      <3> QED  BY <1>1, <1>2, <2>1, <3>1, <3>2
    <2>3. i < c => c \in (i + 1)..Len(tokens)
      <3> HIDE DEF c
      <3> QED  BY ONLY <1>1, <1>2, i \in 1..count
    <2> QED  BY <1>2, <1>4, <1>5, <2>1, <2>2, <2>3 DEF Innermost
  <1>6. /\ tokens' = [tokens EXCEPT ![c].end = Len(src) + 2]
        /\ toksuper' = tokens[c].parent /\ result' = result
    <2>1. \E i \in 1..Len(tokens) : Unclosed(i)
      BY <1>1, <1>2, <1>4
    <2>2. PICK i \in 1..Len(tokens) :
            /\ Innermost(i)
            /\ \/ tokens[i].type # type /\ Fails("Invalid")
               \/ /\ tokens[i].type = type
                  /\ tokens' = [tokens EXCEPT ![i].end = Len(src) + 2]
                  /\ toksuper' = tokens[i].parent
                  /\ UNCHANGED result
      BY <2>1 DEF ParseClose
    <2>3. i = c
      BY <1>1, <1>5, <2>2
    <2> QED  BY <1>3, <2>2, <2>3
  <1>7. Ended(c)
    BY <1>1, <1>2, <1>6, Ends
  <1>8. CloseMove(x)
    BY <1>6, <1>7 DEF CloseMove
  <1> QED  BY <1>1, <1>6, <1>8, CloseMirror DEF Continues

LEMMA MarksDiffer ==
  ASSUME NEW x \in {"{", "}", "[", "]", ":", ",", "prim"}
  PROVE  x \notin Strings
  BY LexemesDiffer

\* How the two readers move on a lexeme that continues the document.
LEMMA LegalContinues ==
  ASSUME Shape, Mirror, result = "running", NEW x \in Lexemes, Read(x), Legal(x), Refer(x),
         ParseLexeme(x)
  PROVE  Continues /\ count' \in Nat
  <1>0. x \in {"{", "}", "[", "]", ":", ",", "prim"} => x \notin Strings
    BY MarksDiffer
  <1>1. CASE x = "{"
    <2>1. ParseOpen("Object")
      BY <1>1 DEF ParseLexeme
    <2>2. Value("Object") /\ expect \in {"value", "value or close"}
      BY <1>0, <1>1 DEF Refer, Legal
    <2> QED  BY <2>1, <2>2, OpenContinues
  <1>2. CASE x = "["
    <2>1. ParseOpen("Array")
      BY <1>2 DEF ParseLexeme
    <2>2. Value("Array") /\ expect \in {"value", "value or close"}
      BY <1>0, <1>2 DEF Refer, Legal
    <2> QED  BY <2>1, <2>2, OpenContinues
  <1>3. CASE x = "prim"
    <2>1. ParseScalar("Primitive")
      BY <1>3 DEF ParseLexeme
    <2>2. Value("none") /\ expect \in {"value", "value or close"}
      BY <1>0, <1>3 DEF Refer, Legal
    <2> QED  BY <2>1, <2>2, ScalarContinues
  <1>4. CASE x \in Strings
    <2>0. x \notin {"{", "}", "[", "]", ":", ",", "prim"}
      BY <1>4, LexemesDiffer
    <2>1. ParseScalar("String")
      BY <2>0 DEF ParseLexeme
    <2>2. expect \in {"value", "value or close", "key", "key or close"}
      BY <1>4, <2>0 DEF Legal
    <2>3. CASE expect \in {"value", "value or close"}
      <3>1. Value("none")
        BY <2>0, <2>3 DEF Refer
      <3> QED  BY <2>1, <2>3, <3>1, ScalarContinues
    <2>4. CASE expect \in {"key", "key or close"}
      <3>1. /\ key' = [key EXCEPT ![Len(stack)] = x] /\ count' = count + 1
            /\ kinds' = Append(kinds, "none") /\ expect' = "colon" /\ UNCHANGED <<stack, members>>
        BY <2>0, <2>4 DEF Refer
      <3> QED  BY <1>4, <2>1, <2>4, <3>1, KeyContinues
    <2> QED  BY <2>2, <2>3, <2>4
  <1>5. Len(tokens) = count /\ count \in Nat /\ count <= Capacity
    BY Room DEF Mirror
  <1>6. CASE x = ":"
    <2>1. ParseColon
      BY <1>6 DEF ParseLexeme
    <2>2. expect = "colon"
      BY <1>0, <1>6 DEF Legal
    <2>3. expect' = "value" /\ UNCHANGED <<stack, key, count, kinds, members>>
      BY <1>0, <1>6 DEF Refer
    <2>4. StillMove(x) /\ toksuper' = Len(tokens)
      BY <1>5, <2>1, <2>2, <2>3 DEF StillMove, ParseColon, Mirror, Expected
    <2> QED  BY <1>5, <2>1, <2>2, <2>3, <2>4, ColonMirror DEF Continues, ParseColon
  <1>7. CASE x = ","
    <2>1. ParseComma
      BY <1>7 DEF ParseLexeme
    <2>2. expect = "more"
      BY <1>0, <1>7 DEF Legal
    <2>3. /\ expect' = IF Top.kind = "Object" THEN "key" ELSE "value"
          /\ UNCHANGED <<stack, key, count, kinds, members>>
      BY <1>0, <1>7 DEF Refer
    <2>4. StillMove(x)
      <3>1. stack # <<>> /\ tokens' = tokens
        BY <2>1, <2>2 DEF Mirror, Expected, ParseComma
      <3>2. toksuper' \in 0..Len(tokens)
        BY <2>1, ShapeIs DEF ParseComma
      <3> QED  BY <2>3, <3>1, <3>2 DEF StillMove
    <2> QED  BY <1>5, <2>1, <2>2, <2>3, <2>4, CommaMirror DEF Continues, ParseComma
  <1>8. CASE x \in {"}", "]"}
    <2>1. /\ stack # <<>> /\ expect \in {"more", "key or close", "value or close"}
          /\ x = "}" => Top.kind = "Object"
          /\ x = "]" => Top.kind = "Array"
      BY <1>0, <1>8 DEF Legal
    <2>2. /\ x = "}" => ParseClose("Object")
          /\ x = "]" => ParseClose("Array")
      BY <1>8 DEF ParseLexeme
    <2>3. \E type : type = Top.kind /\ ParseClose(type)
      BY <1>8, <2>1, <2>2
    <2>4. /\ stack' = Pop(stack) /\ key' = Pop(key) /\ expect' = After(stack')
          /\ UNCHANGED <<count, kinds, members>>
      BY <1>0, <1>8 DEF Refer
    <2> QED  BY <2>1, <2>3, <2>4, CloseContinues
  <1> QED  BY <1>1, <1>2, <1>3, <1>4, <1>6, <1>7, <1>8 DEF Lexemes

\* The end of the input finds the stack as the array.
LEMMA EndAgrees ==
  ASSUME Shape, Mirror
  PROVE  /\ Outcome \in {"Partial", "Invalid", "Ok"}
         /\ Outcome = "Partial" => expect # "end"
         /\ Outcome = "Invalid" => src = <<>>
         /\ Outcome = "Ok" => expect = "end"
  <1>1. /\ Len(tokens) = count /\ count \in Nat /\ Len(stack) \in Nat
        /\ stack = <<>> <=> Len(stack) = 0
        /\ tokens = <<>> <=> count = 0
    BY SizesIs, ShapeIs DEF Mirror
  <1>2. (\E i \in 1..count : Unclosed(i)) <=> stack # <<>>
    <2>1. \A i \in 1..count : Unclosed(i) <=> \E k \in 1..Len(stack) : stack[k].token = i
      BY DEF Mirror, Nesting, Unclosed
    <2>2. \A k \in 1..Len(stack) : stack[k].token \in 1..count
      BY DEF Mirror, Nesting
    <2>3. stack # <<>> <=> \E k \in 1..Len(stack) : TRUE
      BY <1>1
    <2> QED  BY <2>1, <2>2, <2>3
  <1>3. Outcome = IF stack # <<>> THEN "Partial" ELSE IF count = 0 THEN "Invalid" ELSE "Ok"
    BY <1>1, <1>2 DEF Outcome
  <1> QED  BY <1>1, <1>3 DEF Mirror, Expected

LEMMA AgreeStep ==
  ASSUME Shape, Agree, [JsonNext]_jsonVars
  PROVE  Agree'
  <1>1. ASSUME NEW x \in Lexemes, Turn(x)
        PROVE  Agree'
    <2>1. result = "running" /\ ParseLexeme(x) /\ Read(x)
      BY <1>1, Reads, ShapeIs DEF Turn, Input
    <2>2. CASE Legal(x) /\ Refer(x)
      <3>1. viable = TRUE /\ viable' = TRUE
        BY <2>2 DEF Legal, Refer, Agree
      <3>2. Mirror
        BY <2>1, <3>1 DEF Agree
      <3>3. Continues /\ count' \in Nat /\ Capacity \in Nat
        BY <2>1, <2>2, <3>2, LegalContinues, CapacityNat
      <3>4. ~(count' <= Capacity /\ count' > Capacity)
        BY <3>3
      <3> QED  BY <3>1, <3>3, <3>4 DEF Agree, Continues
    <2>3. CASE viable' = FALSE /\ count' = count
      BY <2>3 DEF Agree
    <2> QED  BY <1>1, <2>2, <2>3 DEF Turn, Input
  <1>2. CASE Malformed
    <2>1. PICK verdict \in {"Invalid", "Partial"} :
            /\ result' = verdict
            /\ viable' = (verdict = "Partial" /\ \E s \in Strings : Legal(s))
      BY <1>2 DEF Malformed, Fails
    <2>2. result = "running" /\ UNCHANGED <<src, expect, count>>
      BY <1>2 DEF Malformed
    <2>3. viable' \in BOOLEAN /\ count' \in Nat
      BY <2>1, <2>2 DEF Agree
    <2>4. CASE viable'
      <3>1. PICK s \in Strings : Legal(s)
        BY <2>1, <2>4
      <3>2. viable /\ expect # "end" /\ result' = "Partial"
        BY <2>1, <2>4, <3>1, LexemesDiffer DEF Legal
      <3>3. ~(count' > Capacity)
        BY <2>2, <3>2 DEF Agree
      <3> QED  BY <2>2, <2>3, <3>2, <3>3 DEF Agree
    <2> QED  BY <2>3, <2>4 DEF Agree
  <1>5. CASE EndInPrimitive
    <2>1. result = "running" /\ result' = "Partial" /\ src' = Append(src, "prim")
      BY <1>5 DEF EndInPrimitive, Input, Fails
    <2>2. CASE Legal("prim") /\ Refer("prim")
      <3>0. "prim" \notin Strings
        BY MarksDiffer
      <3>1. viable = TRUE /\ viable' = TRUE
        BY <2>2 DEF Legal, Refer, Agree
      <3>2. Mirror
        BY <2>1, <3>1 DEF Agree
      <3>3. count' = count + 1 /\ expect' = After(stack) /\ expect \in {"value", "value or close"}
        <4>1. Value("none") /\ expect \in {"value", "value or close"}
          BY <2>2, <3>0 DEF Refer, Legal
        <4> QED  BY <4>1 DEF Value
      <3>4. expect' = "end" => src' = <<"prim">>
        <4>1. SUFFICES ASSUME stack = <<>> PROVE src' = <<"prim">>
          BY <3>3 DEF After
        <4>2. src = <<>>
          BY <3>2, <3>3, <4>1 DEF Mirror, Expected
        <4>3. Append(<<>>, "prim") = <<"prim">>
          OBVIOUS
        <4> QED  BY <2>1, <4>2, <4>3
      <3>5. count' \in Nat
        <4>1. count \in Nat
          BY DEF Agree
        <4>2. count' = count + 1
          BY <3>3
        <4> QED  BY <4>1, <4>2
      <3> QED  BY <2>1, <3>1, <3>4, <3>5 DEF Agree
    <2>3. CASE viable' = FALSE /\ count' = count
      BY <2>3 DEF Agree
    <2> QED  BY <1>5, <2>2, <2>3 DEF EndInPrimitive, Input
  <1>3. CASE End
    <2>1. result = "running" /\ result' = Outcome /\ UNCHANGED <<src, tokens, toksuper, reference>>
      BY <1>3 DEF End
    <2>2. Mirror' = Mirror
      BY <2>1 DEF reference, Mirror, Sizes, Nesting, Supers, Expected, Listed, Holder, Stored,
                  Waiting, Top, Raw
    <2>3. viable' = viable /\ expect' = expect /\ stack' = stack /\ count' = count /\ src' = src
      BY <2>1 DEF reference
    <2>4. CASE viable
      <3>1. Mirror /\ ~(count > Capacity)
        BY <2>1, <2>4 DEF Agree
      <3> QED  BY <2>1, <2>2, <2>3, <3>1, EndAgrees DEF Agree
    <2>5. CASE ~viable
      BY <2>3, <2>5 DEF Agree
    <2> QED  BY <2>4, <2>5
  <1>4. CASE UNCHANGED jsonVars
    <2>1. /\ src' = src /\ tokens' = tokens /\ toksuper' = toksuper /\ result' = result
          /\ UNCHANGED reference
      BY <1>4 DEF jsonVars, parse
    <2>2. Mirror' = Mirror
      BY <2>1 DEF reference, Mirror, Sizes, Nesting, Supers, Expected, Listed, Holder, Stored,
                  Waiting, Top, Raw
    <2> QED  BY <2>1, <2>2 DEF reference, Agree
  <1> QED  BY <1>1, <1>2, <1>3, <1>4, <1>5 DEF JsonNext

JsonInv == Shape /\ Agree

LEMMA JsonInvariant == JsonSpec => []JsonInv
  <1>1. JsonInit => JsonInv
    <2> SUFFICES ASSUME JsonInit PROVE JsonInv
      OBVIOUS
    <2>1. /\ tokens = <<>> /\ src = <<>> /\ toksuper = 0 /\ result = "running" /\ Len(<<>>) = 0
          /\ viable = TRUE /\ expect = "value" /\ stack = <<>> /\ key = <<>> /\ count = 0
          /\ kinds = <<>> /\ members = <<>>
      BY DEF JsonInit
    <2>2. 1..0 = {} /\ Capacity \in Nat
      BY CapacityNat
    <2>3. Shape
      BY <2>1, <2>2 DEF Shape, JsonTypeOK
    <2>4. Sizes /\ Nesting /\ Expected /\ Listed /\ ~Waiting
      BY <2>1, <2>2 DEF Sizes, Nesting, Expected, Listed, Waiting
    <2>5. Supers
      BY <2>1, <2>2, <2>4 DEF Supers, Holder
    <2> QED  BY <2>1, <2>2, <2>3, <2>4, <2>5 DEF JsonInv, Agree, Mirror
  <1>2. JsonInv /\ [JsonNext]_jsonVars => JsonInv'
    BY ShapeStep, AgreeStep DEF JsonInv
  <1> QED  BY <1>1, <1>2, PTL DEF JsonSpec

\* Parse's verdict on a JSON document and on the beginning of one, whatever its
\* nesting and length: accepted only when complete, with a token for each of its
\* keys and values; refused for lack of tokens only when it has more than the
\* array; Partial only when it was cut off or is one bare primitive.
THEOREM VerdictsAreRight == JsonSpec => []VerdictIsRight
  <1>1. JsonInv => VerdictIsRight
    BY DEF JsonInv, Agree, Mirror, Sizes, VerdictIsRight, Complete
  <1> QED  BY <1>1, JsonInvariant, PTL

-----------------------------------------------------------------------------
(* The view answers as the document reads                                  *)

\* A set of numbers has a least one.
LEMMA LeastOf ==
  ASSUME NEW T \in SUBSET Nat, T # {}
  PROVE  \E x \in T : \A y \in T : x <= y
<1> DEFINE R == OpToRel(<, Nat)
<1>1. IsWellFoundedOn(R, Nat)
  BY NatLessThanWellFounded
<1>2. \A x, y \in Nat : y < x => <<y, x>> \in R
  BY DEF OpToRel
<1> HIDE DEF R
<1>3. PICK x \in T : \A y \in T : ~(<<y, x>> \in R)
  BY <1>1, WFMin
<1>4. ASSUME NEW y \in T PROVE x <= y
  <2>1. ~(y < x)
    BY <1>2, <1>3
  <2> QED
    BY <2>1
<1> QED
  BY <1>3, <1>4

\* First is the least of a set of numbers.
LEMMA FirstIs ==
  ASSUME NEW T \in SUBSET Nat, NEW x \in T, \A y \in T : x <= y
  PROVE  First(T) = x
  <1>1. First(T) = CHOOSE i \in T : \A j \in T : i <= j
    BY DEF First
  <1>2. First(T) \in T /\ \A j \in T : First(T) <= j
    BY <1>1, Zenon
  <1> DEFINE a == First(T)
  <1>3. a \in Nat /\ x \in Nat /\ a <= x /\ x <= a
    BY <1>2
  <1> HIDE DEF a
  <1>4. a = x
    BY ONLY <1>3
  <1> QED  BY <1>4 DEF a

\* f puts the set H in order.
Increasing(f, H) ==
  /\ f \in [H -> Nat] /\ H \in SUBSET Nat
  /\ \A m, l \in H : m < l => f[m] < f[l]

Image(f, A) == {f[m] : m \in A}

\* The first of what stands for some members stands for the first of them.
LEMMA FirstOfImage ==
  ASSUME NEW H, NEW f, Increasing(f, H), NEW A \in SUBSET H
  PROVE  /\ A = {} => First(Image(f, A)) = 0 /\ First(A) = 0
         /\ A # {} => First(A) \in A /\ First(Image(f, A)) = f[First(A)]
  <1>1. ASSUME A # {}
        PROVE  First(A) \in A /\ First(Image(f, A)) = f[First(A)]
    <2>1. A \in SUBSET Nat
      BY DEF Increasing
    <2>2. PICK x \in A : \A y \in A : x <= y
      BY <1>1, <2>1, LeastOf
    <2>3. First(A) = x
      BY <2>1, <2>2, FirstIs
    <2>4. Image(f, A) \in SUBSET Nat /\ f[x] \in Image(f, A)
      BY DEF Increasing, Image
    <2>5. ASSUME NEW y \in A PROVE f[x] <= f[y]
      <3>1. x = y \/ x < y
        BY <2>1, <2>2
      <3>2. f[x] \in Nat /\ f[y] \in Nat /\ x \in H /\ y \in H
        BY DEF Increasing
      <3>3. x < y => f[x] < f[y]
        BY <3>2 DEF Increasing
      <3> QED  BY <3>1, <3>2, <3>3
    <2>6. \A z \in Image(f, A) : f[x] <= z
      BY <2>5 DEF Image
    <2>7. First(Image(f, A)) = f[x]
      BY <2>4, <2>6, FirstIs
    <2> QED  BY <2>3, <2>7
  <1>2. A = {} => First(Image(f, A)) = 0 /\ First(A) = 0
    BY DEF First, Image
  <1> QED  BY <1>1, <1>2

\* As many stand for some members as there are.
LEMMA SizeOfImage ==
  ASSUME NEW H, NEW f, Increasing(f, H), NEW A \in SUBSET H, IsFiniteSet(A)
  PROVE  Cardinality(Image(f, A)) = Cardinality(A)
  <1> DEFINE g == [m \in A |-> f[m]]
             B == Image(f, A)
  <1>1. g \in [A -> B] /\ \A b \in B : \E m \in A : g[m] = b
    BY DEF Image
  <1>2. ASSUME NEW m \in A, NEW l \in A, g[m] = g[l] PROVE m = l
    <2>1. m \in Nat /\ l \in Nat /\ m \in H /\ l \in H /\ f[m] \in Nat /\ f[l] \in Nat
      BY DEF Increasing
    <2>2. (m < l => f[m] < f[l]) /\ (l < m => f[l] < f[m])
      BY <2>1 DEF Increasing
    <2>3. f[m] = f[l]
      BY <1>2
    <2> QED  BY <2>1, <2>2, <2>3
  <1>3. DOMAIN g = A
    OBVIOUS
  <1> HIDE DEF g, B
  <1>4. g \in Bijection(A, B)
    BY <1>1, <1>2, <1>3 DEF Bijection, Injection, Surjection, IsInjective
  <1>5. ExistsBijection(A, B)
    BY <1>4 DEF ExistsBijection
  <1> QED  BY <1>5, FS_Bijection DEF B

\* The members of a container, and the child that stands for each: the value
\* of an element, the key of a member.
HeldBy(c) == {m \in 1..Len(members) : members[m].holder = c}

Place(c) ==
  [m \in HeldBy(c) |-> IF kinds[c] = "Array" THEN members[m].value ELSE members[m].value - 1]

LEMMA Placed ==
  ASSUME Shape, Mirror, expect = "end", NEW c \in 1..count, kinds[c] # "none"
  PROVE  /\ tokens[c].type = kinds[c] /\ kinds[c] \in {"Object", "Array"}
         /\ IsFiniteSet(HeldBy(c))
         /\ Increasing(Place(c), HeldBy(c))
         /\ Image(Place(c), HeldBy(c)) = Children(c)
         /\ \A m \in HeldBy(c) :
              /\ Place(c)[m] \in Children(c) /\ members[m].value \in 1..count
              /\ kinds[c] = "Array" => Place(c)[m] = members[m].value /\ members[m].key = NoKey
              /\ kinds[c] = "Object" => /\ Place(c)[m] = members[m].value - 1
                                        /\ tokens[Place(c)[m]].type = "String"
                                        /\ Raw(Place(c)[m]) = members[m].key
  <1> DEFINE n == Len(members)
             H == HeldBy(c)
             f == Place(c)
  <1>1. /\ count \in Nat /\ n \in Nat /\ Len(tokens) = count
        /\ \A m \in 1..n : members[m].value \in Nat
        /\ kinds[c] \in Kinds
    BY SizesIs DEF Mirror
  <1>2. tokens[c].type = kinds[c] /\ kinds[c] \in {"Object", "Array"}
    BY <1>1 DEF Mirror, Nesting, Kinds
  <1>3. IsFiniteSet(H)
    <2>1. IsFiniteSet(1..n) /\ H \subseteq 1..n
      BY <1>1, FS_Interval DEF HeldBy
    <2> QED  BY <2>1, FS_Subset
  <1>4. ~Waiting
    BY DEF Waiting
  <1>5. Children(c) = {j \in 1..count : tokens[j].parent = c}
    BY <1>1 DEF Children
  <1>6. ASSUME NEW m \in H
        PROVE  /\ m \in 1..n /\ members[m].holder = c /\ members[m].value \in 1..count
               /\ f[m] = IF kinds[c] = "Array" THEN members[m].value ELSE members[m].value - 1
               /\ f[m] \in 1..count /\ tokens[f[m]].parent = c
               /\ kinds[c] = "Array" => members[m].key = NoKey
               /\ kinds[c] = "Object" => Raw(f[m]) = members[m].key
    <2>1. m \in 1..n /\ members[m].holder = c
      BY DEF HeldBy
    <2>2. Stored(members[m])
      BY <2>1 DEF Mirror, Listed
    <2>3. f[m] = IF kinds[c] = "Array" THEN members[m].value ELSE members[m].value - 1
      BY DEF Place
    <2> HIDE DEF f, H
    <2>4. CASE kinds[c] = "Array"
      BY <1>1, <2>1, <2>2, <2>3, <2>4 DEF Stored
    <2>5. CASE kinds[c] = "Object"
      BY <1>1, <2>1, <2>2, <2>3, <2>5 DEF Stored
    <2> QED  BY <1>2, <2>4, <2>5
  <1>7. ASSUME NEW j \in Children(c)
        PROVE  /\ \E m \in H : f[m] = j
               /\ kinds[c] = "Object" => tokens[j].type = "String"
    <2>1. /\ j \in 1..count /\ tokens[j].parent = c /\ tokens[j].parent # 0
      BY <1>1, <1>5
    <2>2. /\ kinds[c] = "Array" => \E m \in 1..n : members[m].holder = c /\ members[m].value = j
          /\ kinds[c] = "Object" =>
               /\ tokens[j].type = "String"
               /\ \E m \in 1..n : members[m].holder = c /\ members[m].value = j + 1
      BY <1>4, <2>1 DEF Mirror, Listed
    <2>3. \A m \in 1..n : members[m].holder = c => m \in H
      BY DEF HeldBy
    <2>4. (j + 1) - 1 = j
      BY <1>1, <2>1
    <2> HIDE DEF f, H, n
    <2> QED  BY <1>2, <1>6, <2>2, <2>3, <2>4
  <1>8. Increasing(f, H)
    <2>1. f \in [H -> Nat]
      <3>1. \A m \in H : f[m] \in Nat
        BY <1>1, <1>6
      <3>2. f = [m \in H |-> f[m]]
        BY DEF Place
      <3> HIDE DEF f, H
      <3> QED  BY <3>1, <3>2
    <2>2. H \in SUBSET Nat
      BY <1>1 DEF HeldBy
    <2>3. ASSUME NEW m \in H, NEW l \in H, m < l PROVE f[m] < f[l]
      <3>1. members[m].value < members[l].value
        BY <1>6, <2>3 DEF Mirror, Listed
      <3>2. members[m].value \in Nat /\ members[l].value \in Nat
        BY <1>1, <1>6
      <3>3. /\ f[m] = IF kinds[c] = "Array" THEN members[m].value ELSE members[m].value - 1
            /\ f[l] = IF kinds[c] = "Array" THEN members[l].value ELSE members[l].value - 1
        BY <1>6
      <3> HIDE DEF f, H
      <3> QED  BY ONLY <3>1, <3>2, <3>3
    <2> HIDE DEF f, H
    <2> QED  BY <2>1, <2>2, <2>3 DEF Increasing
  <1>9. \A m \in H : f[m] \in Children(c)
    <2> HIDE DEF f, H
    <2> QED  BY <1>5, <1>6
  <1>10. Image(f, H) = Children(c)
    <2> HIDE DEF f, H
    <2> QED  BY <1>7, <1>9 DEF Image
  <1> HIDE DEF f, H, n
  <1>11. \A m \in H :
           /\ f[m] \in Children(c) /\ members[m].value \in 1..count
           /\ kinds[c] = "Array" => f[m] = members[m].value /\ members[m].key = NoKey
           /\ kinds[c] = "Object" => /\ f[m] = members[m].value - 1
                                     /\ tokens[f[m]].type = "String"
                                     /\ Raw(f[m]) = members[m].key
    BY <1>6, <1>7, <1>9
  <1> QED  BY <1>2, <1>3, <1>8, <1>10, <1>11 DEF f, H

\* The first of the members in A, and 0 when there is none.
FirstValue(A) == IF A = {} THEN 0 ELSE members[First(A)].value

LEMMA SizeReads ==
  ASSUME Shape, Mirror, expect = "end", NEW c \in 1..count, kinds[c] # "none"
  PROVE  SizeOf(c) = Cardinality(HeldBy(c))
  <1>1. tokens[c].type \in {"Object", "Array"}
    BY Placed
  <1>2. tokens[c].size = Cardinality(Children(c))
    BY ShapeIs, SizesIs DEF Mirror
  <1>3. Cardinality(Image(Place(c), HeldBy(c))) = Cardinality(HeldBy(c))
    <2> DEFINE H == HeldBy(c)
               f == Place(c)
    <2>1. Increasing(f, H) /\ IsFiniteSet(H) /\ H \in SUBSET H
      BY Placed
    <2> HIDE DEF f, H
    <2>2. Cardinality(Image(f, H)) = Cardinality(H)
      BY <2>1, SizeOfImage
    <2> QED  BY <2>2 DEF f, H
  <1> QED  BY <1>1, <1>2, <1>3, Placed DEF SizeOf

LEMMA MemberReads ==
  ASSUME Shape, Mirror, expect = "end", NEW c \in 1..count, kinds[c] # "none", NEW k \in Strings
  PROVE  MemberOf(c, k) = FirstValue({m \in HeldBy(c) : members[m].key = k})
  <1> DEFINE H == HeldBy(c)
             f == Place(c)
             A == {m \in H : members[m].key = k}
             B == {i \in (c + 1)..Len(tokens) :
                     tokens[i].parent = c /\ tokens[i].type = "String" /\ Raw(i) = k}
             hit == First(B)
  <1>1. MemberOf(c, k) = IF tokens[c].type # "Object" \/ hit = 0 \/ hit = Len(tokens) THEN 0 ELSE hit + 1
    BY DEF MemberOf
  <1>2. /\ tokens[c].type = kinds[c] /\ kinds[c] \in {"Object", "Array"}
        /\ Increasing(f, H) /\ Image(f, H) = Children(c)
        /\ \A m \in H :
             /\ f[m] \in Children(c) /\ members[m].value \in 1..count
             /\ kinds[c] = "Array" => f[m] = members[m].value /\ members[m].key = NoKey
             /\ kinds[c] = "Object" => /\ f[m] = members[m].value - 1
                                       /\ tokens[f[m]].type = "String"
                                       /\ Raw(f[m]) = members[m].key
    BY Placed
  <1>3. CASE kinds[c] = "Array"
    <2>1. k # NoKey
      BY LexemesDiffer
    <2>2. A = {}
      BY <1>2, <1>3, <2>1
    <2> QED  BY <1>1, <1>2, <1>3, <2>2 DEF FirstValue
  <1>4. CASE kinds[c] = "Object"
    <2>1. /\ Len(tokens) = count /\ count \in Nat
          /\ \A i \in 1..count : tokens[i].parent \in 0..(i - 1)
      BY ShapeIs, SizesIs DEF Mirror
    <2>2. Children(c) = {j \in 1..count : tokens[j].parent = c}
      BY <2>1 DEF Children
    <2>3. \A j \in Children(c) : j \in (c + 1)..Len(tokens)
      BY <2>1, <2>2
    <2>4. (c + 1)..Len(tokens) \subseteq 1..count
      BY <2>1
    <2>5. B = Image(f, A)
      <3> HIDE DEF f, H
      <3>1. ASSUME NEW i \in B PROVE i \in Image(f, A)
        <4>1. i \in Children(c) /\ Raw(i) = k
          BY <2>2, <2>4
        <4>2. PICK m \in H : f[m] = i
          BY <1>2, <4>1 DEF Image
        <4> QED  BY <1>2, <1>4, <4>1, <4>2 DEF Image
      <3>2. ASSUME NEW m \in A PROVE f[m] \in B
        BY <1>2, <1>4, <2>2, <2>3
      <3> QED  BY <3>1, <3>2 DEF Image
    <2>6. A \in SUBSET H
      OBVIOUS
    <2>7. CASE A = {}
      <3>1. hit = 0
        <4> HIDE DEF f, H, A, B
        <4> QED  BY <1>2, <2>5, <2>6, <2>7, FirstOfImage
      <3> QED  BY <1>1, <2>7, <3>1 DEF FirstValue
    <2>8. CASE A # {}
      <3>1. First(A) \in A /\ hit = f[First(A)]
        <4> HIDE DEF f, H, A, B
        <4> QED  BY <1>2, <2>5, <2>6, <2>8, FirstOfImage
      <3> DEFINE v == members[First(A)].value
      <3>2. hit = v - 1 /\ v \in 1..count /\ hit \in 1..count
        <4>1. First(A) \in H
          BY <3>1
        <4> QED  BY <1>2, <1>4, <2>2, <3>1, <4>1
      <3>3. hit # 0 /\ hit # Len(tokens) /\ hit + 1 = v
        <4> HIDE DEF v, hit
        <4> QED  BY ONLY <2>1, <3>2
      <3>4. MemberOf(c, k) = v
        BY <1>1, <1>2, <1>4, <3>3
      <3> QED  BY <2>8, <3>4 DEF FirstValue
    <2> QED  BY <2>7, <2>8
  <1> QED  BY <1>2, <1>3, <1>4

LEMMA ElementReads ==
  ASSUME Shape, Mirror, expect = "end", NEW c \in 1..count, kinds[c] = "Array", NEW n
  PROVE  ElementOf(c, n) =
           FirstValue({m \in HeldBy(c) : Cardinality({j \in HeldBy(c) : j < m}) = n})
  <1> DEFINE H == HeldBy(c)
             f == Place(c)
             Before(m) == {j \in H : j < m}
             Left(i) == {j \in (c + 1)..(i - 1) : tokens[j].parent = c}
             A == {m \in H : Cardinality(Before(m)) = n}
             B == {i \in (c + 1)..Len(tokens) : tokens[i].parent = c /\ Cardinality(Left(i)) = n}
  <1>1. /\ tokens[c].type = "Array" /\ IsFiniteSet(H)
        /\ Increasing(f, H) /\ Image(f, H) = Children(c)
        /\ \A m \in H : f[m] \in Children(c) /\ f[m] = members[m].value
    BY Placed
  <1>2. ElementOf(c, n) = First(B)
    BY <1>1 DEF ElementOf
  <1>3. /\ Len(tokens) = count /\ count \in Nat
        /\ \A i \in 1..count : tokens[i].parent \in 0..(i - 1)
    BY ShapeIs, SizesIs DEF Mirror
  <1>4. Children(c) = {j \in 1..count : tokens[j].parent = c}
    BY <1>3 DEF Children
  <1>5. \A j \in Children(c) : j \in (c + 1)..Len(tokens) /\ j \in Nat
    BY <1>3, <1>4
  <1>6. \A j \in (c + 1)..Len(tokens) : tokens[j].parent = c => j \in Children(c)
    BY <1>3, <1>4
  <1>7. ASSUME NEW m \in H
        PROVE  Cardinality(Left(f[m])) = Cardinality(Before(m))
    <2>1. Left(f[m]) = Image(f, Before(m))
      <3>1. ASSUME NEW j \in Left(f[m]) PROVE j \in Image(f, Before(m))
        <4>1. f[m] \in (c + 1)..Len(tokens) /\ f[m] \in Nat
          BY <1>1, <1>5
        <4>2. j \in (c + 1)..Len(tokens) /\ tokens[j].parent = c /\ j < f[m] /\ j \in Nat
          <5>1. j \in (c + 1)..(f[m] - 1) /\ tokens[j].parent = c
            OBVIOUS
          <5> QED  BY <1>3, <4>1, <5>1
        <4>3. j \in Children(c)
          BY <1>6, <4>2
        <4>4. PICK l \in H : f[l] = j
          BY <1>1, <4>3 DEF Image
        <4>5. l < m
          <5>1. l \in Nat /\ m \in Nat /\ (m < l => f[m] < f[l])
            BY <1>1 DEF Increasing
          <5> HIDE DEF f
          <5>2. f[l] < f[m] /\ f[l] \in Nat
            BY <4>2, <4>4
          <5>3. ~(m < l) /\ m # l
            BY <4>1, <5>1, <5>2
          <5> QED  BY <5>1, <5>3
        <4> QED  BY <4>4, <4>5 DEF Image
      <3>2. ASSUME NEW l \in Before(m) PROVE f[l] \in Left(f[m])
        <4>1. l \in H /\ l < m
          OBVIOUS
        <4>2. f[l] < f[m]
          BY <1>1, <4>1 DEF Increasing
        <4>3. f[l] \in Children(c) /\ f[l] \in (c + 1)..Len(tokens) /\ f[l] \in Nat /\ f[m] \in Nat
          BY <1>1, <1>5, <4>1
        <4>4. tokens[f[l]].parent = c
          BY <1>4, <4>3
        <4> HIDE DEF f
        <4>5. f[l] \in (c + 1)..(f[m] - 1)
          BY <1>3, <4>2, <4>3
        <4> QED  BY <4>4, <4>5
      <3> HIDE DEF f, Left, Before
      <3> QED  BY <3>1, <3>2 DEF Image
    <2>2. Before(m) \in SUBSET H
      OBVIOUS
    <2>3. IsFiniteSet(Before(m))
      BY <1>1, <2>2, FS_Subset
    <2> HIDE DEF f, H, Left, Before
    <2> QED  BY <1>1, <2>1, <2>2, <2>3, SizeOfImage
  <1>8. B = Image(f, A)
    <2> HIDE DEF f, H, Left, Before
    <2>1. ASSUME NEW i \in B PROVE i \in Image(f, A)
      <3>1. i \in Children(c) /\ Cardinality(Left(i)) = n
        BY <1>6
      <3>2. PICK m \in H : f[m] = i
        BY <1>1, <3>1 DEF Image
      <3>3. m \in A
        BY <1>7, <3>1, <3>2
      <3> QED  BY <3>2, <3>3 DEF Image
    <2>2. ASSUME NEW m \in A PROVE f[m] \in B
      <3>1. m \in H /\ Cardinality(Left(f[m])) = n /\ f[m] \in Children(c)
        BY <1>1, <1>7
      <3> QED  BY <1>4, <1>5, <3>1
    <2> QED  BY <2>1, <2>2 DEF Image
  <1>9. A \in SUBSET H
    OBVIOUS
  <1>10. First(B) = FirstValue(A)
    <2> HIDE DEF f, A, B, H
    <2>1. CASE A = {}
      BY <1>1, <1>8, <1>9, <2>1, FirstOfImage DEF FirstValue
    <2>2. CASE A # {}
      <3>1. First(A) \in H /\ First(B) = f[First(A)]
        BY <1>1, <1>8, <1>9, <2>2, FirstOfImage
      <3> QED  BY <1>1, <2>2, <3>1 DEF FirstValue
    <2> QED  BY <2>1, <2>2
  <1> QED  BY <1>2, <1>10

\* The Json view of an accepted document answers as the document reads: the
\* size of every container, the first member of every name, and the element at
\* every index, for every nesting, every number of members and every capacity.
THEOREM ViewsReadBack == JsonSpec => []ReadsBack
  <1>1. ASSUME JsonInv, Complete, result = "Ok", NEW c \in 1..count, kinds[c] # "none"
        PROVE  /\ tokens[c].type = kinds[c]
               /\ SizeOf(c) = Cardinality(HeldBy(c))
               /\ \A k \in Strings :
                    MemberOf(c, k) = FirstValue({m \in HeldBy(c) : members[m].key = k})
               /\ \A n \in 0..Cardinality(HeldBy(c)) :
                    ElementOf(c, n) =
                      IF kinds[c] # "Array" THEN 0
                        ELSE FirstValue({m \in HeldBy(c) : Cardinality({j \in HeldBy(c) : j < m}) = n})
    <2>1. Shape /\ Mirror /\ expect = "end"
      BY <1>1 DEF JsonInv, Agree, Complete
    <2>2. tokens[c].type = kinds[c]
      BY <1>1, <2>1, Placed
    <2>3. kinds[c] # "Array" => \A n : ElementOf(c, n) = 0
      BY <2>2 DEF ElementOf
    <2> QED  BY <1>1, <2>1, <2>2, <2>3, SizeReads, MemberReads, ElementReads
  <1>2. JsonInv => ReadsBack
    <2> SUFFICES ASSUME JsonInv PROVE ReadsBack
      OBVIOUS
    <2> QED  BY <1>1 DEF ReadsBack, HeldBy, FirstValue
  <1> QED  BY <1>2, JsonInvariant, PTL

-----------------------------------------------------------------------------
(* DemoCli                                                                 *)

\* Outside Execute the locals of install have their initial values; inside it
\* the phases performed are those before the current one.
Locals ==
  /\ pc \notin {"phase", "done"} => fsm = "Idle" /\ phase = 1
  /\ pc = "idle" => index = 1
  /\ phase - 1 = Len(performed)
  /\ \A i \in 1..Len(performed) : performed[i] = Phases[i]
  /\ performed \in Seq({"download", "verify", "install"})

\* The command line's --stop-before is in the pool when install executes, and
\* the loop has not gone past the phase the pool names.
Halting ==
  /\ pc \in {"idle", "help"} => stop = None
  /\ pc \in {"install", "phase"} => stop = None \/ stop = stopBefore
  /\ \A i \in 1..Len(performed) : stop # Phases[i]
  /\ pc = "phase" => \A i \in 1..(phase - 1) : stopBefore # Phases[i]

IInv == TypeOK /\ Locals /\ PhaseInState /\ Halting

LEMMA IInvInit == Init => IInv
<1> SUFFICES ASSUME Init PROVE IInv
  OBVIOUS
<1>1. TypeOK
  <2>1. argv \in Seq(Tokens) /\ Len(argv) = 0
    BY DEF Init
  <2>2. index \in 1..(Len(argv) + 1)
    BY <2>1 DEF Init
  <2>3. fsm \in FsmStates /\ phase \in 1..4
    BY DEF Init, FsmStates
  <2>4. argsOnly \in BOOLEAN
    BY DEF Init
  <2>5. QED
    BY <2>1, <2>2, <2>3, <2>4 DEF Init, TypeOK
<1>2. Locals
  BY DEF Init, Locals
<1>3. PhaseInState
  BY DEF Init, PhaseInState, ExitOk, ExitRebootNeeded
<1>4. Halting
  BY DEF Init, Halting
<1>5. QED
  BY <1>1, <1>2, <1>3, <1>4 DEF IInv

\* Everything before Execute: the parser and the help action.
Parsing ==
  \/ \E args \in Argvs :
       \/ ParseHelp(args) \/ ParseUnknown(args)
       \/ \E cmd \in Commands : ParseCommand(cmd, args) \/ ParseCommandHelp(cmd, args)
  \/ WalkArgument \/ WalkOption \/ WalkRefuse \/ Dispatch \/ HelpExecute

LEMMA ArgvType == Argvs \subseteq Seq(Tokens)
BY DEF Argvs

LEMMA ParsingStep ==
  ASSUME IInv, Parsing
  PROVE  IInv'
<1> USE DEF TypeOK
<1>0. TypeOK /\ Locals /\ PhaseInState /\ Halting
  BY DEF IInv
<1>1. ASSUME NEW args \in Argvs, NEW cmd, Start(cmd, args),
             \/ pc' \in {"help", "walk"} /\ UNCHANGED code
             \/ pc' = "done" /\ code' = ParseError,
             helpFor' \in {None, "known", "unknown"}
      PROVE  IInv'
  <2>1. args \in Seq(Tokens) /\ argv' = args /\ pc = "idle"
    BY <1>1, ArgvType DEF Start
  <2>2. UNCHANGED <<artifact, stopBefore, index, argsOnly, argument, stop, fsm, phase, performed>>
    BY <1>1 DEF Start, install
  <2>3. TypeOK'
    BY <1>0, <1>1, <2>1, <2>2 DEF Locals
  <2>4. QED
    BY <1>0, <1>1, <2>1, <2>2, <2>3 DEF IInv, Locals, PhaseInState, Halting, ParseError, ExitRebootNeeded
<1>2. ASSUME NEW args \in Argvs, ParseHelp(args) PROVE IInv'
  BY <1>0, <1>1, <1>2 DEF ParseHelp, Known
<1>3. ASSUME NEW args \in Argvs, ParseUnknown(args) PROVE IInv'
  BY <1>0, <1>1, <1>3 DEF ParseUnknown, Finish
<1>4. ASSUME NEW args \in Argvs, NEW cmd, ParseCommandHelp(cmd, args) PROVE IInv'
  BY <1>1, <1>4 DEF ParseCommandHelp
<1>5. ASSUME NEW args \in Argvs, NEW cmd, ParseCommand(cmd, args) PROVE IInv'
  BY <1>0, <1>1, <1>5 DEF ParseCommand
<1>6. ASSUME pc = "walk", UNCHANGED <<pool, argv, install>>, index' \in 1..(Len(argv) + 1),
             argsOnly' \in BOOLEAN,
             \/ UNCHANGED <<pc, code>>
             \/ pc' = "done" /\ code' = ParseError
      PROVE  IInv'
  <2>1. TypeOK'
    BY <1>0, <1>6 DEF pool, install
  <2>2. QED
    BY <1>0, <1>6, <2>1 DEF IInv, Locals, PhaseInState, Halting, pool, install, ParseError,
        ExitRebootNeeded
<1>7. CASE WalkArgument
  <2>1. At \in 1..Len(argv)
    BY <1>0, <1>7 DEF WalkArgument, AtArgument, At
  <2>2. ArgsOnly \in BOOLEAN
    BY DEF ArgsOnly, AtDashDash
  <2>3. QED
    BY <1>0, <1>6, <1>7, <2>1, <2>2 DEF WalkArgument, WalkUnchanged, Finish
<1>8. CASE WalkOption
  <2>1. At \in 1..Len(argv)
    BY <1>0, <1>8 DEF WalkOption, AtOption, At
  <2>2. QED
    BY <1>0, <1>6, <1>8, <2>1 DEF WalkOption, WalkUnchanged
<1>9. CASE WalkRefuse
  BY <1>0, <1>6, <1>9 DEF WalkRefuse, WalkUnchanged, Finish
<1>10. CASE Dispatch
  <2>1. /\ UNCHANGED <<helpFor, argv, index, argsOnly, stop, fsm, phase, performed>>
        /\ pc = "walk"
    BY <1>10 DEF Dispatch, parser, install
  <2>2. \/ pc' = "install" /\ UNCHANGED code /\ stopBefore' = IF stop # None THEN stop ELSE stopBefore
        \/ pc' = "done" /\ code' \in {ExitNoUpdate, ExitOk}
    BY <1>10 DEF Dispatch, Finish
  <2>3. TypeOK'
    BY <1>0, <2>1, <2>2
  <2>4. QED
    BY <1>0, <2>1, <2>2, <2>3 DEF IInv, Locals, PhaseInState, Halting, ExitNoUpdate, ExitOk,
        ExitRebootNeeded
<1>11. CASE HelpExecute
  <2>1. /\ UNCHANGED <<helpFor, argv, index, argsOnly, stop, fsm, phase, performed>>
        /\ pc = "help" /\ pc' = "done" /\ code' \in {ExitError, ExitOk}
    BY <1>11 DEF HelpExecute, Finish, pool, parser, install
  <2>2. TypeOK'
    BY <1>0, <2>1
  <2>3. QED
    BY <1>0, <2>1, <2>2 DEF IInv, Locals, PhaseInState, Halting, ExitError, ExitOk,
        ExitRebootNeeded
<1>12. QED
  BY <1>2, <1>3, <1>4, <1>5, <1>7, <1>8, <1>9, <1>10, <1>11 DEF Parsing

-----------------------------------------------------------------------------
(* Execute                                                                 *)

\* The machine follows the phases: Start enters the first one's state, Next
\* leaves it for the following one's.
LEMMA MachineFollows ==
  /\ Receive("Idle", "Start") = "Download"
  /\ Receive("Download", "Next") = "Verify"
  /\ Receive("Verify", "Next") = "Install"
  /\ Receive("Install", "Next") = "AwaitCommit"
BY DEF Receive, OnEvent

LEMMA InstallStep ==
  ASSUME IInv, InstallBegin \/ InstallPhase \/ InstallEnd \/ Return
  PROVE  IInv'
<1>0. TypeOK /\ Locals /\ PhaseInState /\ Halting
  BY DEF IInv
<1> USE DEF TypeOK
<1>1. CASE InstallBegin
  <2>1. /\ pc = "install" /\ UNCHANGED <<pool, parser, phase, performed, calls>>
        /\ \/ pc' = "done" /\ code' = ExitError /\ UNCHANGED fsm
           \/ pc' = "phase" /\ fsm' = "Download" /\ UNCHANGED code
    BY <1>1, MachineFollows DEF InstallBegin, Finish
  <2>2. TypeOK'
    BY <1>0, <2>1 DEF pool, parser, FsmStates
  <2>3. Len(performed) = 0 /\ code # ExitRebootNeeded /\ code' # ExitRebootNeeded
    BY <1>0, <2>1 DEF Locals, PhaseInState, ExitError, ExitRebootNeeded
  <2>4. Locals' /\ Halting'
    BY <1>0, <2>1, <2>3 DEF Locals, Halting, pool, parser
  <2>5. PhaseInState'
    BY <1>0, <2>1, <2>3 DEF Locals, PhaseInState
  <2>6. QED
    BY <2>2, <2>4, <2>5 DEF IInv
<1>2. CASE InstallPhase /\ stopBefore = Phases[phase]
  <2>1. /\ UNCHANGED <<pool, parser, fsm, phase, performed>>
        /\ pc = "phase" /\ pc' = "done" /\ code' = ExitOk
    BY <1>2 DEF InstallPhase, Finish, install
  <2>2. TypeOK'
    BY <1>0, <2>1 DEF pool, parser
  <2>3. QED
    BY <1>0, <2>1, <2>2 DEF IInv, Locals, Halting, PhaseInState, pool, parser, ExitOk,
        ExitRebootNeeded
<1>3. CASE InstallPhase /\ stopBefore # Phases[phase]
  <2>1. /\ UNCHANGED <<pool, parser, pc, code>> /\ pc = "phase"
        /\ performed' = Append(performed, Phases[phase])
        /\ fsm' = Receive(fsm, "Next")
        /\ phase' = phase + 1
        /\ phase \in 1..3 /\ Len(Phases) = 3
    BY <1>0, <1>3 DEF InstallPhase, Phases
  <2>2. fsm' = <<"Download", "Verify", "Install", "AwaitCommit">>[phase'] /\ fsm' \in FsmStates
    BY <1>0, <2>1, MachineFollows DEF PhaseInState, FsmStates
  <2>3. TypeOK'
    BY <1>0, <2>1, <2>2 DEF pool, parser
  <2>4. Phases[phase] \in {"download", "verify", "install"}
    BY <2>1 DEF Phases
  <2>5. /\ Len(performed') = phase /\ performed' \in Seq({"download", "verify", "install"})
        /\ \A i \in 1..Len(performed') :
             performed'[i] = IF i < phase THEN performed[i] ELSE Phases[phase]
    BY <1>0, <2>1, <2>4 DEF Locals
  <2>6. Locals'
    BY <1>0, <2>1, <2>5 DEF Locals
  <2>7. Halting'
    <3>1. stop # Phases[phase]
      BY <1>0, <1>3, <2>1, <2>4 DEF Halting, None
    <3>2. \A i \in 1..phase : stop # Phases[i] /\ stopBefore # Phases[i]
      <4>1. \A i \in 1..(phase - 1) : stop # Phases[i] /\ stopBefore # Phases[i]
        BY <1>0, <2>1 DEF Halting, Locals
      <4>2. \A i \in 1..phase : i = phase \/ i \in 1..(phase - 1)
        BY <2>1
      <4>3. QED
        BY <1>3, <3>1, <4>1, <4>2
    <3>3. QED
      BY <1>0, <2>1, <2>5, <3>2 DEF Halting, pool, parser
  <2>8. code # ExitRebootNeeded
    BY <1>0, <2>1 DEF PhaseInState, Locals, Phases
  <2>9. PhaseInState'
    BY <2>1, <2>2, <2>8 DEF PhaseInState
  <2>10. QED
    BY <2>3, <2>6, <2>7, <2>9 DEF IInv
<1>4. CASE InstallEnd
  <2>1. /\ UNCHANGED <<pool, parser, fsm, phase, performed>>
        /\ pc = "phase" /\ pc' = "done" /\ code' = ExitRebootNeeded
        /\ phase = 4
    BY <1>0, <1>4 DEF InstallEnd, Finish, install, Phases
  <2>2. TypeOK'
    BY <1>0, <2>1 DEF pool, parser
  <2>3. fsm = "AwaitCommit"
    BY <1>0, <2>1 DEF PhaseInState
  <2>4. performed = Phases
    BY <1>0, <2>1 DEF Locals, Phases
  <2>5. QED
    BY <1>0, <2>1, <2>2, <2>3, <2>4 DEF IInv, Locals, Halting, PhaseInState, pool, parser
<1>5. CASE Return
  <2>1. IInv' <=> (TypeOK /\ Locals /\ PhaseInState /\ Halting)'
    BY DEF IInv
  <2>2. argv' \in Seq(Tokens) /\ Len(argv') = 0 /\ Len(performed') = 0
    BY <1>5 DEF Return
  <2>3. argsOnly' \in BOOLEAN
    BY <1>5 DEF Return
  <2>4. TypeOK'
    BY <1>0, <1>5, <2>2, <2>3 DEF Return, pool, FsmStates
  <2>5. (Locals /\ PhaseInState /\ Halting)'
    BY <1>5, <2>2 DEF Return, Locals, PhaseInState, Halting, ExitOk, ExitRebootNeeded
  <2>6. QED
    BY <2>1, <2>4, <2>5
<1>6. QED
  BY <1>1, <1>2, <1>3, <1>4, <1>5

LEMMA IInvStep == IInv /\ [Next]_vars => IInv'
<1> SUFFICES ASSUME IInv, [Next]_vars PROVE IInv'
  OBVIOUS
<1>1. CASE UNCHANGED vars
  BY <1>1 DEF vars, pool, parser, install, IInv, TypeOK, Locals, PhaseInState, Halting
<1>2. CASE Next
  BY <1>2, ParsingStep, InstallStep DEF Next, Parsing
<1>3. QED
  BY <1>1, <1>2

LEMMA IInvAlways == Spec => []IInv
BY IInvInit, IInvStep, PTL DEF Spec

-----------------------------------------------------------------------------
(* The walk and the reading of the command line                            *)

\* The equation of Role has a solution as far as any n.
LEMMA RolesExist ==
  ASSUME NEW s, NEW n \in Nat
  PROVE  \E g : g = [i \in 0..n |-> IF i = 0 THEN "start" ELSE RoleAfter(g[i - 1], s[i])]
<1> DEFINE Solves(g, k) == g = [i \in 0..k |-> IF i = 0 THEN "start" ELSE RoleAfter(g[i - 1], s[i])]
           Missing == {k \in Nat : ~\E g : Solves(g, k)}
<1> SUFFICES ASSUME Missing # {} PROVE FALSE
  OBVIOUS
<1>1. PICK k \in Missing : \A j \in Missing : k <= j
  <2>1. Missing \in SUBSET Nat
    OBVIOUS
  <2> HIDE DEF Missing
  <2> QED
    BY <2>1, LeastOf
<1>2. k \in Nat /\ ~\E g : Solves(g, k)
  OBVIOUS
<1>3. CASE k = 0
  <2> DEFINE g == [i \in 0..0 |-> "start"]
  <2>1. Solves(g, 0)
    OBVIOUS
  <2> QED
    BY <1>2, <1>3, <2>1
<1>4. CASE k # 0
  <2>1. k - 1 \in Nat /\ k - 1 \notin Missing
    BY <1>1, <1>2, <1>4
  <2>2. PICK g : Solves(g, k - 1)
    BY <2>1
  <2> DEFINE h == [i \in 0..k |-> IF i <= k - 1 THEN g[i] ELSE RoleAfter(g[k - 1], s[k])]
  <2>3. ASSUME NEW i \in 0..k
        PROVE  h[i] = IF i = 0 THEN "start" ELSE RoleAfter(h[i - 1], s[i])
    <3>1. CASE i = 0
      BY <1>2, <2>1, <2>2, <3>1
    <3>2. CASE i # 0 /\ i <= k - 1
      <4>1. i - 1 \in 0..(k - 1) /\ i \in 0..(k - 1) /\ h[i] = g[i] /\ h[i - 1] = g[i - 1]
        BY <1>2, <2>1, <3>2
      <4>2. g[i] = RoleAfter(g[i - 1], s[i])
        BY <2>2, <3>2, <4>1
      <4> QED
        BY <3>2, <4>1, <4>2
    <3>3. CASE i = k
      <4>1. k - 1 \in 0..k /\ k \in 0..k /\ ~(k <= k - 1) /\ k - 1 <= k - 1
        BY <1>2, <1>4
      <4>2. h[k] = RoleAfter(g[k - 1], s[k]) /\ h[k - 1] = g[k - 1]
        BY <4>1
      <4> QED
        BY <1>4, <3>3, <4>2
    <3> QED
      BY <1>2, <3>1, <3>2, <3>3
  <2>4. h = [i \in 0..k |-> h[i]]
    OBVIOUS
  <2> HIDE DEF h
  <2>5. Solves(h, k)
    BY <2>3, <2>4
  <2> QED
    BY <1>2, <2>5
<1> QED
  BY <1>3, <1>4

\* Role is what its equation says.
LEMMA RoleIs ==
  ASSUME TypeOK
  PROVE  /\ Role[0] = "start"
         /\ \A i \in 1..Len(argv) : Role[i] = RoleAfter(Role[i - 1], argv[i])
<1>1. Len(argv) \in Nat
  BY DEF TypeOK
<1>2. PICK g : g = [i \in 0..Len(argv) |-> IF i = 0 THEN "start" ELSE RoleAfter(g[i - 1], argv[i])]
  BY <1>1, RolesExist
<1>3. Role = [i \in 0..Len(argv) |-> IF i = 0 THEN "start" ELSE RoleAfter(Role[i - 1], argv[i])]
  BY <1>2, Zenon DEF Role
<1>4. 0 \in 0..Len(argv) /\ \A i \in 1..Len(argv) : i \in 0..Len(argv) /\ i # 0
  BY <1>1
<1> QED
  BY <1>3, <1>4

LEMMA RoleKept == UNCHANGED argv => UNCHANGED Role
BY DEF Role

Words == {"word", "rest"}
Stops == {"value", "inline"}

StopIn(role, args, i) == IF role[i] = "inline" THEN "verify" ELSE args[i]
StopAt(i) == StopIn(Role, argv, i)

\* The first n tokens are in order, arg is the only word among them and halt
\* the value of their last --stop-before.
Holds(role, args, cmd, arg, halt, n) ==
  /\ \A i \in 1..n : /\ role[i] # "bad"
                     /\ role[i] \in {"option", "inline"} => cmd \in {"install", "commit", "rollback"}
  /\ role[n] # "option"
  /\ IF arg = None THEN \A i \in 1..n : role[i] \notin Words
     ELSE \E i \in 1..n : args[i] = arg /\ \A j \in 1..n : role[j] \in Words <=> j = i
  /\ IF halt = None THEN \A i \in 1..n : role[i] \notin Stops
     ELSE \E i \in 1..n : /\ role[i] \in Stops /\ halt = StopIn(role, args, i)
                          /\ \A j \in 1..n : role[j] \in Stops => j <= i

\* The locals of ParseArguments hold what the first n tokens say.
Consumed(n) == Holds(Role, argv, command, argument, stop, n)

\* The walk follows the reading: index_ is behind a token whose role is settled
\* and args_only_ says whether a free "--" is behind it.
Walking ==
  /\ pc = "idle" => index = 1 /\ argsOnly = FALSE /\ argument = None /\ stop = None
  /\ pc = "help" => ~Walked
  /\ pc = "walk" =>
       /\ Walked /\ Consumed(index - 1)
       /\ IF argsOnly THEN Role[index - 1] = "rest"
          ELSE Role[index - 1] \in {"start", "word", "value", "inline"}
  /\ pc \in {"install", "phase"} => Walked /\ Consumed(Len(argv))
  /\ pc = "install" => /\ argument # None => artifact = argument
                       /\ stop # None => stopBefore = stop
  /\ (pc = "done" /\ Walked) =>
       IF code = ParseError THEN ~Reading.wellFormed ELSE Consumed(Len(argv))

LEMMA LastIs ==
  ASSUME NEW S \in SUBSET Nat, NEW i \in S, \A j \in S : j <= i
  PROVE  Last(S) = i
<1>1. Last(S) \in S /\ \A j \in S : j <= Last(S)
  BY DEF Last
<1>2. Last(S) <= i /\ i <= Last(S) /\ Last(S) \in Nat /\ i \in Nat
  BY <1>1
<1> QED
  BY <1>2

LEMMA ReadingIs ==
  ASSUME TypeOK,
         NEW words, words = {i \in 1..Len(argv) : Role[i] \in Words},
         NEW stops, stops = {i \in 1..Len(argv) : Role[i] \in Stops}
  PROVE  /\ Reading.wellFormed <=>
              /\ Cardinality(words) <= 1
              /\ \A i \in 1..Len(argv) : Role[i] # "bad"
              /\ (\E i \in 1..Len(argv) : Role[i] \in {"option", "inline"})
                   => command \in {"install", "commit", "rollback"}
              /\ argv # <<>> => Role[Len(argv)] # "option"
         /\ Reading.argument = IF words = {} THEN None ELSE argv[Last(words)]
         /\ \A i \in stops : (\A j \in stops : j <= i) => Reading.stop = StopAt(i)
         /\ stops = {} => Reading.stop = None
<1> DEFINE role        == [i \in 1..Len(argv) |-> Role[i]]
           With(roles) == {i \in 1..Len(argv) : role[i] \in roles}
           bad         == With({"bad"})
           opts        == With({"option", "inline"})
<1>1. Len(argv) \in Nat /\ (argv # <<>> => Len(argv) \in 1..Len(argv))
  BY DEF TypeOK
<1>2. \A i \in 1..Len(argv) : role[i] = Role[i]
  OBVIOUS
<1>3. With({"word", "rest"}) = words /\ With({"value", "inline"}) = stops
  BY <1>2 DEF Words, Stops
<1>4. /\ bad = {} <=> \A i \in 1..Len(argv) : Role[i] # "bad"
      /\ opts # {} <=> \E i \in 1..Len(argv) : Role[i] \in {"option", "inline"}
  BY <1>2
<1>5. argv # <<>> => role[Len(argv)] = Role[Len(argv)]
  BY <1>1
<1>6. LET w == With({"word", "rest"})
          t == With({"value", "inline"})
      IN  Reading = [ wellFormed |->
                        /\ Cardinality(w) <= 1
                        /\ bad = {}
                        /\ opts # {} => command \in {"install", "commit", "rollback"}
                        /\ argv # <<>> => role[Len(argv)] # "option",
                      argument   |-> IF w = {} THEN None ELSE argv[Last(w)],
                      stop       |-> IF t = {} THEN None
                                     ELSE IF role[Last(t)] = "inline" THEN "verify" ELSE argv[Last(t)] ]
  BY DEF Reading
<1> HIDE DEF With, bad, opts, role
<1>7. Reading = [ wellFormed |->
                    /\ Cardinality(words) <= 1
                    /\ bad = {}
                    /\ opts # {} => command \in {"install", "commit", "rollback"}
                    /\ argv # <<>> => role[Len(argv)] # "option",
                  argument   |-> IF words = {} THEN None ELSE argv[Last(words)],
                  stop       |-> IF stops = {} THEN None
                                 ELSE IF role[Last(stops)] = "inline" THEN "verify" ELSE argv[Last(stops)] ]
  BY <1>3, <1>6
<1>8. /\ Reading.wellFormed = (/\ Cardinality(words) <= 1
                               /\ bad = {}
                               /\ opts # {} => command \in {"install", "commit", "rollback"}
                               /\ argv # <<>> => role[Len(argv)] # "option")
      /\ Reading.argument = IF words = {} THEN None ELSE argv[Last(words)]
      /\ Reading.stop = IF stops = {} THEN None
                        ELSE IF role[Last(stops)] = "inline" THEN "verify" ELSE argv[Last(stops)]
  BY <1>7
<1>9. ASSUME NEW i \in stops, \A j \in stops : j <= i PROVE Reading.stop = StopAt(i)
  <2>1. stops \in SUBSET Nat
    OBVIOUS
  <2>2. Last(stops) = i
    BY <1>9, <2>1, LastIs
  <2>3. stops # {} /\ role[i] = Role[i]
    BY <1>2
  <2> QED
    BY <1>8, <2>2, <2>3 DEF StopAt, StopIn
<1> QED
  BY <1>4, <1>5, <1>8, <1>9

\* A command line consumed to its end is well formed, and the locals hold its
\* argument and its last --stop-before.
LEMMA ConsumedAll ==
  ASSUME TypeOK, Consumed(Len(argv))
  PROVE  Reading.wellFormed /\ Reading.argument = argument /\ Reading.stop = stop
<1> DEFINE words == {i \in 1..Len(argv) : Role[i] \in Words}
           stops == {i \in 1..Len(argv) : Role[i] \in Stops}
<1>1. /\ Reading.wellFormed <=>
              /\ Cardinality(words) <= 1
              /\ \A i \in 1..Len(argv) : Role[i] # "bad"
              /\ (\E i \in 1..Len(argv) : Role[i] \in {"option", "inline"})
                   => command \in {"install", "commit", "rollback"}
              /\ argv # <<>> => Role[Len(argv)] # "option"
      /\ Reading.argument = IF words = {} THEN None ELSE argv[Last(words)]
      /\ \A i \in stops : (\A j \in stops : j <= i) => Reading.stop = StopAt(i)
      /\ stops = {} => Reading.stop = None
  BY ReadingIs
<1>2. \/ words = {} /\ argument = None
      \/ \E i \in 1..Len(argv) : words = {i} /\ argv[i] = argument
  BY DEF Consumed, Holds
<1>3. Cardinality(words) <= 1
  <2> HIDE DEF words
  <2>1. Cardinality(words) = 0 \/ Cardinality(words) = 1
    BY <1>2, FS_EmptySet, FS_Singleton
  <2> QED
    BY <2>1
<1>4. Reading.argument = argument
  <2> HIDE DEF words
  <2>1. CASE words = {} /\ argument = None
    BY <1>1, <2>1
  <2>2. CASE \E i \in 1..Len(argv) : words = {i} /\ argv[i] = argument
    <3>1. PICK i \in 1..Len(argv) : words = {i} /\ argv[i] = argument
      BY <2>2
    <3>2. Last({i}) = i
      <4>1. {i} \in SUBSET Nat /\ i \in {i} /\ \A j \in {i} : j <= i
        OBVIOUS
      <4> QED
        BY <4>1, LastIs
    <3> QED
      BY <1>1, <3>1, <3>2
  <2> QED
    BY <1>2, <2>1, <2>2
<1>5. Reading.stop = stop
  <2>1. CASE stop = None
    BY <1>1, <2>1 DEF Consumed, Holds
  <2>2. CASE stop # None
    <3>1. PICK i \in 1..Len(argv) : /\ Role[i] \in Stops /\ stop = StopAt(i)
                                    /\ \A j \in 1..Len(argv) : Role[j] \in Stops => j <= i
      BY <2>2 DEF Consumed, Holds, StopAt
    <3>2. i \in stops /\ \A j \in stops : j <= i
      BY <3>1
    <3> QED
      BY <1>1, <3>1, <3>2
  <2> QED
    BY <2>1, <2>2
<1>6. Reading.wellFormed
  BY <1>1, <1>3 DEF Consumed, Holds
<1> QED
  BY <1>4, <1>5, <1>6

LEMMA NotWellFormed ==
  ASSUME TypeOK, NEW i \in 1..Len(argv),
         \/ Role[i] = "bad"
         \/ Role[i] \in {"option", "inline"} /\ command \notin {"install", "commit", "rollback"}
         \/ Role[i] = "option" /\ i = Len(argv)
         \/ Role[i] \in Words /\ \E j \in 1..Len(argv) : j # i /\ Role[j] \in Words
  PROVE  ~Reading.wellFormed
<1> DEFINE words == {k \in 1..Len(argv) : Role[k] \in Words}
<1>1. Reading.wellFormed <=>
              /\ Cardinality(words) <= 1
              /\ \A k \in 1..Len(argv) : Role[k] # "bad"
              /\ (\E k \in 1..Len(argv) : Role[k] \in {"option", "inline"})
                   => command \in {"install", "commit", "rollback"}
              /\ argv # <<>> => Role[Len(argv)] # "option"
  BY ReadingIs
<1>2. argv # <<>> /\ Len(argv) \in Nat
  BY DEF TypeOK
<1>3. ASSUME Role[i] \in Words, NEW j \in 1..Len(argv), j # i, Role[j] \in Words
      PROVE  ~(Cardinality(words) <= 1)
  <2>1. i \in words /\ j \in words /\ words \in SUBSET (1..Len(argv))
    BY <1>3
  <2>2. IsFiniteSet(1..Len(argv))
    BY <1>2, FS_Interval
  <2> HIDE DEF words
  <2>3. IsFiniteSet(words)
    BY <2>1, <2>2, FS_Subset
  <2>4. Cardinality(words) \in Nat
    BY <2>3, FS_CardinalityType
  <2>5. Cardinality(words) # 0
    BY <2>1, <2>3, FS_EmptySet
  <2>6. Cardinality(words) # 1
    BY <1>3, <2>1, <2>3, FS_Singleton
  <2> QED
    BY <2>4, <2>5, <2>6
<1> HIDE DEF words
<1> QED
  BY <1>1, <1>2, <1>3

LEMMA HoldsWord ==
  ASSUME NEW role, NEW args, NEW cmd, NEW halt, NEW n \in Nat, NEW m,
         Holds(role, args, cmd, None, halt, n),
         m = n + 1 \/ (m = n + 2 /\ role[n + 1] = "cut"),
         role[m] \in Words, args[m] # None
  PROVE  Holds(role, args, cmd, args[m], halt, m)
<1>1. /\ m \in Nat /\ m \in 1..m /\ ~(m <= n) /\ 1..n \subseteq 1..m
      /\ \A i \in 1..m : i \in 1..n \/ i = m \/ role[i] = "cut"
  OBVIOUS
<1>2. \A i \in 1..m : \/ i \in 1..n
                      \/ i = m /\ role[i] \in {"word", "rest"}
                      \/ i # m /\ role[i] = "cut"
  BY <1>1 DEF Words
<1>3. /\ \A i \in 1..m : /\ role[i] # "bad"
                         /\ role[i] \in {"option", "inline"} => cmd \in {"install", "commit", "rollback"}
      /\ role[m] # "option"
  BY <1>2 DEF Holds, Words
<1>4. \A j \in 1..m : role[j] \in Words <=> j = m
  BY <1>1, <1>2 DEF Holds, Words
<1>5. \A j \in 1..m : role[j] \in Stops => j \in 1..n
  BY <1>2 DEF Stops
<1>6. IF halt = None THEN \A i \in 1..m : role[i] \notin Stops
      ELSE \E i \in 1..m : /\ role[i] \in Stops /\ halt = StopIn(role, args, i)
                           /\ \A j \in 1..m : role[j] \in Stops => j <= i
  BY <1>1, <1>5 DEF Holds
<1> QED
  BY <1>1, <1>3, <1>4, <1>6 DEF Holds

LEMMA HoldsCut ==
  ASSUME NEW role, NEW args, NEW cmd, NEW arg, NEW halt, NEW n \in Nat,
         Holds(role, args, cmd, arg, halt, n), role[n + 1] = "cut"
  PROVE  Holds(role, args, cmd, arg, halt, n + 1)
<1> DEFINE m == n + 1
<1>1. m \in Nat /\ 1..n \subseteq 1..m /\ \A i \in 1..m : i \in 1..n \/ role[i] = "cut"
  OBVIOUS
<1>2. role[m] = "cut"
  OBVIOUS
<1> HIDE DEF m
<1>3. \A i \in 1..m : i \notin 1..n => role[i] \notin {"bad", "option", "inline", "word", "rest", "value"}
  BY <1>1
<1>4. /\ \A i \in 1..m : /\ role[i] # "bad"
                         /\ role[i] \in {"option", "inline"} => cmd \in {"install", "commit", "rollback"}
      /\ role[m] # "option"
  BY <1>2, <1>3 DEF Holds
<1>5. \A i \in 1..m : role[i] \in Words \cup Stops => i \in 1..n
  BY <1>3 DEF Words, Stops
<1>6. IF arg = None THEN \A i \in 1..m : role[i] \notin Words
      ELSE \E i \in 1..m : args[i] = arg /\ \A j \in 1..m : role[j] \in Words <=> j = i
  BY <1>1, <1>5 DEF Holds
<1>7. IF halt = None THEN \A i \in 1..m : role[i] \notin Stops
      ELSE \E i \in 1..m : /\ role[i] \in Stops /\ halt = StopIn(role, args, i)
                           /\ \A j \in 1..m : role[j] \in Stops => j <= i
  BY <1>1, <1>5 DEF Holds
<1>8. Holds(role, args, cmd, arg, halt, m)
  BY <1>4, <1>6, <1>7 DEF Holds
<1> QED
  BY <1>8 DEF m

LEMMA HoldsStop ==
  ASSUME NEW role, NEW args, NEW cmd, NEW arg, NEW old, NEW n \in Nat, NEW m, NEW halt,
         Holds(role, args, cmd, arg, old, n), cmd \in {"install", "commit", "rollback"},
         \/ m = n + 1 /\ role[m] = "inline" /\ halt = "verify"
         \/ m = n + 2 /\ role[n + 1] = "option" /\ role[m] = "value" /\ halt = args[m],
         halt # None
  PROVE  Holds(role, args, cmd, arg, halt, m)
<1>1. /\ m \in Nat /\ m \in 1..m /\ 1..n \subseteq 1..m
      /\ \A i \in 1..m : i \in 1..n \/ i = m \/ role[i] = "option"
  OBVIOUS
<1>2. role[m] \in Stops /\ role[m] \in {"inline", "value"} /\ halt = StopIn(role, args, m)
  BY DEF Stops, StopIn
<1>3. \A i \in 1..m : i \notin 1..n => role[i] \in {"option", "inline", "value"}
  BY <1>1, <1>2
<1>4. /\ \A i \in 1..m : /\ role[i] # "bad"
                         /\ role[i] \in {"option", "inline"} => cmd \in {"install", "commit", "rollback"}
      /\ role[m] # "option"
  BY <1>2, <1>3 DEF Holds
<1>5. \A i \in 1..m : role[i] \in Words => i \in 1..n
  BY <1>3 DEF Words
<1>6. IF arg = None THEN \A i \in 1..m : role[i] \notin Words
      ELSE \E i \in 1..m : args[i] = arg /\ \A j \in 1..m : role[j] \in Words <=> j = i
  BY <1>1, <1>5 DEF Holds
<1>7. \A j \in 1..m : j <= m
  BY <1>1
<1> QED
  BY <1>1, <1>2, <1>4, <1>6, <1>7 DEF Holds

\* What the iterator takes the next token for is its role.
LEMMA NextRole ==
  ASSUME TypeOK, Walking, pc = "walk"
  PROVE  /\ index - 1 \in Nat /\ index \in 1..(Len(argv) + 1) /\ Len(argv) \in Nat
         /\ IF AtDashDash THEN At = index + 1 /\ index <= Len(argv) /\ Role[index] = "cut" ELSE At = index
         /\ AtArgument => At \in 1..Len(argv) /\ Role[At] = IF ArgsOnly THEN "rest" ELSE "word"
         /\ AtOption => /\ At = index /\ index \in 1..Len(argv) /\ argsOnly = FALSE
                        /\ Role[At] = CASE argv[At] = "--stop-before" -> "option"
                                        [] argv[At] = "--stop-before=verify" -> "inline"
                                        [] OTHER -> "bad"
<1>1. index - 1 \in Nat /\ index \in 1..(Len(argv) + 1) /\ Len(argv) \in Nat /\ argsOnly \in BOOLEAN
  BY DEF TypeOK
<1>2. IF argsOnly THEN Role[index - 1] = "rest" ELSE Role[index - 1] \in {"start", "word", "value", "inline"}
  BY DEF Walking
<1>3. \A i \in 1..Len(argv) : Role[i] = RoleAfter(Role[i - 1], argv[i])
  BY RoleIs
<1>4. index <= Len(argv) =>
        Role[index] = IF argsOnly THEN "rest" ELSE RoleAfter("start", argv[index])
  <2> SUFFICES ASSUME index <= Len(argv)
               PROVE  Role[index] = IF argsOnly THEN "rest" ELSE RoleAfter("start", argv[index])
    OBVIOUS
  <2>1. Role[index] = RoleAfter(Role[index - 1], argv[index])
    BY <1>1, <1>3
  <2> QED
    BY <1>2, <2>1 DEF RoleAfter
<1>5. AtDashDash => At = index + 1 /\ index <= Len(argv) /\ Role[index] = "cut"
  BY <1>4 DEF AtDashDash, At, RoleAfter
<1>6. ~AtDashDash => At = index
  BY DEF At
<1>7. ASSUME AtArgument PROVE At \in 1..Len(argv) /\ Role[At] = IF ArgsOnly THEN "rest" ELSE "word"
  <2>1. At \in 1..Len(argv)
    BY <1>1, <1>5, <1>6, <1>7 DEF AtArgument
  <2>2. CASE AtDashDash
    <3>1. Role[At] = RoleAfter(Role[index], argv[At])
      BY <1>1, <1>3, <1>5, <2>1, <2>2
    <3> QED
      BY <1>5, <2>1, <2>2, <3>1 DEF RoleAfter, ArgsOnly
  <2>3. CASE ~AtDashDash
    <3>1. At = index /\ ArgsOnly = argsOnly
      BY <1>1, <1>6, <2>3 DEF ArgsOnly
    <3>2. CASE argsOnly
      BY <1>4, <2>1, <3>1, <3>2
    <3>3. CASE ~argsOnly
      <4>1. ~StartsWithDashDash(argv[index])
        BY <1>7, <3>1, <3>3 DEF AtArgument
      <4>2. RoleAfter("start", argv[index]) = "word"
        BY <4>1 DEF RoleAfter, StartsWithDashDash, Inline
      <4> QED
        BY <1>4, <2>1, <3>1, <3>3, <4>2
    <3> QED
      BY <3>2, <3>3
  <2> QED
    BY <2>1, <2>2, <2>3
<1>8. ASSUME AtOption
      PROVE  /\ At = index /\ index \in 1..Len(argv) /\ argsOnly = FALSE
             /\ Role[At] = CASE argv[At] = "--stop-before" -> "option"
                             [] argv[At] = "--stop-before=verify" -> "inline"
                             [] OTHER -> "bad"
  <2>1. ~AtDashDash /\ argsOnly = FALSE /\ At <= Len(argv) /\ StartsWithDashDash(argv[At])
    BY <1>1, <1>8 DEF AtOption, ArgsOnly
  <2>2. At = index /\ index \in 1..Len(argv) /\ argv[index] # "--"
    BY <1>1, <1>6, <2>1 DEF AtDashDash
  <2>3. Role[At] = RoleAfter("start", argv[At])
    BY <1>4, <2>1, <2>2
  <2> QED
    BY <2>1, <2>2, <2>3 DEF RoleAfter
<1> QED
  BY <1>1, <1>5, <1>6, <1>7, <1>8

\* Which tokens a command takes for its option.
LEMMA OptionIs ==
  /\ Options(command) # {} <=> command \in {"install", "commit", "rollback"}
  /\ OptionName \in Options(command) <=>
       /\ command \in {"install", "commit", "rollback"}
       /\ argv[At] \in {"--stop-before", "--stop-before=verify"}
  /\ "--stop-before=verify" \in DOMAIN Inline /\ "--stop-before" \notin DOMAIN Inline
  /\ Inline["--stop-before=verify"].value = "verify"
<1>1. DOMAIN Inline = {"--stop-before=verify", "--bogus=1"}
  BY DEF Inline
<1>2. Inline["--stop-before=verify"] = [name |-> "--stop-before", value |-> "verify"]
  BY DEF Inline
<1>3. Inline["--bogus=1"] = [name |-> "--bogus", value |-> "1"]
  BY DEF Inline
<1>4. Options(command) = IF command \in {"install", "commit", "rollback"} THEN {"--stop-before"} ELSE {}
  BY DEF Options
<1>5. /\ argv[At] = "--stop-before=verify" => OptionName = "--stop-before"
      /\ argv[At] = "--bogus=1" => OptionName = "--bogus"
      /\ argv[At] \notin {"--stop-before=verify", "--bogus=1"} => OptionName = argv[At]
  BY <1>1, <1>2, <1>3 DEF OptionName
<1> QED
  BY <1>1, <1>2, <1>4, <1>5

LEMMA ReadingKept == UNCHANGED <<argv, command>> => UNCHANGED <<Role, Reading, Walked>>
BY RoleKept DEF Reading, Walked

LEMMA FirstRole == TypeOK => Role[0] = "start"
BY RoleIs

LEMMA FirstRoleNext == TypeOK' => (Role[0] = "start")'
BY FirstRole, PTL

LEMMA WalkingInit == Init => Walking
BY DEF Init, Walking

\* The steps behind the walk: the command line stays as it is.
LEMMA WalkingKept ==
  ASSUME Walking, UNCHANGED <<command, argv, argument, stop>>,
         \/ pc = "install" /\ pc' \in {"phase", "done"}
         \/ pc = "phase" /\ pc' \in {"phase", "done"}
         \/ pc = "help" /\ pc' = "done",
         pc' = "done" => code' # ParseError
  PROVE  Walking'
<1>1. UNCHANGED <<Role, Reading, Walked>>
  BY ReadingKept
<1>2. Consumed(Len(argv))' = Consumed(Len(argv))
  BY <1>1 DEF Consumed
<1> QED
  BY <1>1, <1>2 DEF Walking

LEMMA WalkingBegins ==
  ASSUME Walking, TypeOK', NEW args, NEW cmd, Start(cmd, args),
         \/ pc' = "walk" /\ cmd \in Commands /\ \A i \in 1..Len(args) : ~IsHelpFlag(args[i])
         \/ pc' \in {"help", "done"} /\ cmd \notin Commands
         \/ pc' = "help" /\ \E i \in 1..Len(args) : IsHelpFlag(args[i])
  PROVE  Walking'
<1>1. /\ command' = cmd /\ argv' = args /\ index' = 1 /\ argsOnly' = FALSE
      /\ argument' = None /\ stop' = None
  BY DEF Start, Walking
<1>2. Role'[0] = "start"
  BY FirstRoleNext
<1>3. Walked' <=> cmd \in Commands /\ \A i \in 1..Len(args) : ~IsHelpFlag(args[i])
  BY <1>1 DEF Walked
<1>4. Consumed(0)'
  BY <1>1, <1>2 DEF Consumed, Holds
<1>5. CASE pc' = "walk"
  <2>1. index' - 1 = 0
    BY <1>1
  <2>2. Consumed(index - 1)'
    BY <1>4, <2>1 DEF Consumed
  <2> QED
    BY <1>1, <1>2, <1>3, <1>5, <2>1, <2>2 DEF Walking
<1>6. CASE pc' # "walk"
  BY <1>3, <1>6 DEF Walking
<1> QED
  BY <1>5, <1>6

LEMMA WalkingArgument == ASSUME TypeOK, Walking, WalkArgument PROVE Walking'
<1>1. /\ pc = "walk" /\ AtArgument /\ index' = At + 1 /\ argsOnly' = ArgsOnly
      /\ UNCHANGED <<stop, command, argv>>
  BY DEF WalkArgument, WalkUnchanged
<1>2. UNCHANGED <<Role, Reading, Walked>>
  BY <1>1, ReadingKept
<1>3. /\ index - 1 \in Nat /\ index \in 1..(Len(argv) + 1) /\ Len(argv) \in Nat
      /\ IF AtDashDash THEN At = index + 1 /\ Role[index] = "cut" ELSE At = index
      /\ At \in 1..Len(argv) /\ Role[At] = IF ArgsOnly THEN "rest" ELSE "word"
  BY <1>1, NextRole
<1>4. Walked /\ Consumed(index - 1)
  BY <1>1 DEF Walking
<1>5. Role[At] \in Words
  BY <1>3 DEF Words
<1>6. CASE argument # None
  <2>1. pc' = "done" /\ code' = ParseError
    BY <1>6 DEF WalkArgument, Finish
  <2>2. \E j \in 1..(index - 1) : Role[j] \in Words
    BY <1>4, <1>6 DEF Consumed, Holds
  <2>3. \E j \in 1..Len(argv) : j # At /\ Role[j] \in Words
    BY <1>3, <2>2
  <2>4. ~Reading.wellFormed
    BY <1>3, <1>5, <2>3, NotWellFormed
  <2> QED
    BY <1>2, <2>1, <2>4 DEF Walking
<1>7. CASE argument = None
  <2>1. argument' = argv[At] /\ UNCHANGED pc
    BY <1>7 DEF WalkArgument
  <2>2. argv[At] # None
    BY <1>3, CliAssumption DEF TypeOK
  <2>3. Holds(Role, argv, command, None, stop, index - 1)
    BY <1>4, <1>7 DEF Consumed
  <2> DEFINE n == index - 1
  <2>4. At = n + 1 \/ (At = n + 2 /\ Role[n + 1] = "cut")
    <3>1. n + 1 = index /\ n + 2 = index + 1
      BY <1>3
    <3> QED
      BY <1>3, <3>1
  <2>5. Holds(Role, argv, command, argv[At], stop, At)
    <3>1. n \in Nat /\ Holds(Role, argv, command, None, stop, n)
      BY <1>3, <2>3
    <3> HIDE DEF n
    <3> QED
      BY <1>5, <2>2, <2>4, <3>1, HoldsWord
  <2>6. index' - 1 = At
    BY <1>1, <1>3
  <2>7. Consumed(index - 1)'
    BY <1>1, <1>2, <2>1, <2>5, <2>6 DEF Consumed
  <2>8. IF argsOnly' THEN Role'[index' - 1] = "rest" ELSE Role'[index' - 1] = "word"
    BY <1>1, <1>2, <1>3, <2>6
  <2> QED
    BY <1>1, <1>2, <1>4, <2>1, <2>7, <2>8 DEF Walking
<1> QED
  BY <1>6, <1>7

LEMMA WalkingOption == ASSUME TypeOK, Walking, WalkOption PROVE Walking'
<1>1. /\ pc = "walk" /\ AtOption /\ OptionName \in Options(command)
      /\ UNCHANGED <<argsOnly, argument, pc, command, argv>>
  BY DEF WalkOption, WalkUnchanged
<1>2. UNCHANGED <<Role, Reading, Walked>>
  BY <1>1, ReadingKept
<1>3. /\ index - 1 \in Nat /\ Len(argv) \in Nat
      /\ At = index /\ index \in 1..Len(argv) /\ argsOnly = FALSE
      /\ Role[At] = CASE argv[At] = "--stop-before" -> "option"
                      [] argv[At] = "--stop-before=verify" -> "inline"
                      [] OTHER -> "bad"
  BY <1>1, NextRole
<1>4. /\ command \in {"install", "commit", "rollback"}
      /\ argv[At] \in {"--stop-before", "--stop-before=verify"}
      /\ argv[At] \in DOMAIN Inline <=> argv[At] = "--stop-before=verify"
      /\ Inline["--stop-before=verify"].value = "verify"
  BY <1>1, OptionIs
<1>5. Walked /\ Consumed(index - 1)
  BY <1>1 DEF Walking
<1> DEFINE n == index - 1
<1>6. n \in Nat /\ At = n + 1 /\ At + 1 = n + 2 /\ Holds(Role, argv, command, argument, stop, n)
  BY <1>3, <1>5 DEF Consumed
<1>7. CASE argv[At] \in DOMAIN Inline
  <2>1. stop' = "verify" /\ index' = At + 1 /\ Role[At] = "inline"
    BY <1>3, <1>4, <1>7 DEF WalkOption
  <2>2. Holds(Role, argv, command, argument, "verify", At)
    <3>1. "verify" # None
      BY DEF None
    <3> HIDE DEF n
    <3> QED
      BY <1>4, <1>6, <2>1, <3>1, HoldsStop
  <2>3. index' - 1 = At
    BY <1>3, <2>1
  <2>4. Consumed(index - 1)'
    BY <1>1, <1>2, <2>1, <2>2, <2>3 DEF Consumed
  <2> QED
    BY <1>1, <1>2, <1>3, <1>5, <2>1, <2>3, <2>4 DEF Walking
<1>8. CASE argv[At] \notin DOMAIN Inline
  <2>1. /\ stop' = argv[At + 1] /\ index' = At + 2 /\ At < Len(argv)
        /\ argv[At] = "--stop-before" /\ Role[At] = "option"
    BY <1>3, <1>4, <1>8 DEF WalkOption
  <2>2. At + 1 \in 1..Len(argv) /\ (At + 1) - 1 = At
    BY <1>3, <2>1
  <2>3. argv[At + 1] # None
    BY <2>2, CliAssumption DEF TypeOK
  <2>4. Role[At + 1] = "value"
    <3>1. Role[At + 1] = RoleAfter(Role[(At + 1) - 1], argv[At + 1])
      BY <2>2, RoleIs
    <3> QED
      BY <2>1, <2>2, <3>1 DEF RoleAfter
  <2>5. Holds(Role, argv, command, argument, argv[At + 1], At + 1)
    <3> HIDE DEF n
    <3> QED
      BY <1>4, <1>6, <2>1, <2>3, <2>4, HoldsStop
  <2>6. index' - 1 = At + 1
    BY <1>3, <2>1
  <2>7. Consumed(index - 1)'
    BY <1>1, <1>2, <2>1, <2>5, <2>6 DEF Consumed
  <2> QED
    BY <1>1, <1>2, <1>3, <1>5, <2>4, <2>6, <2>7 DEF Walking
<1> QED
  BY <1>7, <1>8

LEMMA WalkingRefuse == ASSUME TypeOK, Walking, WalkRefuse PROVE Walking'
<1>1. /\ pc = "walk" /\ AtOption /\ pc' = "done" /\ code' = ParseError /\ UNCHANGED <<command, argv>>
      /\ \/ OptionName \notin Options(command)
         \/ argv[At] \notin DOMAIN Inline /\ At = Len(argv)
  BY DEF WalkRefuse, WalkUnchanged, Finish
<1>2. UNCHANGED <<Role, Reading, Walked>>
  BY <1>1, ReadingKept
<1>3. /\ At \in 1..Len(argv)
      /\ Role[At] = CASE argv[At] = "--stop-before" -> "option"
                      [] argv[At] = "--stop-before=verify" -> "inline"
                      [] OTHER -> "bad"
  BY <1>1, NextRole
<1>4. /\ OptionName \in Options(command) <=>
           /\ command \in {"install", "commit", "rollback"}
           /\ argv[At] \in {"--stop-before", "--stop-before=verify"}
      /\ "--stop-before=verify" \in DOMAIN Inline
  BY OptionIs
<1>5. \/ Role[At] = "bad"
      \/ Role[At] \in {"option", "inline"} /\ command \notin {"install", "commit", "rollback"}
      \/ Role[At] = "option" /\ At = Len(argv)
  BY <1>1, <1>3, <1>4
<1>6. ~Reading.wellFormed
  BY <1>3, <1>5, NotWellFormed
<1> QED
  BY <1>1, <1>2, <1>6 DEF Walking

LEMMA WalkingDispatch == ASSUME TypeOK, Walking, Dispatch PROVE Walking'
<1>1. /\ pc = "walk" /\ At > Len(argv) /\ UNCHANGED <<command, argv, argument, stop>>
      /\ \/ /\ pc' = "install"
            /\ artifact' = IF argument # None THEN argument ELSE artifact
            /\ stopBefore' = IF stop # None THEN stop ELSE stopBefore
         \/ pc' = "done" /\ code' # ParseError
  BY DEF Dispatch, Finish, parser, ExitNoUpdate, ExitOk, ParseError
<1>2. UNCHANGED <<Role, Reading, Walked>>
  BY <1>1, ReadingKept
<1>3. /\ index - 1 \in Nat /\ index \in 1..(Len(argv) + 1) /\ Len(argv) \in Nat
      /\ IF AtDashDash THEN At = index + 1 /\ index <= Len(argv) /\ Role[index] = "cut" ELSE At = index
  BY <1>1, NextRole
<1>4. Walked /\ Consumed(index - 1)
  BY <1>1 DEF Walking
<1>5. Consumed(Len(argv))
  <2>1. CASE AtDashDash
    <3>1. Len(argv) = (index - 1) + 1 /\ (index - 1) + 1 = index
      BY <1>1, <1>3, <2>1
    <3>2. Holds(Role, argv, command, argument, stop, (index - 1) + 1)
      BY <1>3, <1>4, <2>1, <3>1, HoldsCut DEF Consumed
    <3> QED
      BY <3>1, <3>2 DEF Consumed
  <2>2. CASE ~AtDashDash
    <3>1. Len(argv) = index - 1
      BY <1>1, <1>3, <2>2
    <3> QED
      BY <1>4, <3>1
  <2> QED
    BY <2>1, <2>2
<1>6. Consumed(Len(argv))'
  BY <1>1, <1>2, <1>5 DEF Consumed
<1> QED
  BY <1>1, <1>2, <1>4, <1>6 DEF Walking

LEMMA WalkingStep == ASSUME IInv, IInv', Walking, [Next]_vars PROVE Walking'
<1>0. TypeOK /\ TypeOK'
  BY DEF IInv
<1>1. ASSUME NEW args, ParseHelp(args) PROVE Walking'
  BY <1>0, <1>1, WalkingBegins DEF ParseHelp, Commands
<1>2. ASSUME NEW args, ParseUnknown(args) PROVE Walking'
  BY <1>0, <1>2, WalkingBegins DEF ParseUnknown, Finish, Commands
<1>3. ASSUME NEW args, NEW cmd \in Commands, ParseCommandHelp(cmd, args) PROVE Walking'
  BY <1>0, <1>3, WalkingBegins DEF ParseCommandHelp
<1>4. ASSUME NEW args, NEW cmd \in Commands, ParseCommand(cmd, args) PROVE Walking'
  BY <1>0, <1>4, WalkingBegins DEF ParseCommand
<1>5. CASE WalkArgument
  BY <1>0, <1>5, WalkingArgument
<1>6. CASE WalkOption
  BY <1>0, <1>6, WalkingOption
<1>7. CASE WalkRefuse
  BY <1>0, <1>7, WalkingRefuse
<1>8. CASE Dispatch
  BY <1>0, <1>8, WalkingDispatch
<1>9. CASE HelpExecute
  BY <1>9, WalkingKept DEF HelpExecute, Finish, parser, ExitError, ExitOk, ParseError
<1>10. CASE InstallBegin
  BY <1>10, WalkingKept DEF InstallBegin, Finish, parser, ExitError, ParseError
<1>11. CASE InstallPhase
  BY <1>11, WalkingKept DEF InstallPhase, Finish, parser, ExitOk, ParseError
<1>12. CASE InstallEnd
  BY <1>12, WalkingKept DEF InstallEnd, Finish, parser, ExitRebootNeeded, ParseError
<1>13. CASE Return
  BY <1>13 DEF Return, Walking
<1>14. CASE UNCHANGED vars
  <2>1. UNCHANGED <<command, argv, argument, stop, index, argsOnly, pc, code, artifact, stopBefore>>
    BY <1>14 DEF vars, pool, parser
  <2>2. UNCHANGED <<Role, Reading, Walked>>
    BY <2>1, ReadingKept
  <2>3. Consumed(Len(argv))' = Consumed(Len(argv)) /\ Consumed(index - 1)' = Consumed(index - 1)
    BY <2>1, <2>2 DEF Consumed
  <2> QED
    BY <2>1, <2>2, <2>3 DEF Walking
<1> QED
  BY <1>1, <1>2, <1>3, <1>4, <1>5, <1>6, <1>7, <1>8, <1>9, <1>10, <1>11, <1>12, <1>13, <1>14 DEF Next

LEMMA WalkingRight == IInv /\ Walking => ParseIsRight
<1> SUFFICES ASSUME TypeOK, Walking, pc \in {"install", "done"}, Walked
             PROVE  /\ pc = "done" => (code = ParseError <=> ~Reading.wellFormed)
                    /\ pc = "install" =>
                         /\ Reading.wellFormed
                         /\ Reading.argument # None => artifact = Reading.argument
                         /\ Reading.stop # None => stopBefore = Reading.stop
  BY DEF IInv, ParseIsRight
<1>1. Consumed(Len(argv)) => Reading.wellFormed /\ Reading.argument = argument /\ Reading.stop = stop
  BY ConsumedAll
<1> QED
  BY <1>1 DEF Walking

LEMMA WalkingAlways == Spec => []Walking
<1>1. IInv /\ IInv' /\ Walking /\ [Next]_vars => Walking'
  BY WalkingStep
<1> QED
  BY <1>1, WalkingInit, IInvAlways, PTL DEF Spec

\* Every command line is refused exactly when it is malformed, and install
\* gets its argument and its last --stop-before (ParseArguments and
\* CmdlineOptionsIterator::Next), for any number of tokens.
THEOREM ParsesRight == Spec => []ParseIsRight
BY WalkingRight, WalkingAlways, IInvAlways, PTL

\* The iterator stays within argv (conf/cli.cpp:40-99) and the phases within
\* the workflow, for every command line.
THEOREM CliTypes == Spec => []TypeOK
<1>1. IInv => TypeOK
  BY DEF IInv
<1>2. QED
  BY <1>1, IInvAlways, PTL

\* The driver and the machine agree: a phase is performed in the state that
\* stands for it (InstallAction::Execute, actions.cpp:42-74).
THEOREM DriverAgrees == Spec => []PhaseInState
<1>1. IInv => PhaseInState
  BY DEF IInv
<1>2. QED
  BY <1>1, IInvAlways, PTL

\* A --stop-before on the command line halts in time, whatever earlier command
\* lines left in the static pool.
THEOREM StopsInTime == Spec => []StopBeforeObeyed
<1>1. IInv => StopBeforeObeyed
  BY DEF IInv, Halting, Locals, StopBeforeObeyed
<1>2. QED
  BY <1>1, IInvAlways, PTL

=============================================================================
