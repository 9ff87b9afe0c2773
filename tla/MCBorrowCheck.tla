----------------------------- MODULE MCBorrowCheck -----------------------------
(***************************************************************************)
(* Functions over two data locals x (with fields 1 and 2) and y, two       *)
(* variables p and q of type &T, one variable r of type &rw T, a struct h  *)
(* with a field of type &T and a parameter a of type &T, written as        *)
(* statements and lowered the way the generator lowers them: straight-line *)
(* code, diamonds, loops whose body declares a local z, and returns of a   *)
(* reference.                                                              *)
(***************************************************************************)
EXTENDS BorrowCheck

x == <<1, 1>>
y == <<1, 2>>
p == <<1, 3>>
q == <<1, 4>>
r == <<1, 5>>
a == <<1, 6>>
h == <<1, 7>>
z == <<3, 1>>   \* in the loop body
SlotTypes == <<"data", "data", "ref", "ref", "rw", "ref", "data">>
SlotType(v) == IF v[1] = 1 THEN SlotTypes[v[2]] ELSE "data"

Alloca(ty) == [op |-> "alloca", ty |-> ty]
Load(base, ty) == [op |-> "load", base |-> base, ty |-> ty]
Store(base, value) == [op |-> "store", base |-> base, value |-> value, ty |-> "data"]
Borrow(base, ty) == [op |-> "borrow", base |-> base, ty |-> ty]
FieldPtr(base, field, ty) == [op |-> "fieldptr", base |-> base, field |-> field, ty |-> ty]

\* Statements.
Take(v, place) == [kind |-> "take", var |-> v, place |-> place]             \* v = &place
Copy(v, w) == [kind |-> "copy", var |-> v, from |-> w]                      \* v = w
Assign(place) == [kind |-> "assign", place |-> place]                       \* place = 1
Read(place) == [kind |-> "read", place |-> place]                           \* use place
Through(v) == [kind |-> "through", var |-> v]                               \* use *v
Modify(v) == [kind |-> "modify", var |-> v]                                 \* *v = 1
Pick(v, w) == [kind |-> "pick", var |-> v, from |-> w]                      \* v = pick(v, w)
Ident(v, carries) == [kind |-> "ident", var |-> v, carries |-> carries]    \* v = ident(h.1)
Poke(v) == [kind |-> "poke", var |-> v]                                     \* poke(v)
Hold(place) == [kind |-> "hold", place |-> place]                           \* h.1 = &place
UseHeld == [kind |-> "useheld"]                                             \* use *h.1
DropIt(v) == [kind |-> "drop", place |-> <<v>>]                             \* the scope of v ends

Reading == [writes |-> FALSE, escapes |-> FALSE]
Writing == [writes |-> TRUE, escapes |-> FALSE]

\* The instructions of a statement, the first of which is at position <<b, i>>.
Lower(s, b, i) ==
  LET At(k) == <<b, i + k>>
      Address(place) == IF Len(place) = 1 THEN <<>> ELSE <<FieldPtr(place[1], place[2], "data")>>
      AddressOf(place) == IF Len(place) = 1 THEN place[1] ELSE At(0)
      n == IF s.kind \in {"take", "assign", "read", "drop"} THEN Len(s.place) - 1 ELSE 0
  IN  CASE s.kind = "take" -> Address(s.place) \o <<Borrow(AddressOf(s.place), SlotType(s.var)), Store(s.var, At(n))>>
        [] s.kind = "copy" -> <<Load(s.from, SlotType(s.from)), Store(s.var, At(0))>>
        [] s.kind = "assign" -> Address(s.place) \o <<Store(AddressOf(s.place), NoValue)>>
        [] s.kind = "read" -> Address(s.place) \o <<Load(AddressOf(s.place), "data")>>
        [] s.kind = "through" -> <<Load(s.var, SlotType(s.var)), Load(At(0), "data")>>
        [] s.kind = "modify" -> <<Load(s.var, "rw"), Store(At(0), NoValue)>>
        [] s.kind = "pick" -> <<Load(s.var, SlotType(s.var)), Load(s.from, SlotType(s.from)),
                                [op |-> "call", args |-> <<At(0), At(1)>>, effects |-> <<Reading, Reading>>,
                                 returns |-> {1, 2}, carries |-> FALSE, ty |-> SlotType(s.var)],
                                Store(s.var, At(2))>>
        [] s.kind = "poke" -> <<Load(s.var, "rw"),
                                [op |-> "call", args |-> <<At(0)>>, effects |-> <<Writing>>,
                                 returns |-> {}, carries |-> FALSE, ty |-> "data"]>>
        [] s.kind = "ident" -> <<FieldPtr(h, 1, "ref"), Load(At(0), "ref"),
                                 [op |-> "call", args |-> <<At(1)>>, effects |-> <<Reading>>,
                                  returns |-> {1}, carries |-> s.carries, ty |-> SlotType(s.var)],
                                 Store(s.var, At(2))>>
        [] s.kind = "hold" -> <<FieldPtr(h, 1, "ref"), Borrow(s.place[1], "ref"), Store(At(0), At(1))>>
        [] s.kind = "useheld" -> <<FieldPtr(h, 1, "ref"), Load(At(0), "ref"), Load(At(1), "data")>>
        [] s.kind = "drop" -> <<[op |-> "drop", base |-> s.place[1], ty |-> "data"]>>

LowerBlock(preamble, stmts, b) ==
  FoldLeft(LAMBDA code, s : code \o Lower(s, b, Len(code) + 1), preamble, stmts)

\* The allocas of the function, then the parameter stored to its variable.
Preamble == [i \in DOMAIN SlotTypes |-> Alloca(SlotTypes[i])] \o <<Store(a, <<0, 1>>)>>

Func(bodies, succ, result, heads) ==
  LET last == Len(bodies)
      code == [b \in DOMAIN bodies |->
                 LowerBlock(IF b = 1 THEN Preamble ELSE IF b = z[1] /\ Len(succ) = 4 /\ succ[2] = <<3, 4>>
                            THEN <<Alloca("data")>> ELSE <<>>, bodies[b], b)]
  IN  Prepared([code |-> IF result = <<>> THEN code
                         ELSE [code EXCEPT ![last] = Append(@, Load(result[1], "ref"))],
                succ |-> succ,
                ret |-> [b \in DOMAIN bodies |->
                           IF b = last /\ result # <<>> THEN <<last, Len(code[last]) + 1>> ELSE NoValue],
                params |-> <<"ref">>, loopHeads |-> heads])

-----------------------------------------------------------------------------
Takes == {Take(p, <<x>>), Take(p, <<x, 1>>), Take(r, <<x>>)}
Changes == {Assign(<<x>>), Assign(<<x, 2>>), Read(<<x>>), DropIt(x)}
RefUses == {Through(p), Through(q), Through(r), UseHeld}
Moves == {Copy(q, p), Take(q, <<y>>), Pick(q, p), Poke(r), Take(p, <<y>>), Hold(<<x>>), Modify(r)}

Straight == {Func(<< <<s, t, u, v>> >>, << <<>> >>, <<>>, {}) :
               s \in Takes \cup {Hold(<<x>>)}, t \in Takes \cup Changes \cup Moves \cup {Ident(q, TRUE)},
               u \in Changes \cup {Take(r, <<x, 1>>), Copy(q, p), Modify(r)}, v \in RefUses}

Arms == {<<>>, <<Take(p, <<y>>)>>, <<Take(r, <<x>>)>>, <<Copy(q, p)>>, <<Hold(<<x>>)>>}
Diamonds == {Func(<< <<Take(p, <<x>>)>>, t, u, <<v, w>> >>, << <<2, 3>>, <<4>>, <<4>>, <<>> >>, <<>>, {}) :
               t \in Arms, u \in Arms, v \in {Assign(<<x>>), Read(<<x>>), Assign(<<y>>)}, w \in RefUses}

LoopBodies == {Take(p, <<z>>), Hold(<<z>>), Take(p, <<x>>), Copy(q, p), Assign(<<x>>), Assign(<<z>>),
               Through(p), Pick(q, p)}
Loops == {Func(<< <<Take(p, <<y>>)>>, <<>>, <<s, t>>, u >>, << <<2>>, <<3, 4>>, back, <<>> >>, <<>>, {2}) :
            s \in LoopBodies, t \in LoopBodies, back \in {<<2>>, <<4>>, <<4, 2>>},
            u \in {<<>>, <<UseHeld>>, <<Assign(<<x>>), Through(q)>>}}

Returns == {Func(<< <<s>>, t, <<>>, <<>> >>, << <<2, 3>>, <<4>>, <<4>>, <<>> >>, <<v>>, {}) :
              s \in {Copy(p, a), Copy(q, a), Take(p, <<x>>)},
              t \in {<<>>, <<Copy(p, q)>>, <<Copy(q, p)>>, <<Take(q, <<x, 1>>)>>, <<Pick(q, p)>>}, v \in {p, q, a}}

CheckedFunctions == Straight \cup Diamonds \cup Loops \cup Returns

\* A reference kept in a field is passed to a function that returns it, without a life_from contract.
PassingFunctions ==
  {Func(<< <<Hold(<<x>>), Ident(q, FALSE), s, Through(q)>> >>, << <<>> >>, <<>>, {}) : s \in Changes}
=============================================================================
