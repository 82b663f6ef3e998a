--------------------------- MODULE MCQueryFormat ---------------------------
(***************************************************************************)
(* Replies for QueryFormat: every object of two levels over a few keys and *)
(* tables whose cells are narrow, wide, empty or not ASCII.                *)
(***************************************************************************)
EXTENDS QueryFormat, TLC

Units == <<"B", "K", "M", "G", "T">>
Order == <<"message", "ready", "status", "streams", "tor">>
Lengths == "message" :> 7 @@ "ready" :> 5 @@ "status" :> 6 @@ "streams" :> 7 @@ "tor" :> 3

Str(text) == [kind |-> "string", text |-> text]
Null == [kind |-> "null"]
Object(fields) == [kind |-> "object", fields |-> fields]
Objects(keys, values) ==
  {Object(f) : f \in UNION {[ks -> values] : ks \in SUBSET keys}}

Scalars == {Str("yes"), Null}
Nested == Objects({"ready", "status"}, Scalars)

KvReplies ==
  {Object([status |-> Str(s)] @@ v.fields @@ t) :
     s \in {"ok", "error"}, v \in Objects({"ready", "message"}, Scalars),
     t \in {<<>>} \cup {[tor |-> x] : x \in Nested \cup Scalars}}

Texts == {Ascii(0), Ascii(9), [chars |-> 2, bytes |-> 8]}

Stream(id, peer, target, isolation, figure) ==
  [id |-> id, peer |-> peer, target |-> target, isolation |-> isolation,
   age_secs |-> figure, bytes_to_upstream |-> figure,
   bytes_to_client |-> 2 * figure]

Tables ==
  {<<>>, <<Stream(7, Ascii(9), Ascii(9), Absent, 0)>>}
    \cup {<<Stream(7, Ascii(5), a, u, 0), Stream(100, Ascii(9), b, Absent, 59)>> :
            a \in Texts, b \in Texts, u \in Texts \cup {Absent}}

TableReplies ==
  {Object([status |-> Str("ok"), streams |-> [kind |-> "array", rows |-> t]]) :
     t \in Tables}

AllReplies == KvReplies \cup TableReplies \cup {[kind |-> "garbage"]}

AllValues == KvReplies \cup Nested \cup Scalars \cup {Str("ok"), Str("error")}

Depths ==
  [v \in AllValues |-> CASE v.kind # "object" -> 0
                         [] v \in Nested -> 1
                         [] OTHER -> 2]
=============================================================================
