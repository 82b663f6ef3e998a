----------------------------- MODULE QueryFormat -----------------------------
(***************************************************************************)
(* What `tord query` prints (src/src/format.rs): the reply is JSON, and is *)
(* rendered by its shape: an error, a table of streams, or key/value lines.*)
(*                                                                         *)
(* A JSON value is [kind |-> "object", fields |-> a function on its keys], *)
(* [kind |-> "array", rows |-> ...], or a scalar with its text.  Text is   *)
(* what its layout depends on: how many characters and how many bytes it   *)
(* has.  What is printed is the view, its lines, and the column where each *)
(* cell begins.                                                            *)
(*                                                                         *)
(* An operator who watches asks again and again, while figures grow.       *)
(***************************************************************************)
EXTENDS HumanUnits, SequencesExt

CONSTANTS
  Values,       \* JSON values that are no list, with those in each object's fields
  Replies,      \* what the daemon may answer
  KeyOrder,     \* the keys of objects in the order of the map
  KeyLen,       \* their lengths
  Depth,        \* how deep each value nests
  MaxFigure     \* bound: growth of a row's figures

VARIABLES
  reply,        \* the last reply
  output,       \* OutputFormat: "table" or "json"
  printed       \* what is on the terminal

Nothing == [view |-> "nothing"]

\* `{cell:<width$}` pads to a number of characters and never cuts.
Padded(chars, width) == Max({chars, width})

-----------------------------------------------------------------------------
(* Key/value lines. *)

scalar(v) == IF v.kind = "null" THEN "-" ELSE v.text

\* The lines of v at a depth of indent, without `status` at the framed depths:
\* nothing for what is no object, a line or a whole block for each key of one.
Flattened(v, indent, framed) ==
  LET lines[w \in Values] == [n \in Nat |->
        LET block(k) ==
              IF k \notin DOMAIN w.fields \/ (n \in framed /\ k = "status") THEN <<>>
              ELSE IF w.fields[k].kind = "object"
                THEN <<[indent |-> n, key |-> k, header |-> TRUE]>>
                       \o lines[w.fields[k]][n + 1]
                ELSE <<[indent |-> n, key |-> k, header |-> FALSE,
                        val |-> scalar(w.fields[k])]>>
        IN  IF w.kind # "object" THEN <<>>
            ELSE FlattenSeq([i \in DOMAIN KeyOrder |-> block(KeyOrder[i])])]
  IN  lines[v][indent]

\* Faulty variant: `status` is dropped wherever it stands.
CollectKvNoStatus(v, indent) == Flattened(v, indent, Nat)

collect_kv(v, indent) == Flattened(v, indent, {0})

KeyWidth(line) == 2 * line.indent + KeyLen[line.key]

\* Faulty variant: the keys of nested objects are not measured.
KeyColumnOfTopLevel(lines) ==
  Max({0} \cup {KeyWidth(lines[i]) :
                  i \in {j \in DOMAIN lines : lines[j].indent = 0 /\ ~ lines[j].header}})

\* Headers are not measured: nothing stands beside them.
key_width(lines) ==
  Max({0} \cup {KeyWidth(lines[i]) : i \in {j \in DOMAIN lines : ~ lines[j].header}})

render_kv(v) ==
  LET lines == collect_kv(v, 0)
      valued == {i \in DOMAIN lines : ~ lines[i].header}
  IN  IF lines = <<>> THEN [view |-> "ok"]
      ELSE [view |-> "kv", lines |-> lines,
            starts |-> [i \in valued |->
                          Padded(KeyWidth(lines[i]), key_width(lines)) + 3]]

-----------------------------------------------------------------------------
(* The table of streams. *)

\* A character takes at least one byte.
Text == {t \in [chars : Nat, bytes : Nat] : t.chars <= t.bytes}

Ascii(n) == [chars |-> n, bytes |-> n]
Absent == [chars |-> -1, bytes |-> 0]

\* How many digits n has.
Digits(n) ==
  LET power == Powers(10, n + 1)
  IN  CHOOSE k \in 1 .. n + 1 : n < power[k] /\ (k = 1 \/ power[k - 1] <= n)

AgeText(shown) ==
  LET part(i) == Digits(shown[i].n) + 1
  IN  Ascii(IF Len(shown) = 1 THEN part(1) ELSE part(1) + part(2))

BytesText(shown) ==
  Ascii(Digits(shown.tenths \div 10) + (IF shown.unit = 0 THEN 1 ELSE 3))

\* A string, or `-` when absent or null.
field(text) == IF text = Absent THEN Ascii(1) ELSE text

\* ID, PEER, TARGET, ISO, AGE, UP, DOWN
Header == <<Ascii(2), Ascii(4), Ascii(6), Ascii(3), Ascii(3), Ascii(2), Ascii(4)>>

Cells(row) ==
  <<Ascii(Digits(row.id)), field(row.peer), field(row.target),
    field(row.isolation), AgeText(human_age(row.age_secs)),
    BytesText(human_bytes(row.bytes_to_upstream)),
    BytesText(human_bytes(row.bytes_to_client))>>

\* Faulty variant: the header is not measured.
WidthsOfRows(table) ==
  [i \in DOMAIN Header |-> Max({table[r][i].bytes : r \in DOMAIN table \ {1}})]

\* cell.len() counts bytes.
Widths(table) ==
  [i \in DOMAIN Header |-> Max({table[r][i].bytes : r \in DOMAIN table})]

render_streams(rows) ==
  LET table == <<Header>> \o [r \in DOMAIN rows |-> Cells(rows[r])]
      width == Widths(table)
      advance(r) == [i \in DOMAIN Header |-> Padded(table[r][i].chars, width[i]) + 2]
      start(r, i) == MapThenSumSet(LAMBDA j : advance(r)[j], 1 .. i - 1)
  IN  IF rows = <<>> THEN [view |-> "no streams"]
      ELSE [view |-> "table", cells |-> table,
            starts |-> [r \in DOMAIN table |-> [i \in DOMAIN Header |-> start(r, i)]],
            figures |-> [r \in DOMAIN rows |->
                           [age |-> human_age(rows[r].age_secs),
                            up |-> human_bytes(rows[r].bytes_to_upstream),
                            down |-> human_bytes(rows[r].bytes_to_client)]]]

-----------------------------------------------------------------------------

Has(v, k, kind) == k \in DOMAIN v.fields /\ v.fields[k].kind = kind

IsError(v) == Has(v, "status", "string") /\ v.fields["status"].text = "error"

render_table(v) ==
  CASE IsError(v) -> [view |-> "error",
                      message |-> IF Has(v, "message", "string")
                                    THEN v.fields["message"].text ELSE "(no message)"]
    [] ~ IsError(v) /\ Has(v, "streams", "array") ->
         render_streams(v.fields["streams"].rows)
    [] OTHER -> render_kv(v)

\* An empty reply, from a daemon that dropped the connection, is no JSON.
render(v) ==
  IF v.kind = "garbage"    THEN [view |-> "raw"]
  ELSE IF output = "json"  THEN [view |-> "json", value |-> v]
  ELSE render_table(v)

\* A row of `streams` (StreamSnapshot).
Row == [id : Nat, peer : Text \cup {Absent}, target : Text \cup {Absent},
        isolation : Text \cup {Absent}, age_secs : Nat,
        bytes_to_upstream : Nat, bytes_to_client : Nat]

\* The daemon lists nothing else under `streams`.
IsReply(v) ==
  v.kind # "garbage" /\ Has(v, "streams", "array") =>
    /\ v = [kind |-> "object", fields |-> v.fields]
    /\ v.fields["streams"] \in [kind : {"array"}, rows : Seq(Row)]

ASSUME RepliesAssumption ==
  \A v \in Replies :
    /\ IsReply(v)
    /\ v.kind \in {"garbage", "object"}
    /\ v.kind = "object" /\ ~ Has(v, "streams", "array") => v \in Values

\* JSON values are finite trees.
ASSUME ValuesAssumption ==
  /\ Depth \in [Values -> Nat]
  /\ \A v \in Values : v.kind = "object" =>
       /\ v = [kind |-> "object", fields |-> v.fields]
       /\ v.fields = [k \in DOMAIN v.fields |-> v.fields[k]]
       /\ \A k \in DOMAIN v.fields :
            /\ \E i \in DOMAIN KeyOrder : KeyOrder[i] = k
            /\ v.fields[k] \in Values /\ Depth[v.fields[k]] < Depth[v]

ASSUME KeysAssumption ==
  /\ KeyOrder \in Seq(DOMAIN KeyLen) /\ KeyOrder # <<>>
  /\ \A i, j \in DOMAIN KeyOrder : KeyOrder[i] = KeyOrder[j] => i = j
  /\ KeyLen \in [DOMAIN KeyLen -> Nat]

\* A key is of one type, and no two of its scalars print alike: `blocked` is
\* null or a reason, and no reason is `-`.
ASSUME ScalarsAssumption ==
  \A v, w \in Values : v.kind = "object" /\ w.kind = "object" =>
    \A k \in DOMAIN v.fields \cap DOMAIN w.fields :
      LET a == v.fields[k]
          b == w.fields[k]
      IN  a.kind # "object" /\ b.kind # "object" /\ scalar(a) = scalar(b) => a = b

Init ==
  /\ reply \in Replies
  /\ output \in {"table", "json"}
  /\ printed = Nothing

\* main: query, render, println.
Query ==
  /\ printed = Nothing
  /\ printed' = render(reply)
  /\ UNCHANGED <<reply, output>>

Streams == reply.fields["streams"].rows
ShowsTable == printed.view = "table"

\* A connection a moment later.
Later(row) ==
  [row EXCEPT !.age_secs = @ + 1, !.bytes_to_upstream = @ + 1, !.bytes_to_client = @ + 2]

\* The same connections, asked about again.
QueryAgain ==
  /\ ShowsTable
  /\ \A r \in DOMAIN Streams : Streams[r].age_secs < MaxFigure
  /\ reply' = [reply EXCEPT !.fields["streams"].rows =
                 [r \in DOMAIN Streams |-> Later(Streams[r])]]
  /\ printed' = render(reply')
  /\ UNCHANGED output

Next == Query \/ QueryAgain

vars == <<reply, output, printed>>
Spec == Init /\ [][Next]_vars

-----------------------------------------------------------------------------

\* A figure is true: bytes to the nearest tenth of the largest unit that there
\* is one of, an age never ahead of the stream's and behind it by less than
\* the smallest unit shown (human_bytes, human_age).
FiguresAreTrue ==
  ShowsTable =>
    \A r \in DOMAIN Streams :
      LET f == printed.figures[r]
      IN  /\ BytesTrue(f.up, Streams[r].bytes_to_upstream)
          /\ BytesTrue(f.down, Streams[r].bytes_to_client)
          /\ AgeTrue(f.age, Streams[r].age_secs)

\* To an operator who watches, no figure of a live stream ever falls, though
\* it changes its unit on the way.
FiguresNeverFall ==
  [][ShowsTable /\ ShowsTable' =>
       \A r \in DOMAIN Streams :
         /\ AgeRead(printed.figures[r].age) <= AgeRead(printed'.figures[r].age)
         /\ BytesRead(printed.figures[r].up) <= BytesRead(printed'.figures[r].up)
         /\ BytesRead(printed.figures[r].down) <= BytesRead(printed'.figures[r].down)
    ]_vars

\* What a reply says but for the framing.
Data(v) == [k \in DOMAIN v.fields \ {"status"} |-> v.fields[k]]

\* Replies that say different things never look the same as key/value lines:
\* no field is lost and none moves in or out of a nested object (collect_kv).
RepliesToldApart ==
  printed.view \in {"kv", "ok"} =>
    \A other \in Replies :
      other.kind = "object" /\ render_table(other) = printed
        => Data(other) = Data(reply)

\* Columns line up and cells do not run into each other, for text outside
\* ASCII too, where width is counted in bytes and padding in characters.
ColumnsAligned ==
  ShowsTable =>
    \A r \in DOMAIN printed.starts, i \in DOMAIN Header :
      /\ printed.starts[r][i] = printed.starts[1][i]
      /\ i + 1 \in DOMAIN Header =>
           printed.starts[r][i] + printed.cells[r][i].chars
             < printed.starts[r][i + 1]

\* The values of key/value lines line up, those of nested objects too, whose
\* keys stand further in (render_kv).
ValuesAligned ==
  printed.view = "kv" =>
    \A i, j \in DOMAIN printed.starts : printed.starts[i] = printed.starts[j]
=============================================================================
