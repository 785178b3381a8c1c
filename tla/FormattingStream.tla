---------------------------- MODULE FormattingStream ----------------------------
(***************************************************************************)
(* How a formatter composes the text of a record: the stream buffer that   *)
(* collects characters in a small put area before it appends them to a     *)
(* string (attachable_sstream_buf.hpp), the insertion operators of         *)
(* formatting_ostream, and the decorators that bound or rewrite what other *)
(* formatters produce.                                                     *)
(*                                                                         *)
(* A character is <<unit, x>>, with the unit of the character type and the *)
(* call x that printed it.  The units are those of a two-unit encoding: a  *)
(* "lead" unit begins a character and needs the unit after it.  A          *)
(* formatter is a sequence of items, each of which inserts units, requires *)
(* an attribute, or decorates another formatter.                           *)
(***************************************************************************)
EXTENDS Integers, SequencesExt

CONSTANTS BufferSize,   \* characters in the put area: 16 in the code
          StorageMax    \* max_size() of the string

EmptyStream ==
  [storage |-> <<>>, area |-> <<>>, max_size |-> StorageMax, overflow |-> FALSE, bad |-> FALSE]

Printed(units, x) == [k \in 1 .. Len(units) |-> <<units[k], x>>]

-----------------------------------------------------------------------------
(* basic_ostringstreambuf *)

(* The most of the first n units that ends with a complete character. *)
length_until_boundary(s, n) == Max({k \in 0 .. n : k = 0 \/ s[k][1] # "lead"})

(* append, of a string or of a fill character, and push_back: what does not   *)
(* fit is lost, with all that comes later.                                    *)
append(b, s) ==
  LET left == Max({0, b.max_size - Len(b.storage)})
  IN  IF b.overflow THEN b
      ELSE IF Len(s) <= left THEN [b EXCEPT !.storage = @ \o s]
      ELSE [b EXCEPT !.storage = @ \o SubSeq(s, 1, length_until_boundary(s, left)),
                     !.overflow = TRUE]

sync(b) == [append(b, b.area) EXCEPT !.area = <<>>]

(* A character goes to the put area, or past it when it is full. *)
sputc(b, c) ==
  IF Len(b.area) < BufferSize THEN [b EXCEPT !.area = Append(@, c)] ELSE append(sync(b), <<c>>)

(* A write that does not fit is short: the stream turns bad, which throws. *)
xsputn(b, s) ==
  LET w == append(sync(b), s)
      short == w.overflow /\ s # <<>>
  IN  [stream |-> [w EXCEPT !.bad = short], threw |-> short]

ensure_max_size(b) ==
  IF Len(b.storage) <= b.max_size THEN b
  ELSE [b EXCEPT !.storage = SubSeq(@, 1, length_until_boundary(@, b.max_size)), !.overflow = TRUE]

set_max_size(b, n) == ensure_max_size([b EXCEPT !.max_size = Min({n, StorageMax})])

-----------------------------------------------------------------------------
(* basic_formatting_ostream and the decorators *)

Aligned(s, i, x) ==
  LET fill == Printed([k \in 1 .. i.width - Len(s) |-> "fill"], x)
  IN  IF i.width <= Len(s) THEN <<s>> ELSE IF i.left THEN <<s, fill>> ELSE <<fill, s>>

(* formatted_write and aligned_write: the text and the fill are appended one  *)
(* after the other.                                                           *)
formatted_write(b, i, x) == FoldLeft(append, sync(b), Aligned(Printed(i.units, x), i, x))

(* pattern_replacer: each rule rewrites the text left by the one before. *)
Replaced(s, rules, x) ==
  FoldLeft(LAMBDA text, rule :
             FlattenSeq([k \in 1 .. Len(text) |->
                           IF text[k][1] = rule.from THEN Printed(rule.to, x) ELSE <<text[k]>>]),
           s, rules)

(* The end of max_size_decorator: where the text was cut off, room is made    *)
(* for the marker.                                                            *)
Marked(b, marker) ==
  LET cut == set_max_size(b, b.max_size - Len(marker))
  IN  IF b.overflow /\ marker # <<>>
      THEN append([set_max_size(cut, StorageMax) EXCEPT !.overflow = FALSE], marker)
      ELSE [b EXCEPT !.overflow = FALSE]

(* The limit of the formatter outside takes effect again. *)
LimitLifted(b, marker, old_max_size) == set_max_size(Marked(b, marker), old_max_size)

Done(b) == [stream |-> b, threw |-> FALSE]

(* The stream after formatter f has been applied in call x, and whether it    *)
(* threw.  Nothing is inserted into a stream that is bad (sentry).            *)
RECURSIVE format(_, _, _)
format(b, f, x) ==
  LET max_size_decorator(s, i) ==
        LET r == format(set_max_size(s, Len(s.storage) + i.max), i.sub, x)
        IN  IF s.overflow THEN Done(s)
            ELSE IF r.threw
            THEN [r EXCEPT !.stream = set_max_size([@ EXCEPT !.overflow = FALSE], s.max_size)]
            ELSE Done(LimitLifted(sync(r.stream), Printed(i.marker, x), s.max_size))

      char_decorator(s, i) ==
        LET r == format(s, i.sub, x)
            t == sync(r.stream)
            start_pos == Len(s.storage)
        IN  IF r.threw THEN r
            ELSE Done(ensure_max_size(
                   [t EXCEPT !.storage = SubSeq(@, 1, start_pos) \o
                      Replaced(SubSeq(@, start_pos + 1, Len(@)), i.rules, x)]))

      item(s, i) ==
        CASE i.op = "require" /\ x.number \in i.absent ->
               [stream |-> [s EXCEPT !.bad = i.inserting], threw |-> TRUE]
          [] i.op = "put" /\ ~s.bad -> Done(sputc(s, <<i.unit, x>>))
          [] i.op = "write" /\ ~s.bad -> xsputn(s, Printed(i.units, x))
          [] i.op = "field" /\ ~s.bad -> Done(formatted_write(s, i, x))
          [] i.op = "max_size" -> max_size_decorator(sync(s), i)
          [] i.op = "chars" -> char_decorator(sync(s), i)
          [] OTHER -> Done(s)
  IN  FoldLeft(LAMBDA r, i : IF r.threw THEN r ELSE item(r.stream, i), Done(b), f)

-----------------------------------------------------------------------------
(* What formatters mean *)

(* At most n units of s; the marker, if something is missing, is one of them. *)
Limited(s, n, marker) ==
  IF Len(s) <= n THEN s ELSE SubSeq(s, 1, length_until_boundary(s, n - Len(marker))) \o marker

(* The text of formatter f in call x, if it does not throw. *)
RECURSIVE Text(_, _)
Text(f, x) ==
  LET ItemText(i) ==
        CASE i.op = "put" -> Printed(<<i.unit>>, x)
          [] i.op = "write" -> Printed(i.units, x)
          [] i.op = "field" -> FlattenSeq(Aligned(Printed(i.units, x), i, x))
          [] i.op = "require" -> <<>>
          [] i.op = "max_size" -> Limited(Text(i.sub, x), i.max, Printed(i.marker, x))
          [] i.op = "chars" -> Replaced(Text(i.sub, x), i.rules, x)
  IN  FlattenSeq([k \in 1 .. Len(f) |-> ItemText(f[k])])
=============================================================================
