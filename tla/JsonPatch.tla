------------------------------- MODULE JsonPatch -------------------------------
(***************************************************************************)
(* The JSON patches of rules: apply_json_ops and its helpers               *)
(* (hamsy-core/src/rule.rs).                                               *)
(*                                                                         *)
(* A document is null, a scalar, an array or an object.  A path is the     *)
(* sequence of what its text consists of: keys, which may be empty, and    *)
(* bracketed indices, which may fail to parse.                             *)
(***************************************************************************)
EXTENDS Integers, Sequences, SequencesExt

Null      == [null |-> TRUE]
Scalar(s) == [scalar |-> s]
Arr(s)    == [arr |-> s]
Obj(f)    == [obj |-> f]

IsArr(v) == DOMAIN v = {"arr"}
IsObj(v) == DOMAIN v = {"obj"}

Key(k)   == [key |-> k]
Index(i) == [index |-> i]

IsKey(seg) == DOMAIN seg = {"key"}
BadIndex   == Index(-1)

\* Vec::retain: what is left of a list without what is at some places.
Dropped(list, places) ==
  LET upto[i \in 0..Len(list)] ==
        IF i = 0 THEN <<>>
        ELSE IF i \in places THEN upto[i - 1] ELSE Append(upto[i - 1], list[i])
  IN upto[Len(list)]

\* parse_path: empty keys and brackets that hold no number are skipped.
Segments(path) == Dropped(path, {i \in DOMAIN path : path[i] \in {Key(""), BadIndex}})

\* json_get_mut: the one-element sequence of what is at the path, or the
\* empty one.
Step(found, seg) ==
  IF found = <<>> THEN <<>>
  ELSE LET v == found[1] IN
       IF IsKey(seg)
       THEN IF IsObj(v) /\ seg.key \in DOMAIN v.obj THEN <<v.obj[seg.key]>> ELSE <<>>
       ELSE IF IsArr(v) /\ seg.index < Len(v.arr) THEN <<v.arr[seg.index + 1]>> ELSE <<>>

Lookup(doc, segments) ==
  LET found[n \in 0..Len(segments)] ==
        IF n = 0 THEN <<doc>> ELSE Step(found[n - 1], segments[n])
  IN found[Len(segments)]

\* The members of v if it is an object, and its elements if it is an array:
\* anything else on the way is replaced by an empty one.
Members(v)  == IF IsObj(v) THEN v.obj ELSE [k \in {} |-> Null]
Elements(v) == IF IsArr(v) THEN v.arr ELSE <<>>

PutMember(members, k, v) ==
  [x \in DOMAIN members \union {k} |-> IF x = k THEN v ELSE members[x]]

\* Arrays are padded with null up to the index.  Mutant: cut after it.
PutElementCut(elements, i, v) ==
  [n \in 1..(i + 1) |-> IF n = i + 1 THEN v ELSE IF n <= Len(elements) THEN elements[n] ELSE Null]
PutElement(elements, i, v) ==
  [n \in 1..(IF Len(elements) > i THEN Len(elements) ELSE i + 1) |->
     IF n = i + 1 THEN v ELSE IF n <= Len(elements) THEN elements[n] ELSE Null]

\* What json_set makes of v when new is to be found below it at seg.
Put(v, seg, new) ==
  IF IsKey(seg) THEN Obj(PutMember(Members(v), seg.key, new))
                ELSE Arr(PutElement(Elements(v), seg.index, new))

\* json_set: below[k] is what is left after all segments but the last k.
JsonSet(doc, segments, value) ==
  LET n == Len(segments)
      At(k) == LET found == Lookup(doc, SubSeq(segments, 1, k))
               IN IF found = <<>> THEN Null ELSE found[1]
      below[k \in 0..n] ==
        IF k = 0 THEN value ELSE Put(At(n - k), segments[n - k + 1], below[k - 1])
  IN below[n]

\* json_remove: nothing happens without a last segment, or without its parent.
WithoutChild(v, seg) ==
  IF Step(<<v>>, seg) = <<>> THEN v
  ELSE IF IsKey(seg) THEN Obj([k \in DOMAIN v.obj \ {seg.key} |-> v.obj[k]])
  ELSE Arr(RemoveAt(v.arr, seg.index + 1))

JsonRemove(doc, segments) ==
  IF segments = <<>> \/ Lookup(doc, Front(segments)) = <<>> THEN doc
  ELSE JsonSet(doc, Front(segments),
               WithoutChild(Lookup(doc, Front(segments))[1], Last(segments)))

\* json_merge
JsonMerge(doc, segments, value) ==
  LET old == Lookup(doc, segments) IN
  JsonSet(doc, segments,
          IF IsObj(value) /\ old # <<>> /\ IsObj(old[1])
          THEN Obj([k \in DOMAIN old[1].obj \union DOMAIN value.obj |->
                      IF k \in DOMAIN value.obj THEN value.obj[k] ELSE old[1].obj[k]])
          ELSE value)

\* json_append
JsonAppend(doc, segments, value) ==
  LET old == Lookup(doc, segments) IN
  JsonSet(doc, segments,
          Arr(Append(IF old = <<>> THEN <<>> ELSE Elements(old[1]), value)))

JsonOps == {"set", "remove", "merge", "append"}

\* The loop of apply_json_ops.
JsonApply(doc, op) ==
  LET segments == Segments(op.path) IN
  CASE op.op = "set"    -> JsonSet(doc, segments, op.value)
    [] op.op = "remove" -> JsonRemove(doc, segments)
    [] op.op = "merge"  -> JsonMerge(doc, segments, op.value)
    [] op.op = "append" -> JsonAppend(doc, segments, op.value)

ApplyJsonOps(doc, ops) ==
  LET upto[n \in 0..Len(ops)] == IF n = 0 THEN doc ELSE JsonApply(upto[n - 1], ops[n])
  IN upto[Len(ops)]
=============================================================================
