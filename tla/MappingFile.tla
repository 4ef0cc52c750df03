---------------------------- MODULE MappingFile ----------------------------
(***************************************************************************)
(* How the parser judges one entry of a section of the mapping file        *)
(* (_parse_entry and what it calls, config.py 290-433).                    *)
(*                                                                         *)
(* A raw entry has the fields of a Mapping and a shape: "sound",           *)
(* "malformed" (not a mapping, an unknown key, a missing or ill-typed      *)
(* field, a bare signal name), or "oddKey" (an unknown key that is not a   *)
(* text, such as the bare y or on that YAML 1.1 reads as a boolean).  A    *)
(* signal is <<frame, name>>.                                              *)
(***************************************************************************)
EXTENDS Transform

Shapes == {"sound", "malformed", "oddKey"}
Verdicts == {"mapping", "entryError", "raised"}

\* _check_enum_value_type: nothing is asked of the values of a boolean entry.
EnumValueFits(v, type) ==
    CASE type = "boolean" -> TRUE
      [] type = "string"  -> v.kind = "str"
      [] OTHER            -> v.kind \in {"int", "float", "nan"}

\* What pair j of an enum map does to its entry.
PairVerdict(pairs, j, type) ==
    LET v == pairs[j][2]
    IN  IF ~EnumValueFits(v, type) THEN "entryError"
        ELSE IF v.kind = "list" THEN "raised"
        ELSE IF \E k \in 1..(j - 1) : PyEqual(pairs[k][2], v) THEN "entryError"
        ELSE "mapping"

\* The first pair that is refused decides.
EnumVerdict(pairs, type) ==
    LET Refused == {j \in DOMAIN pairs : PairVerdict(pairs, j, type) # "mapping"}
    IN  CASE pairs # <<>> /\ Refused = {} -> "mapping"
          [] \E j \in Refused : PairVerdict(pairs, j, type) = "raised" /\ \A k \in Refused : j <= k -> "raised"
          [] OTHER -> "entryError"

TransformVerdict(spec, type) ==
    CASE spec.op = "linear" /\ spec.scale[1] = 0 -> "entryError"
      [] spec.op = "enum" -> EnumVerdict(spec.map, type)
      [] OTHER -> "mapping"

RangeFits(range) == range = <<>> \/ range[1] <= range[2]

\* Listing the unknown keys joins them as texts, which an odd key is not.
EntryVerdict(raw) ==
    LET verdict == TransformVerdict(raw.transform, raw.type)
    IN  CASE raw.shape = "oddKey"    -> "raised"
          [] raw.shape = "malformed" -> "entryError"
          [] OTHER -> IF verdict = "mapping" /\ ~RangeFits(raw.range) THEN "entryError" ELSE verdict

CanKey(e) == <<e.namespace, e.signal>>
=============================================================================
