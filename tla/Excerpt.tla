------------------------------ MODULE Excerpt ------------------------------
(***************************************************************************)
(* excerpt of both SDKs: keep at most `max` Unicode scalar values of a     *)
(* text and tell whether that cut it.  Rust counts the chars of a string   *)
(* that is well-formed by its type.  TypeScript walks UTF-16 code units,   *)
(* where a scalar beyond the BMP is a high and a low surrogate and either  *)
(* may also stand alone.                                                   *)
(***************************************************************************)
EXTENDS Naturals, Sequences, SequencesExt

\* A BMP scalar, the halves of an astral one, and U+FFFD.
Unit == {"bmp", "high", "low", "U+FFFD"}

\* The items JavaScript's string iterator yields: a high surrogate takes the
\* low one that follows it, every other unit is an item of its own.
CodePoints(units) ==
    FoldLeft(LAMBDA items, unit :
                IF unit = "low" /\ items # <<>> /\ Last(items) = <<"high">>
                THEN Append(Front(items), <<"high", "low">>)
                ELSE Append(items, <<unit>>),
             <<>>, units)

IsLoneSurrogateScalar(item) == item \in {<<"high">>, <<"low">>}

WellFormed(units) == \A item \in ToSet(CodePoints(units)) : ~IsLoneSurrogateScalar(item)

\* What both validators count: chars().count() and Array.from(text).length.
ScalarCount(units) == Len(CodePoints(units))

\* Rust: of a string that holds no lone surrogate.
RustExcerpt(units, max) ==
    LET chars == CodePoints(units)
    IN  [text |-> FlattenSeq(SubSeq(chars, 1, IF max < Len(chars) THEN max
                                              ELSE Len(chars))),
         truncated |-> Len(chars) > max]

\* Mutant: the bound is met before anything is left over.
TsExcerptStopsAtBound(units, max) ==
    LET Step(kept, scalar) ==
            IF kept.truncated THEN kept
            ELSE IF Len(kept.items) >= max THEN [kept EXCEPT !.truncated = TRUE]
            ELSE [items |-> Append(kept.items,
                                   IF IsLoneSurrogateScalar(scalar)
                                   THEN <<"U+FFFD">> ELSE scalar),
                  truncated |-> Len(kept.items) + 1 >= max]
        end == FoldLeft(Step, [items |-> <<>>, truncated |-> FALSE],
                        CodePoints(units))
    IN  [text |-> FlattenSeq(end.items), truncated |-> end.truncated]

\* Mutant: by code units.
TsExcerptByUnits(units, max) ==
    [text |-> SubSeq(units, 1, IF max < Len(units) THEN max ELSE Len(units)),
     truncated |-> Len(units) > max]

\* TypeScript: the loop over the items, left at the first one too many.
TsExcerpt(units, max) ==
    LET Step(kept, scalar) ==
            IF kept.truncated THEN kept
            ELSE IF Len(kept.items) >= max THEN [kept EXCEPT !.truncated = TRUE]
            ELSE [kept EXCEPT !.items =
                    Append(@, IF IsLoneSurrogateScalar(scalar)
                              THEN <<"U+FFFD">> ELSE scalar)]
        end == FoldLeft(Step, [items |-> <<>>, truncated |-> FALSE],
                        CodePoints(units))
    IN  [text |-> FlattenSeq(end.items), truncated |-> end.truncated]
=============================================================================
