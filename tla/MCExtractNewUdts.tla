-------------------------- MODULE MCExtractNewUdts --------------------------
(* Model-checking instance of ExtractNewUdts: a point, a tag, and a        *)
(* segment holding a point and an array of tags, used directly, in arrays *)
(* and inside tuples.                                                      *)
EXTENDS ExtractNewUdts

Point   == CompT("point", <<IntT(4), IntT(4)>>)
Tag     == CompT("tag", <<TextT>>)
Segment == CompT("segment", <<Point, ArrT(Tag)>>)

ParamTypes ==
    { IntT(8), TextT, Point, ArrT(Point), Segment, ArrT(Segment),
      CompT("tuple", <<TimeT, Tag>>), ArrT(CompT("tuple", <<Point>>)) }

MCUdts == {"point", "tag", "segment"}

(* Argument lists of one or two parameters.                                *)
MCArgLists == {<<t>> : t \in ParamTypes} \cup {<<t, u>> : t, u \in ParamTypes}
=============================================================================
