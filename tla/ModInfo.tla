------------------------------ MODULE ModInfo ------------------------------
(****************************************************************************)
(* Sizes and field offsets of types (include/ModInfo.h).  A type is a base, *)
(* "ptr", "int" or the name of a struct, behind any number of arrays:       *)
(* arrays are stripped wherever they are met, so all elements are one.      *)
(****************************************************************************)
EXTENDS Naturals, Sequences, FiniteSets, SequencesExt

CONSTANTS
    Struct,      \* names of struct types
    Fields       \* Fields[s]: the types of the fields of s

Base == Struct \cup {"ptr", "int"}
Type == [base : Base, array : BOOLEAN]

ASSUME StructsOK == Fields \in [Struct -> Seq(Type)] /\ Struct # {}

IsStruct(t) == t.base \in Struct

\* Sum of v(t) over the types of a sequence.
SumOver(ts, v(_)) == FoldLeft(LAMBDA n, t : n + v(t), 0, ts)

\* StructInfo::sizes_ has one entry for each field of each nested struct.
StructSize[s \in Struct] ==
    SumOver(Fields[s], LAMBDA t : IF IsStruct(t) THEN StructSize[t.base] ELSE 1)
getSizeOfType(t) == IF IsStruct(t) THEN StructSize[t.base] ELSE 1

numFields(s) == Len(Fields[s])
\* (wrong: the last field is not counted)
numSizes_Short(s) == StructSize[s] - 1
numSizes(s)  == StructSize[s]

\* StructInfo::offsets_: a nested struct counts as many as it has fields, the
\* fields of structs nested in that one not among them.
getFieldOffset(s, i) ==
    SumOver(SubSeq(Fields[s], 1, i), LAMBDA t : IF IsStruct(t) THEN numFields(t.base) ELSE 1)

\* A largest struct of the module, the first one of that size in the code.
getMaxStructInfo == CHOOSE s \in Struct : \A r \in Struct : StructSize[r] <= StructSize[s]

\* A path is a sequence of steps, each a field of a struct (LLVMHelper::getGEPOffs).
getGEPOffs(path) == SumOver(path, LAMBDA p : getFieldOffset(p.struct, p.field))
=============================================================================
