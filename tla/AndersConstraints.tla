------------------------- MODULE AndersConstraints -------------------------
(****************************************************************************)
(* The input of the points-to solvers and its meaning: the inclusion        *)
(* constraints collected by Cg (include/Cg.h), the calls through function   *)
(* pointers, the functions they may reach, and what it is for a points-to   *)
(* assignment to satisfy all of them.                                       *)
(*                                                                          *)
(* Values and objects share one name space, ValueMap::Id; the two special   *)
(* ids NullValue and IntValue name no object.                               *)
(****************************************************************************)
EXTENDS Naturals, Sequences, FiniteSets

CONSTANTS
    Id,          \* values and abstract objects (ValueMap::Id)
    NullValue,   \* ValueMap::NullValue
    IntValue,    \* ValueMap::IntValue
    NoId,        \* ValueMap::Id::invalid()
    Offs,        \* the offsets that occur in Copy constraints, 0 among them
    GepTab,      \* GepTab[<<o, k>>]: the object k fields into o (BddPtstoSet::geps_)
    Call,        \* calls through a function pointer (Cg::indirCalls)
    CallInfo,    \* CallInfo[c]: called value, actual arguments, result
    Fn,          \* objects that are functions (ValueMap::getValue(id))
    Declared,    \* functions without a body: external calls
    Skipped,     \* functions the profile never saw run, when speculating
    FnInfo,      \* FnInfo[f]: formal arguments and returned value
    ExtCons      \* ExtCons[<<c, f>>]: constraints ExtInfo adds for external f

Special == {NullValue, IntValue}
Obj     == Id \ Special

ConsType   == {"AddressOf", "Copy", "Load", "Store"}
Constraint == [type : ConsType, src : Id, dest : Id, offs : Offs]

CallRecord == [fp : Id, args : Seq(Id), ret : Id]
FnRecord   == [args : Seq(Obj), ret : Obj \cup {NoId}]

(***************************************************************************)
(* AndersGraph::addConstraint drops what touches the null value, except a  *)
(* copy out of it.                                                         *)
(***************************************************************************)
Kept(c) ==
    /\ c.dest # NullValue
    /\ c.type = "Copy" \/ c.src # NullValue

\* The constraint generator of Cg writes neither special value and takes the
\* address of objects only (the asserts of AndersCons::process rely on it).
\* The one constraint of Cg that names IntValue as its destination, the load
\* of an integer through a pointer to pointers (Cg.cpp:547-557), reads through
\* a value that never points to anything, and is left out.
WellFormed(cs) ==
    \A c \in cs : Kept(c) =>
       /\ c.type # "Store" => c.dest \notin Special
       /\ c.type = "AddressOf" => c.src \notin Special

IsCopy(c) == c.type = "Copy" /\ c.offs = 0
IsGep(c)  == c.type = "Copy" /\ c.offs # 0

ASSUME ConstantsOK ==
    /\ NullValue \in Id /\ IntValue \in Id /\ NullValue # IntValue
    /\ NoId \notin Id
    /\ Offs \subseteq Nat /\ 0 \in Offs
    /\ GepTab \in [Obj \X Offs -> Obj]
    /\ CallInfo \in [Call -> CallRecord]
    /\ Fn \subseteq Obj /\ Declared \subseteq Fn /\ Skipped \subseteq Fn
    /\ FnInfo \in [Fn -> FnRecord]
    /\ ExtCons \in [Call \X Fn -> SUBSET Constraint]
    /\ \A c \in Call, f \in Fn : WellFormed(ExtCons[<<c, f>>])

\* The fields k into the objects of a set (BddPtstoSet::orOffs after the
\* special values were reset).
GepImage(S, k) == {GepTab[<<o, k>>] : o \in S \ Special}

(***************************************************************************)
(* The pairs <<from, to>> along which a call of f at c moves values.       *)
(***************************************************************************)
Formals(c, f) ==
    {i \in 1 .. Len(CallInfo[c].args) : i <= Len(FnInfo[f].args)}
ArgPairs(c, f) ==
    {<<CallInfo[c].args[i], FnInfo[f].args[i]>> : i \in Formals(c, f)}
RetPairs(c, f) ==
    IF FnInfo[f].ret = NoId THEN {} ELSE {<<FnInfo[f].ret, CallInfo[c].ret>>}

\* Functions whose body is linked to the call: declared ones only add
\* constraints and skipped ones are assumed never to be called.
Linked(f)   == f \in Fn \ (Declared \cup Skipped)
External(f) == f \in Declared

(***************************************************************************)
(* What each part of the input demands of an assignment M \in [Id ->       *)
(* SUBSET Id], compared on the objects of a set Watch: Obj for the flow of *)
(* objects, Id when the special values have to follow as well.             *)
(***************************************************************************)
Flows(M, a, b, Watch) == M[a] \cap Watch \subseteq M[b]

SatisfiesCons(M, c, Watch) ==
    /\ c.type = "AddressOf" => c.src \in M[c.dest]
    /\ IsCopy(c) => Flows(M, c.src, c.dest, Watch)
    /\ IsGep(c)  => GepImage(M[c.src], c.offs) \subseteq M[c.dest]
    /\ c.type = "Load" =>
         \A o \in M[c.src] \ Special : Flows(M, o, c.dest, Watch)
    /\ c.type = "Store" /\ c.src \notin Special =>
         \A o \in M[c.dest] \ Special : Flows(M, c.src, o, Watch)

SatisfiesLink(M, c, f, Watch) ==
    /\ \A p \in ArgPairs(c, f) :
          IF p[1] \in Special
            THEN p[1] \in Watch => p[1] \in M[p[2]]
            ELSE Flows(M, p[1], p[2], Watch)
    /\ \A p \in RetPairs(c, f) : p[2] \in Special \/ Flows(M, p[1], p[2], Watch)

SatisfiesCall(M, c, Watch) ==
    \A f \in M[CallInfo[c].fp] \cap Fn :
       /\ Linked(f) => SatisfiesLink(M, c, f, Watch)
       /\ External(f) => \A k \in ExtCons[<<c, f>>] :
                            Kept(k) => SatisfiesCons(M, k, Watch)

SatisfiesAll(M, cons, Watch) ==
    \A c \in cons : Kept(c) => SatisfiesCons(M, c, Watch)
=============================================================================
