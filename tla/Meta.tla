------------------------------- MODULE Meta --------------------------------
(***************************************************************************)
(* vmeta.h on top of the registry of vany.h.  static_meta builds a class's *)
(* metadata once: the base's first, then the conversions between the two   *)
(* handle types, then its name in the index.  A reflective call looks a    *)
(* member up in the object's own map, then along the bases, and converts   *)
(* the object's handle to the one the member was registered for.  Each     *)
(* object has descriptors of its own, which copies clone.                  *)
(***************************************************************************)
EXTENDS AnyRegistry

CONSTANTS
    Super,       \* [Types -> the base that V_META names, or NoClass]
    NameOf,      \* [Types -> META_NAME]
    Declared,    \* [Types -> the members that V_META registers]
    Malformed,   \* classes that register a member twice
    Methods, Properties,   \* the members: signatures, and names of properties
    ValueTypes,  \* types of property values
    Objects,     \* objects, of the class ClassOf
    ClassOf,
    NoClass, NoAsk,
    Scenarios    \* where the program is: [built, threads, objects, edits, adds], see MetaInit

Members == Methods \cup Properties
Base(c) == {s \in Types : s = Super[c]}

\* A class and all its bases.
Above[c \in Types] == {c} \cup UNION {Above[s] : s \in Base(c)}

\* The conversions that a class registers, and all that its handles need.
OwnEdges(c) == {<<s, c>> : s \in Base(c)} \cup {<<c, s>> : s \in Base(c)}
ChainEdges(c) == UNION {OwnEdges(x) : x \in Above[c]}

ASSUME MetaAssumption ==
    /\ Super \in [Types -> Types \cup {NoClass}] /\ ClassOf \in [Objects -> Types]
    /\ Declared \in [Types -> SUBSET Members] /\ Malformed \subseteq Types
    /\ Methods \cap Properties = {} /\ IsFiniteSet(Objects) /\ IsFiniteSet(Members)
    /\ NoClass \notin Types
    /\ UNION {OwnEdges(c) : c \in Types} \subseteq Edges

\* A class is complete before another derives from it.
ASSUME InheritanceAssumption == \A S \in SUBSET Types : S # {} => \E c \in S : Base(c) \cap S = {}

\* The classes whose metadata is there have names of their own, and bases that are there.
ASSUME ScenarioAssumption == \A s \in Scenarios :
    /\ s.built \subseteq Types /\ \A c \in s.built : Base(c) \subseteq s.built
    /\ \A c, d \in s.built : NameOf[c] = NameOf[d] => c = d
    /\ s.adds \in 0 .. MaxAdds /\ s.edits \in Nat

VARIABLES
    meta,      \* the guard of each static_meta: "none", "building" or "built"
    index,     \* mutable_index: [names -> the class found by it, or NoClass]
    stack,     \* [Threads -> its calls of static_meta, innermost first]
    dynamic,   \* dynamic_props and dynamic_methods: [Objects -> [Members -> descriptor or 0]]
    heap,      \* [descriptors -> [type, value]]: object_type or value_type, and the state
    asks,      \* [Threads -> the member it is calling on what, or NoAsk]
    copying,   \* [Threads -> its copy of an object's two maps, or NoAsk]
    live,      \* the objects that exist
    edits,     \* bound: operations on objects' maps that are left
    active     \* bound: threads that take part

objects == <<dynamic, heap, copying, live, edits>>
metaVars == <<meta, index, stack, objects, asks, active>>
all == <<vars, metaVars>>

Ids == 1 .. 3 * Cardinality(Objects) * Cardinality(Members)
Built == {c \in Types : meta[c] = "built"}
Known == Built \cup ({index[NameOf[c]] : c \in Types} \ {NoClass})
Free(t) == t \in active /\ At(t, "idle") /\ stack[t] = <<>> /\ asks[t] = NoAsk /\ copying[t] = NoAsk
Bare == [m \in Members |-> 0]

\* A program that starts, or one whose classes `built` have their metadata.
MetaInit ==
    /\ \E s \in Scenarios :
         /\ meta = [c \in Types |-> IF c \in s.built THEN "built" ELSE "none"]
         /\ index = [n \in {NameOf[c] : c \in Types} |->
              IF \E c \in s.built : NameOf[c] = n THEN CHOOSE c \in s.built : NameOf[c] = n ELSE NoClass]
         /\ converters = [k \in Edges |-> IF \E c \in s.built : k \in OwnEdges(c) THEN 1 ELSE 0]
         /\ active \in {a \in SUBSET Threads : Cardinality(a) = s.threads}
         /\ live \in {x \in SUBSET Objects : Cardinality(x) = s.objects}
         /\ edits = s.edits
         /\ adds = MaxAdds - s.adds
    /\ call = [t \in Threads |-> Idle]
    /\ stack = [t \in Threads |-> <<>>]
    /\ dynamic = [o \in Objects |-> Bare] /\ heap = [d \in Ids |-> [type |-> NoClass, value |-> 0]]
    /\ asks = [t \in Threads |-> NoAsk] /\ copying = [t \in Threads |-> NoAsk]

-----------------------------------------------------------------------------
(* static_meta: the initializer of a static, run by the first who comes;   *)
(* others wait, and the next one tries again if it throws.                 *)

In(t, at) == stack[t] # <<>> /\ Head(stack[t]).at = at
Class(t) == Head(stack[t]).class
Goto(t, at) == stack' = [stack EXCEPT ![t][1].at = at]
Push(t, c) ==
    /\ meta[c] = "none"
    /\ meta' = [meta EXCEPT ![c] = "building"]
    /\ stack' = [stack EXCEPT ![t] = <<[class |-> c, at |-> "base"]>> \o @]

StaticMeta(t, c) ==
    /\ Free(t) /\ Push(t, c)
    /\ UNCHANGED <<vars, index, objects, asks, active>>

\* The argument SUPER::static_meta() may have to be built first.
BuildBase(t) ==
    /\ In(t, "base")
    /\ \E s \in Base(Class(t)) : Push(t, s)
    /\ UNCHANGED <<vars, index, objects, asks, active>>

\* What an exception leaves behind: no static was initialized.
Unwind(t) ==
    /\ meta' = [c \in Types |-> IF \E i \in DOMAIN stack[t] : stack[t][i].class = c THEN "none" ELSE meta[c]]
    /\ stack' = [stack EXCEPT ![t] = <<>>]

\* Mutant: the name is published before the conversions.
NameFirst == <<"register", "up", "down", "return">>

BuildOrder == <<"up", "down", "register", "return">>
After(at) == BuildOrder[1 + CHOOSE i \in 1 .. 3 : BuildOrder[i] = at]

\* The members are added, of which none may be there already.
Construct(t) ==
    /\ In(t, "base") /\ Base(Class(t)) \subseteq Built
    /\ IF Class(t) \in Malformed
       THEN Unwind(t)
       ELSE Goto(t, BuildOrder[1]) /\ UNCHANGED meta
    /\ UNCHANGED <<vars, index, objects, asks, active>>

\* Mutant: only the conversion to the base is registered.
UpOnly(c) == {<<s, c>> : s \in Base(c)}

Pairs(c) == OwnEdges(c)

\* register_meta_base_conversion: first to the base, then from it.
RegisterConversion(t) ==
    /\ In(t, "up") \/ In(t, "down")
    /\ LET c == Class(t)
           k == IF In(t, "up") THEN <<Super[c], c>> ELSE <<c, Super[c]>>
       IN /\ Goto(t, After(Head(stack[t]).at))
          /\ IF k \in Pairs(c) THEN Add(t, k) ELSE UNCHANGED vars
    /\ UNCHANGED <<meta, index, objects, asks, active>>

Taken(c) == index[NameOf[c]] \notin {NoClass, c}

\* register_type, under the lock of the index.
RegisterType(t) ==
    /\ In(t, "register")
    /\ LET c == Class(t) IN
       IF Taken(c)
       THEN Unwind(t) /\ UNCHANGED index
       ELSE /\ index' = [index EXCEPT ![NameOf[c]] = IF @ = NoClass THEN c ELSE @]
            /\ Goto(t, After("register")) /\ UNCHANGED meta
    /\ UNCHANGED <<vars, objects, asks, active>>

\* The static is initialized, and who waited for it goes on.
ReturnMeta(t) ==
    /\ In(t, "return")
    /\ meta' = [meta EXCEPT ![Class(t)] = "built"]
    /\ stack' = [stack EXCEPT ![t] = Tail(@)]
    /\ UNCHANGED <<vars, index, objects, asks, active>>

-----------------------------------------------------------------------------
(* An object's own members, each a descriptor of its own.  The program     *)
(* lets one thread at a time use an object, as the document asks: these    *)
(* operations are single steps, and copies, which may fail in the middle,  *)
(* are not.                                                                *)

Handles(o) == Above[ClassOf[o]]
MayEdit(t, o) == Free(t) /\ o \in live /\ edits > 0 /\ \A u \in Threads : copying[u] = NoAsk /\ asks[u] = NoAsk

\* Not in any map, nor in a copy under way; the least, as they are all alike.
Unused(d) ==
    /\ \A o \in Objects, m \in Members : dynamic[o][m] # d
    /\ \A t \in Threads : copying[t] # NoAsk => \A m \in Members : copying[t].done[m] # d
NewId == CHOOSE d \in Ids : Unused(d) /\ \A e \in 1 .. d - 1 : ~Unused(e)
Store(o, m, type) ==
    /\ dynamic' = [dynamic EXCEPT ![o][m] = NewId]
    /\ heap' = [heap EXCEPT ![NewId] = [type |-> type, value |-> 0]]

\* set_method, through a handle of type h: the descriptor is made first.
SetMethod(t, o, h, m) ==
    /\ MayEdit(t, o) /\ m \in Methods /\ h \in Handles(o)
    /\ Store(o, m, h)
    /\ edits' = edits - 1
    /\ UNCHANGED <<vars, meta, index, stack, asks, copying, live, active>>

\* set_dynamic_property: a new one, with its value, or another value for the one
\* that is there; of a value of another type nothing is changed.
SetDynamicProperty(t, o, m, type) ==
    /\ MayEdit(t, o) /\ m \in Properties
    /\ \/ dynamic[o][m] = 0 /\ Store(o, m, type)
       \/ /\ dynamic[o][m] # 0 /\ heap[dynamic[o][m]].type = type
          /\ heap' = [heap EXCEPT ![dynamic[o][m]].value = 1]
          /\ UNCHANGED dynamic
    /\ edits' = edits - 1
    /\ UNCHANGED <<vars, meta, index, stack, asks, copying, live, active>>

\* The defaulted copy constructor and assignment of an object copy its two maps one
\* after the other, the properties first.  Each map's descriptors are cloned one by one.
StartCopy(t, from, to) ==
    /\ MayEdit(t, from) /\ ClassOf[from] = ClassOf[to] /\ (to \in live \/ from # to)
    /\ copying' = [copying EXCEPT ![t] = [from |-> from, to |-> to, map |-> "properties", done |-> Bare]]
    /\ edits' = edits - 1
    /\ UNCHANGED <<vars, meta, index, stack, asks, dynamic, heap, live, active>>

MapOf(c) == IF c.map = "properties" THEN Properties ELSE Methods

\* The members that the map lacks yet.
Missing(c) == {m \in MapOf(c) : dynamic[c.from][m] # 0 /\ c.done[m] = 0}

\* Mutant: an assignment clones into the object that is assigned to.
InPlace(c, m, d) == IF c.to \in live THEN [dynamic EXCEPT ![c.to][m] = d] ELSE dynamic

Aside(c, m, d) == dynamic

\* Mutant: the copy shares the descriptors.
SharesIt(d) == d

Cloned(d) == NewId

CloneOne(t, m) ==
    /\ copying[t] # NoAsk
    /\ LET c == copying[t]
           old == dynamic[c.from][m]
           new == Cloned(old)
       IN /\ m \in Missing(c)
          /\ copying' = [copying EXCEPT ![t].done[m] = new]
          /\ heap' = [heap EXCEPT ![new] = heap[old]]
          /\ dynamic' = Aside(c, m, new)
    /\ UNCHANGED <<vars, meta, index, stack, asks, live, edits, active>>

\* A clone throws, as one of a descriptor of the application may.  The clones of this
\* map go.  An object that is assigned to keeps what was swapped in, the properties
\* when a method throws; one that was being made does not come to be.
CloneThrows(t) ==
    /\ copying[t] # NoAsk
    /\ LET c == copying[t] IN
       /\ Missing(c) # {}
       /\ dynamic' = IF c.to \in live THEN dynamic ELSE [dynamic EXCEPT ![c.to] = Bare]
    /\ copying' = [copying EXCEPT ![t] = NoAsk]
    /\ UNCHANGED <<vars, meta, index, stack, asks, heap, live, edits, active>>

\* All of this map are cloned: it is swapped in.
Swap(t) ==
    LET c == copying[t] IN
    /\ c # NoAsk /\ Missing(c) = {}
    /\ dynamic' = [dynamic EXCEPT ![c.to] = [m \in Members |-> IF m \in MapOf(c) THEN c.done[m] ELSE @[m]]]

\* The turn of the methods.
EndProperties(t) ==
    /\ Swap(t) /\ copying[t].map = "properties"
    /\ copying' = [copying EXCEPT ![t] = [@ EXCEPT !.map = "methods", !.done = Bare]]
    /\ UNCHANGED <<vars, meta, index, stack, asks, heap, live, edits, active>>

\* The object is copied.
EndCopy(t) ==
    /\ Swap(t) /\ copying[t].map = "methods"
    /\ live' = live \cup {copying[t].to}
    /\ copying' = [copying EXCEPT ![t] = NoAsk]
    /\ UNCHANGED <<vars, meta, index, stack, asks, heap, edits, active>>

-----------------------------------------------------------------------------
(* Lookups and calls.  A map's entry is a descriptor of the object's own,  *)
(* or a member of a class.                                                 *)

Absent == [own |-> 0, class |-> NoClass]
DynamicMap(o) == [m \in Members |-> [own |-> dynamic[o][m], class |-> NoClass]]
ClassMap(c) == [m \in Members |-> [own |-> 0, class |-> IF m \in Declared[c] THEN c ELSE NoClass]]

\* _find_static_property and _find_static_method.
FindStatic[c \in Types] == [m \in Members |->
    IF m \in Declared[c] \/ Base(c) = {} THEN ClassMap(c)[m] ELSE FindStatic[Super[c]][m]]

\* find_property and find_method, in the metadata of c.
Find(c, o, m) == IF dynamic[o][m] # 0 THEN DynamicMap(o)[m] ELSE FindStatic[c][m]

\* The bases in the order of _super.
Line[c \in Types] == <<c>> \o (IF Base(c) = {} THEN <<>> ELSE Line[Super[c]])

\* Mutant: a base's entry replaces what was collected.
Assigned(map, more) == [m \in Members |-> IF more[m] # Absent THEN more[m] ELSE map[m]]

Emplaced(map, more) == [m \in Members |-> IF map[m] # Absent THEN map[m] ELSE more[m]]

\* _collect_properties and _collect_methods.
Collect(c, o) ==
    LET upto[i \in 0 .. Len(Line[c])] ==
          IF i = 0 THEN DynamicMap(o) ELSE Emplaced(upto[i - 1], ClassMap(Line[c][i]))
    IN upto[Len(Line[c])]

\* object_type: what the object's handle has to be.
Target(e) == IF e.own # 0 THEN heap[e.own].type ELSE e.class

\* A dynamic method may change its own state.
Run(e) == heap' = IF e.own # 0 THEN [heap EXCEPT ![e.own].value = 1] ELSE heap

\* invoke_method, and set_property and get_property of a static property: by the
\* metadata of the object or, as found in the index, of one of its bases, through
\* a handle of type h, which is converted unless it is of the type that is needed.
\* `ready` is history.
Invoke(t, o, h, c, m) ==
    /\ Free(t) /\ o \in live /\ h \in Handles(o) /\ c \in Known \cap Handles(o)
    /\ \A u \in Threads : copying[u] = NoAsk
    /\ LET e == Find(c, o, m) IN
       /\ e # Absent /\ (m \in Methods \/ e.own = 0)
       /\ IF Target(e) = h
          THEN Run(e) /\ UNCHANGED <<vars, asks>>
          ELSE /\ Convert(t, Target(e), h)
               /\ asks' = [asks EXCEPT ![t] = [object |-> o, entry |-> e, ready |-> {h, Target(e)} \subseteq Built]]
               /\ UNCHANGED heap
    /\ UNCHANGED <<meta, index, stack, dynamic, copying, live, edits, active>>

\* The casts are dynamic: a handle of another line of classes would be null.
Fits(c, o) == \A i \in DOMAIN c.functions : c.functions[i][1][1] \in Handles(o)

\* The member runs, or the object is refused: no conversion, or a null handle.
EndInvoke(t) ==
    /\ asks[t] # NoAsk
    /\ Return(t)
    /\ IF At(t, "found") /\ Fits(call[t], asks[t].object) THEN Run(asks[t].entry) ELSE UNCHANGED heap
    /\ asks' = [asks EXCEPT ![t] = NoAsk]
    /\ UNCHANGED <<meta, index, stack, dynamic, copying, live, edits, active>>

-----------------------------------------------------------------------------
\* The application's own use of the registry.
Application(t) ==
    /\ \/ Free(t) /\ \E q \in Queries : Convert(t, q[1], q[2])
       \/ Free(t) /\ \E k \in Edges \ UNION {OwnEdges(c) : c \in Types} : Add(t, k)
       \/ asks[t] = NoAsk /\ Return(t)
    /\ UNCHANGED metaVars

Search(t) ==
    /\ NextStep(t) \/ NoPath(t) \/ \E k \in Edges : Visit(t, k)
    /\ UNCHANGED metaVars

Build(t) == BuildBase(t) \/ Construct(t) \/ RegisterConversion(t) \/ RegisterType(t) \/ ReturnMeta(t)

Edit(t) ==
    \/ \E o \in Objects, h \in Types, m \in Members : SetMethod(t, o, h, m)
    \/ \E o \in Objects, ty \in ValueTypes, m \in Members : SetDynamicProperty(t, o, m, ty)
    \/ \E o, p \in Objects : StartCopy(t, o, p)

Use(t) == EndInvoke(t) \/ \E o \in Objects, h, c \in Types, m \in Members : Invoke(t, o, h, c, m)

Copy(t) == CloneThrows(t) \/ EndProperties(t) \/ EndCopy(t) \/ \E m \in Members : CloneOne(t, m)

MetaNext == \E t \in Threads :
    \/ \E c \in Types : StaticMeta(t, c)
    \/ Build(t) \/ Search(t) \/ Application(t) \/ Edit(t) \/ Copy(t) \/ Use(t)

MetaSpec == MetaInit /\ [][MetaNext]_all

-----------------------------------------------------------------------------
(* Properties.                                                             *)

\* docs/vmeta.md: "Automatic shared-pointer conversions are registered in both
\* directions for reflected inheritance edges."  Whoever finds a class's metadata, in
\* the index or from static_meta, although other threads build it and its relatives
\* and some of them fail, finds the conversions along all its bases and their metadata.
\* docs/vmeta.md: "Duplicate names fail explicitly rather than resolving to the first
\* unrelated type."  A class whose static_meta returned is what its name stands for,
\* whichever of two threads was first with the name and however often it was tried.
PublishedConverts ==
    /\ \A c \in Known : ChainEdges(c) \subseteq Registered /\ Above[c] \ {c} \subseteq Built
    /\ \A c \in Built : index[NameOf[c]] = c

\* A member that was found can be called through each handle of the object: the search
\* finds a way between classes whose metadata is built, and no handle on the way is
\* null, as it does not leave the object's own line of classes.
HandlesConvert == \A t \in Threads : asks[t] # NoAsk =>
    /\ At(t, "none") => ~asks[t].ready
    /\ At(t, "found") => Fits(call[t], asks[t].object)

\* The conversions of the application lead along the line of an object's classes, or
\* from types that have no base in common with it.
OnLine == \A k \in Edges \ UNION {OwnEdges(c) : c \in Types}, o \in Objects :
    {k[1], k[2]} \subseteq Handles(o) \/ Above[k[2]] \cap Handles(o) = {}

\* properties() and methods() list what find_property and find_method find, for each
\* object and in the metadata of each of its classes: the object's own member, or that
\* of the most derived class.
FindsWhatItLists == \A o \in live : \A c \in Handles(o), m \in Members : Find(c, o, m) = Collect(c, o)[m]

\* docs/vmeta.md: "Copying a reflected object clones its dynamic property values and
\* dynamic method descriptors": no two maps share one, whatever was copied or assigned,
\* to itself too, so that what is set or called on one object changes no other.
CopiesApart == \A o, p \in Objects, m, n \in Members :
    dynamic[o][m] # 0 /\ dynamic[o][m] = dynamic[p][n] => o = p /\ m = n

\* What is seen of one of an object's maps, or of both.
View(o, map) == [m \in map |-> IF dynamic[o][m] = 0 THEN Absent ELSE heap[dynamic[o][m]]]

\* An assignment changes each of the two maps at once to that of the original, although
\* any clone may throw, and the methods only after the properties: whatever is thrown, the
\* object has its own members, those of the original, or the original's properties with
\* its own methods.  An object that is made comes to be with all of the original's.
AssignsWhole == [][\A t \in Threads, o, q \in Objects :
    copying[t] # NoAsk /\ copying[t].from = o /\ copying[t].to = q =>
        IF q \in live
        THEN /\ \A map \in {Properties, Methods} : View(q, map)' \in {View(q, map), View(o, map)}
             /\ View(q, Methods)' # View(q, Methods) => View(q, Properties)' = View(o, Properties)
        ELSE q \in live' => View(q, Members)' = View(o, Members)]_all
=============================================================================
