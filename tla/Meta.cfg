CONSTANTS
    A = A  B = B  C = C  D = D  E = E
    T1 = T1  T2 = T2
    act = act  name = name  size = size  number = number  text = text
    o1 = o1  o2 = o2
    NoClass = NoClass
    NoAsk = NoAsk
    Types <- Classes
    Threads = {T1, T2}
    Edges <- Conversions
    Queries <- Asked
    MaxAdds = 10
    Super <- Bases
    NameOf <- Names
    Declared <- OwnMembers
    Malformed = {D}
    Methods = {act}
    Properties = {name, size}
    ValueTypes = {number, text}
    Objects = {o1, o2}
    ClassOf <- ObjectClasses
    Scenarios <- Scenes
SPECIFICATION MetaSpec
SYMMETRY Symmetry
INVARIANTS ConversionsCompose PublishedConverts HandlesConvert FindsWhatItLists CopiesApart
PROPERTIES AssignsWhole
CHECK_DEADLOCK FALSE
