----------------------------------- MODULE Btf ------------------------------------
(***************************************************************************)
(* The type information (BTF) of the loop_pointer_arithmetic program: its     *)
(* types, its header, and generateBTF, which lays out both sections and       *)
(* fills in the header's lengths at the end (btf.go).                         *)
(*                                                                           *)
(* Every field of a type is a word of 4 bytes, written as the set of its one   *)
(* bits.                                                                     *)
(***************************************************************************)
EXTENDS GoIntegers, Sequences

VARIABLES bpc,            \* "idle", "types", "strings", "done", "returned"
          written,        \* types, or characters, appended so far
          types_buff,     \* words of the type section
          string_buff,    \* bytes of the string section
          header          \* the lengths and offsets of btf_proto.Header

bvars == <<bpc, written, types_buff, string_buff, header>>

BtfKind == [INT |-> 1, PTR |-> 2, STRUCT |-> 4, FUNC |-> 12, FUNCPROTO |-> 13]

\* NameOff, Info, SizeOrType, and Extra's numbers in their order; kind_flag is
\* false in all types.
BtfType(name_off, vlen, kind, size_or_type, extra) ==
    [name_off |-> name_off, vlen |-> vlen, kind |-> BtfKind[kind],
     size_or_type |-> size_or_type, extra |-> extra]

types ==
    << BtfType(0, 0, "FUNCPROTO", 0, <<>>),
       BtfType(1, 0, "FUNC", 1, <<>>),
       BtfType(1, 0, "INT", 4, <<16777248>>),
       BtfType(1, 1, "STRUCT", 4, <<1, 3, 0>>),
       BtfType(0, 0, "PTR", 4, <<>>),
       BtfType(0, 2, "FUNCPROTO", 3, <<1, 3, 1, 5>>),
       BtfType(1, 0, "FUNC", 6, <<>>) >>

\* StringSection.Str, "buzzer"; a byte is 0 or not.
Str == <<1, 1, 1, 1, 1, 1>>

NoHeader == [HdrLen |-> 0, TypeOff |-> 0, TypeLen |-> 0, StrOff |-> 0, StrLen |-> 0]

BtfIdle ==
    bpc = "idle" /\ written = 0 /\ types_buff = <<>> /\ string_buff = <<>> /\ header = NoHeader

--------------------------------------------------------------------------------

\* SetHeaderSection is called before there are sections, whose proto.Size is 0.
SetHeaderSection ==
    /\ bpc \in {"idle", "returned"}
    /\ bpc' = "types" /\ written' = 0
    /\ types_buff' = <<>> /\ string_buff' = <<>>
    /\ header' = [NoHeader EXCEPT !.HdrLen = 24]

encodeTypeInfo(t) == Bits(t.vlen) \cup Shl(Bits(t.kind), 24, 32)

\* One turn of generateBTF's first loop, as binary.Write puts it out.
AppendType ==
    /\ bpc = "types" /\ written < Len(types)
    /\ LET t == types[written + 1]
       IN  types_buff' = types_buff \o <<Bits(t.name_off), encodeTypeInfo(t), Bits(t.size_or_type)>>
                                    \o [k \in 1 .. Len(t.extra) |-> Bits(t.extra[k])]
    /\ written' = written + 1
    /\ UNCHANGED <<bpc, string_buff, header>>

\* "The first string in the string section must be a null string."
BeginStrings ==
    /\ bpc = "types" /\ written = Len(types)
    /\ bpc' = "strings" /\ written' = 0
    /\ string_buff' = <<0>>
    /\ UNCHANGED <<types_buff, header>>

\* Each character becomes a string of its own.
AppendCharacter ==
    /\ bpc = "strings" /\ written < Len(Str)
    /\ string_buff' = string_buff \o <<Str[written + 1], 0>>
    /\ written' = written + 1
    /\ UNCHANGED <<bpc, types_buff, header>>

\* The mistake of keeping the lengths of SetHeaderSection.
FillHeaderNot ==
    /\ bpc = "strings" /\ written = Len(Str)
    /\ bpc' = "done"
    /\ UNCHANGED <<written, types_buff, string_buff, header>>

\* The lengths replace those of SetHeaderSection, and the buffers are joined.
FillHeader ==
    /\ bpc = "strings" /\ written = Len(Str)
    /\ bpc' = "done"
    /\ header' = [header EXCEPT !.TypeLen = 4 * Len(types_buff), !.StrOff = 4 * Len(types_buff),
                                !.StrLen = Len(string_buff)]
    /\ UNCHANGED <<written, types_buff, string_buff>>

\* GetBuffer returns.
ReturnBuffer == bpc = "done" /\ bpc' = "returned" /\ UNCHANGED <<written, types_buff, string_buff, header>>

BtfStep == AppendType \/ BeginStrings \/ AppendCharacter \/ FillHeader

--------------------------------------------------------------------------------
(* The kernel's reader: struct btf_header and struct btf_type *)

\* The bytes of header_data: a uint16, two uint8 and five int32.
HeaderSize == 2 + 1 + 1 + 5 * 4

Info(p)    == types_buff[p + 2]
Vlen(p)    == CHOOSE n \in 0 .. 7 : Bits(n) = Field(Info(p), 0, 16)
Is(p, kind) == Field(Info(p), 24, 5) = Bits(BtfKind[kind])
Ref(p)     == types_buff[p + 3]

\* Words of the type that begins after word p.
Size(p) ==
    3 + CASE Is(p, "INT")       -> 1
          [] Is(p, "STRUCT")    -> 3 * Vlen(p)
          [] Is(p, "FUNCPROTO") -> 2 * Vlen(p)
          [] OTHER              -> 0

\* Where type id begins, found by going through the types before it.
Start[id \in 1 .. (Len(types) + 1)] ==
    IF id = 1 THEN 0 ELSE LET p == Start[id - 1] IN p + Size(p)

\* The kernel's checks of the two sections against the header.
SectionsFit ==
    /\ header.HdrLen = HeaderSize
    /\ header.TypeOff = 0
    /\ header.TypeOff + header.TypeLen = header.StrOff
    /\ header.TypeLen = 4 * Len(types_buff)
    /\ header.StrLen = Len(string_buff)
    /\ string_buff[1] = 0 /\ string_buff[header.StrLen] = 0

\* The names of a type: its own, its members' and its parameters'.
Names(p) ==
    {types_buff[p + 1]} \cup
        (IF Is(p, "STRUCT") THEN {types_buff[p + 1 + 3 * n] : n \in 1 .. Vlen(p)} ELSE {}) \cup
        (IF Is(p, "FUNCPROTO") THEN {types_buff[p + 2 + 2 * n] : n \in 1 .. Vlen(p)} ELSE {})

\* The types a type refers to.
Refs(p) ==
    (IF Is(p, "PTR") \/ Is(p, "FUNC") \/ Is(p, "FUNCPROTO") THEN {Ref(p)} ELSE {}) \cup
        (IF Is(p, "STRUCT") THEN {types_buff[p + 2 + 3 * n] : n \in 1 .. Vlen(p)} ELSE {}) \cup
        (IF Is(p, "FUNCPROTO") THEN {types_buff[p + 3 + 2 * n] : n \in 1 .. Vlen(p)} ELSE {})

Ids == 1 .. Len(types)

\* Type id is a function with a prototype.
IsFunction(id) ==
    \E proto \in Ids : Ref(Start[id]) = Bits(proto) /\ Is(Start[id], "FUNC")
                       /\ Is(Start[proto], "FUNCPROTO")

\* The kernel takes the type information of a finished program: going from type
\* to type by what each announces it ends with the last byte of the section,
\* every name begins inside the string section, every reference is void or a type
\* there is, and every function has a prototype.  The header is written from
\* buffers that are filled after SetHeaderSection has already been called.
BtfAccepted ==
    bpc = "done" =>
        /\ SectionsFit
        /\ Start[Len(types) + 1] = Len(types_buff)
        /\ \A id \in Ids :
              /\ \A name \in Names(Start[id]) : \E n \in 0 .. (header.StrLen - 1) : name = Bits(n)
              /\ \A ref \in Refs(Start[id]) : \E n \in Ids \cup {0} : ref = Bits(n)
              /\ Is(Start[id], "FUNC") => IsFunction(id)

================================================================================
