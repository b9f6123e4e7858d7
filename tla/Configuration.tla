---------------------------- MODULE Configuration ----------------------------
(***************************************************************************)
(* What the process makes of its command line and its configuration file:  *)
(* nano_pow_server::config (config.hpp), the parser it uses (cpptoml) and  *)
(* the branches of main that come before the server exists.                *)
(*                                                                         *)
(* A line of TOML is a record of its form: "table" for [at], "array" for   *)
(* [[at]], "key" for at = val, "comment", "garbage" for what does not      *)
(* parse.  at is a path of one name, or of two for a dotted key.  The tree *)
(* maps paths to "table", "array" or a literal; an element of an array is  *)
(* a table whose name is its number.  Literals stand for their class (a    *)
(* flag, a number by the widths that hold it, a text by what it is good    *)
(* for).                                                                   *)
(***************************************************************************)
EXTENDS Naturals, Sequences, FiniteSets, SequencesExt

CONSTANTS
    CommandLines,   \* the --config options: sequences of lines
    Files           \* the contents of the file; <<>> also if there is none

Flags == {"true", "false"}
Addresses == {"::1", "0.0.0.0"}
Texts == Addresses \cup {"cpu", "gpu", "tpu", "public", "2000000000000000"}

(* The literals get_as<T> accepts.  "cores" is hardware_concurrency ().    *)
Accepts ==
    LET u16 == {"0", "8076", "8077", "16384", "2048", "cores"}
        u32 == u16 \cup {"65536"}
        u64 == u32 \cup {"4294967296"}
    IN [bool |-> Flags, string |-> Texts, u16 |-> u16, u32 |-> u32, u64 |-> u64]

Numbers == Accepts.u64 \cup {"-1"}
Literals == Flags \cup Texts \cup Numbers

Line == [form : {"table", "array", "key", "comment", "garbage"},
         at : Seq(STRING), val : Literals \cup {"table"}]

IsHeader(line) == line.form \in {"table", "array"}

(* Sections are not nested, and the keys have values that can be told      *)
(* apart from tables.                                                      *)
WellFormed(text) ==
    /\ text \in Seq(Line)
    /\ \A i \in 1..Len(text) :
          /\ IsHeader(text[i]) => Len(text[i].at) = 1
          /\ text[i].form = "key" =>
                Len(text[i].at) \in {1, 2} /\ text[i].val \in Literals

ASSUME LinesAssumption == \A text \in CommandLines \cup Files : WellFormed(text)

(* The keys the constructor of config reads, with their types ... *)
Keys ==
    [server |-> [bind |-> "string", port |-> "u16", threads |-> "u16",
                 request_limit |-> "u32", allow_prioritization |-> "bool",
                 allow_control |-> "bool", log_to_stderr |-> "bool"],
     work   |-> [base_difficulty |-> "string",
                 mock_work_generation_delay |-> "u16"],
     admin  |-> [path |-> "string", enable |-> "bool", allow_remote |-> "bool"],
     device |-> [platform |-> "u64", device |-> "u64", threads |-> "u64",
                 memory |-> "u64", type |-> "string"]]

(* ... and the member initialisers. *)
Defaults ==
    [server |-> [bind |-> "::1", port |-> "8076", threads |-> "cores",
                 request_limit |-> "16384", allow_prioritization |-> "false",
                 allow_control |-> "false", log_to_stderr |-> "false"],
     work   |-> [base_difficulty |-> "2000000000000000",
                 mock_work_generation_delay |-> "0"],
     admin  |-> [path |-> "public", enable |-> "false",
                 allow_remote |-> "false"],
     device |-> [platform |-> "0", device |-> "0", threads |-> "0",
                 memory |-> "2048", type |-> "cpu"]]

VARIABLES
    overrides, file,   \* what the operator wrote
    stage,             \* how far main has come
    pos, tree, cur,    \* the parser: next line, result, current table
    settings,          \* the members server, work and admin
    devices            \* the member devices

cVars == <<overrides, file, stage, pos, tree, cur, settings, devices>>

Singles == {"server", "work", "admin"}   \* the sections there is one of

Empty == [p \in {} |-> "table"]

ConfigInit ==
    /\ overrides \in CommandLines
    /\ file \in Files
    /\ stage = "options"
    /\ pos = 1 /\ tree = Empty /\ cur = <<>>
    /\ settings = [s \in Singles |-> Defaults[s]]
    /\ devices = <<>>

-----------------------------------------------------------------------------
(* --generate_config: the commented defaults become the file of the next   *)
(* start.  export_documented writes every section and turns all lines that *)
(* are not headers into comments.                                          *)
Header(s) == [form |-> "table", at |-> <<s>>, val |-> "table"]
Setting(k, v) == [form |-> "key", at |-> <<k>>, val |-> v]
Comment == [form |-> "comment", at |-> <<>>, val |-> "table"]

Exported ==
    [Defaults EXCEPT !.device =
        [type |-> "gpu", device_id |-> "0", platform_id |-> "0",
         memory |-> "0", threads |-> "0"]]

Written(s) ==
    <<Header(s)>> \o
    SetToSeq({Setting(k, Exported[s][k]) : k \in DOMAIN Exported[s]})

(* Variant of Survives: nothing is commented out. *)
SurvivesAnyway(line) == TRUE

Survives(line) == line.form = "table"

AllWritten ==
    Written("server") \o Written("work") \o Written("device") \o Written("admin")

ExportDocumented ==
    [i \in 1..Len(AllWritten) |->
        IF Survives(AllWritten[i]) THEN AllWritten[i] ELSE Comment]

(* The elements of an array have different names. *)
ASSUME NamesAssumption ==
    \A options \in CommandLines, text \in Files \cup {ExportDocumented} :
        \A i, j \in 1..(Len(options) + Len(text)) :
            ToString(i) \in STRING /\ (ToString(i) = ToString(j) => i = j)

GenerateConfig ==
    /\ stage = "options"
    /\ file' = ExportDocumented
    /\ UNCHANGED <<overrides, stage, pos, tree, cur, settings, devices>>

(* --help prints and exits. *)
Help ==
    /\ stage = "options"
    /\ stage' = "exited"
    /\ UNCHANGED <<overrides, file, pos, tree, cur, settings, devices>>

(* Otherwise read_config begins.                                           *)
ReadConfig ==
    /\ stage = "options"
    /\ stage' = "validating"
    /\ UNCHANGED <<overrides, file, pos, tree, cur, settings, devices>>

-----------------------------------------------------------------------------
(* parse_base_and_override_files: the file is parsed by itself, where      *)
(* nothing may be defined twice, then the options followed by the file,    *)
(* where what comes first stays (merge_type::ignore).                      *)

(* Variant of Combined: the file first, as the names of the parameters of  *)
(* parse_base_and_override_files suggest.                                  *)
CombinedFileFirst == file \o overrides

Combined == overrides \o file

Lines == IF stage = "validating" THEN file ELSE Combined

MayRepeat == stage = "combining"

Exists(p) == p \in DOMAIN tree

Children(p) == {q \in DOMAIN tree : q # <<>> /\ Front(q) = p}

(* The table a header leads to: the last one of an array. *)
LastTable(p) ==
    IF tree[p] = "array"
      THEN Append(p, ToString(Cardinality(Children(p))))
      ELSE p

(* "table already existed": it is empty or holds values. *)
Defined(t) == Children(t) = {} \/ \E q \in Children(t) : tree[q] \in Literals

(* A dotted key leads through a table of the current one. *)
Target(line) == cur \o line.at
Table(line) == Front(Target(line))

(* Lines that do not make throw_parse_exception run. *)
Legal(line) ==
    CASE line.form = "table" ->
            Exists(line.at) =>
                /\ tree[line.at] \in {"table", "array"}
                /\ MayRepeat \/ ~Defined(LastTable(line.at))
      [] line.form = "array" ->
            Exists(line.at) => tree[line.at] = "array"
      [] line.form = "key" ->
            /\ Exists(Table(line)) => tree[Table(line)] = "table"
            /\ MayRepeat \/ ~Exists(Target(line))
      [] OTHER -> line.form = "comment"

(* What exists is kept (merge_type::ignore). *)
Insert(t, p, v) ==
    [q \in DOMAIN t \cup {p} |-> IF q \in DOMAIN t THEN t[q] ELSE v]

(* parse_single_table *)
OpenTable(p) ==
    /\ tree' = Insert(tree, p, "table")
    /\ cur' = IF Exists(p) THEN LastTable(p) ELSE p

(* Variant of Element: the array keeps one element. *)
ElementOne(p) == Append(p, "1")

(* The name of the element parse_table_array appends to an array. *)
Element(p) == Append(p, ToString(Cardinality(Children(p)) + 1))

(* parse_table_array *)
OpenArray(p) ==
    /\ tree' = Insert(Insert(tree, p, "array"), Element(p), "table")
    /\ cur' = Element(p)

(* parse_key_value *)
StoreKey(line) ==
    /\ tree' = IF Table(line) = cur
                 THEN Insert(tree, Target(line), line.val)
                 ELSE Insert(Insert(tree, Table(line), "table"),
                             Target(line), line.val)
    /\ UNCHANGED cur

Parsing == stage \in {"validating", "combining"}

ParseLine ==
    /\ Parsing /\ pos <= Len(Lines)
    /\ Legal(Lines[pos])
    /\ \/ Lines[pos].form = "table" /\ OpenTable(Lines[pos].at)
       \/ Lines[pos].form = "array" /\ OpenArray(Lines[pos].at)
       \/ Lines[pos].form = "key" /\ StoreKey(Lines[pos])
       \/ Lines[pos].form = "comment" /\ UNCHANGED <<tree, cur>>
    /\ pos' = pos + 1
    /\ UNCHANGED <<overrides, file, stage, settings, devices>>

(* read_config: "TOML config error: ..." ends the process. *)
ParseError ==
    /\ Parsing /\ pos <= Len(Lines)
    /\ ~Legal(Lines[pos])
    /\ stage' = "failed"
    /\ UNCHANGED <<overrides, file, pos, tree, cur, settings, devices>>

ParseEnd ==
    /\ Parsing /\ pos > Len(Lines)
    /\ IF stage = "validating"
         THEN stage' = "combining" /\ tree' = Empty /\ cur' = <<>> /\ pos' = 1
         ELSE stage' = "server" /\ UNCHANGED <<pos, tree, cur>>
    /\ UNCHANGED <<overrides, file, settings, devices>>

-----------------------------------------------------------------------------
(* The constructor reads the sections in the order server, work, device,   *)
(* admin.                                                                  *)
After == [server |-> "work", work |-> "device", device |-> "admin",
          admin |-> "constructed"]

(* get_as of an integer type throws what does not fit; a literal of        *)
(* another type, or a table, counts as absent.                             *)
OutOfRange(t, s) ==
    \E k \in DOMAIN Keys[s] :
        /\ Keys[s][k] \in {"u16", "u32", "u64"}
        /\ Exists(Append(t, k))
        /\ tree[Append(t, k)] \in Numbers \ Accepts[Keys[s][k]]

ReadTable(t, s) ==
    [k \in DOMAIN Keys[s] |->
        IF Exists(Append(t, k)) /\ tree[Append(t, k)] \in Accepts[Keys[s][k]]
          THEN tree[Append(t, k)]
          ELSE Defaults[s][k]]

(* base_difficulty.from_hex, and the types of device there are. *)
Valid(s, table) ==
    /\ s = "work" => table.base_difficulty = "2000000000000000"
    /\ s = "device" => table.type \in {"cpu", "gpu"}

Readable(t, s) == ~OutOfRange(t, s) /\ Valid(s, ReadTable(t, s))

(* get_device for [device], or for each [[device]] in turn; of the others  *)
(* there is one.                                                           *)
Tables(s) ==
    IF Exists(<<s>>) /\ tree[<<s>>] = "array"
      THEN [i \in 1..Cardinality(Children(<<s>>)) |-> <<s, ToString(i)>>]
      ELSE << <<s>> >>

(* get_table of a section that is no table is a null pointer. *)
Dangling(s) == s \in Singles /\ Exists(<<s>>) /\ tree[<<s>>] # "table"

Accepted(s) ==
    /\ ~Dangling(s)
    /\ Exists(<<s>>) => tree[<<s>>] \in {"table", "array"}
    /\ \A i \in 1..Len(Tables(s)) : Readable(Tables(s)[i], s)

ReadSection(s) ==
    /\ stage = s /\ Accepted(s)
    /\ settings' = [settings EXCEPT ![s] = ReadTable(<<s>>, s)]
    /\ stage' = After[s]
    /\ UNCHANGED <<overrides, file, pos, tree, cur, devices>>

ReadDevices ==
    /\ stage = "device" /\ Accepted("device")
    /\ devices' = IF Exists(<<"device">>)
                    THEN [i \in 1..Len(Tables("device")) |->
                            ReadTable(Tables("device")[i], "device")]
                    ELSE <<>>
    /\ stage' = After["device"]
    /\ UNCHANGED <<overrides, file, pos, tree, cur, settings>>

(* A runtime_error ends the process in an orderly way; the use of a null   *)
(* pointer does not.                                                       *)
ReadError ==
    /\ stage \in DOMAIN After /\ ~Accepted(stage)
    /\ stage' = IF Dangling(stage) THEN "crashed" ELSE "failed"
    /\ UNCHANGED <<overrides, file, pos, tree, cur, settings, devices>>

ConfigNext ==
    \/ GenerateConfig \/ Help \/ ReadConfig
    \/ ParseLine \/ ParseError \/ ParseEnd
    \/ \E s \in Singles : ReadSection(s)
    \/ ReadDevices \/ ReadError

-----------------------------------------------------------------------------
(* What the lines say, read one by one as the operator means them.         *)
None == "none"

Scope(lines, i) ==
    LET above == {h \in 1..(i - 1) : IsHeader(lines[h])}
    IN IF above = {} THEN <<>>
       ELSE lines[CHOOSE h \in above : \A g \in above : g <= h].at

(* The path a line is about; a comment is about nothing. *)
Place(lines, i) ==
    CASE IsHeader(lines[i]) -> lines[i].at
      [] lines[i].form = "key" -> Scope(lines, i) \o lines[i].at
      [] OTHER -> <<>>

(* The lines about key k of section s, or about something below it. *)
Mentions(lines, s, k) ==
    {i \in 1..Len(lines) :
        /\ Len(Place(lines, i)) >= 2
        /\ Place(lines, i)[1] = s /\ Place(lines, i)[2] = k}

(* What line i makes of the key it mentions: something below it makes the  *)
(* key a table.                                                            *)
Said(lines, i) == IF Len(Place(lines, i)) = 2 THEN lines[i].val ELSE "table"

Says(lines, s, k) ==
    LET at == Mentions(lines, s, k)
    IN IF at = {} THEN None
       ELSE Said(lines, CHOOSE i \in at : \A j \in at : i <= j)

(* The last header of the options governs the keys at the top of the file. *)
Separate ==
    \/ \A i \in 1..Len(overrides) : ~IsHeader(overrides[i])
    \/ file = <<>> \/ IsHeader(file[1])

Meant(s, k) ==
    IF Says(overrides, s, k) # None THEN Says(overrides, s, k)
                                    ELSE Says(file, s, k)

Constructed == stage \notin DOMAIN After
                 \cup {"options", "validating", "combining", "failed",
                       "crashed", "exited"}
==============================================================================
