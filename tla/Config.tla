------------------------------- MODULE Config -------------------------------
(***************************************************************************)
(* How the program finds its settings (config.cpp, run() in run.cpp): the  *)
(* JSON file named by SPLUS_CONF, then the environment, then the arguments *)
(* in their order, a later source over an earlier one.  Numbers pass       *)
(* through atoi, strtoull and json's get<int>, so their width is kept; the *)
(* widths are constants, since only their relation matters.                *)
(***************************************************************************)
EXTENDS Origins

CONSTANTS
  IntSize, LongSize,       \* how many values int and unsigned long long have
  PortMax,                 \* PORT_MAX
  Numbers,                 \* the numbers a source may hold
  Texts, NoText, Chars,    \* lists of origins, the empty one; their characters
  Paths, NoPath,           \* databases; NoPath is the empty string
  Absent, Wrong,           \* no such key; a value of another type
  Cores, DefaultPort, DefaultDb,
  MaxValues                \* bound on the values all sources hold

IntMax  == IntSize \div 2 - 1
LongMax == LongSize \div 2 - 1
UMax    == LongSize - 1     \* ULLONG_MAX
Int32   == -(IntMax + 1) .. IntMax

Numeric  == {"concurrency", "port", "age"}
Settings == Numeric \cup {"origins", "db"}

Inputs(s) == CASE s \in Numeric -> Numbers [] s = "origins" -> Texts [] s = "db" -> Paths
Empties   == {NoText, NoPath}

ASSUME WidthAssumption ==
  /\ IntSize \in Nat /\ LongSize \in Nat /\ IntSize % 2 = 0 /\ LongSize % 2 = 0
  /\ PortMax \in 1 .. IntMax /\ IntMax < LongMax
ASSUME InputAssumption ==
  /\ Numbers \subseteq Int /\ NoPath \in Paths /\ MaxValues \in Nat
  /\ NoText \in Texts /\ Chars \in [Texts -> Seq(Characters)] /\ Chars[NoText] = <<>>
  /\ Absent # Wrong /\ \A x \in {Absent, Wrong} : x \notin Texts /\ x \notin Int /\ x \notin Paths
ASSUME DefaultAssumption ==
  Cores \in 1 .. IntMax /\ DefaultPort \in 1 .. PortMax /\ DefaultDb \in Paths

\* Faulty form of the next definition: the file undoes the variables.
OrderFileLast == <<"concurrency", "port", "age", "origins", "db", "file">>

\* load_env reads them in this order.
Order == <<"file", "concurrency", "port", "age", "origins", "db">>

\* What a JSON file may hold under these of the keys.
Files(keys) == {f \in [keys -> UNION {Inputs(s) : s \in keys} \cup {Wrong}] :
                  \A s \in keys : f[s] \in Inputs(s) \cup {Wrong}}

VARIABLES
  conf,   \* main_t::concurrency and server_config_t
  at,     \* which of Order load_env reads next
  status, \* "loading", then run() goes on ("serve") or returns: 0 ("helped"),
          \* -1 ("misused"), or terminated by an uncaught error
  values, \* how many values the sources held
  given,  \* history: per setting, what the sources documented to win ask for,
  rank,   \* which they are (0 SPLUS_CONF, 1 a variable, 2 an argument),
  wide    \* and whether a port was asked for that is no int

history == <<given, rank, wide>>
vars == <<conf, at, status, values, history>>

-----------------------------------------------------------------------------
(* Numbers.                                                                *)

\* What a conversion to int keeps of a number.
AsInt(n) == ((n + IntSize \div 2) % IntSize) - IntSize \div 2

\* strtol stops at the ends of long; atoi then keeps an int of it.
Atoi(n)  == AsInt(IF n > LongMax THEN LongMax
                  ELSE IF n < -(LongMax + 1) THEN -(LongMax + 1) ELSE n)

\* strtoull takes a sign, and answers ULLONG_MAX for what does not fit.
Strtoull(n) == IF n > UMax \/ n < -UMax THEN UMax ELSE n % LongSize

ValidPort(val) == val >= 1 /\ val <= PortMax

\* Faulty form of the next definition: the port is checked from below only.
FromTextNoUpper(s, n) ==
  CASE s = "concurrency" -> IF Atoi(n) < 1 THEN Absent ELSE Atoi(n)
    [] s = "port"        -> IF Atoi(n) >= 1 THEN Atoi(n) ELSE Absent
    [] s = "age"         -> IF Strtoull(n) \in {0, UMax} THEN Absent ELSE Strtoull(n)

\* What str_set_* take of a text that starts with the number n (one that
\* starts with none reads as 0), Absent when they leave the setting alone.
FromText(s, n) ==
  CASE s = "concurrency" -> IF Atoi(n) < 1 THEN Absent ELSE Atoi(n)
    [] s = "port"        -> IF ValidPort(Atoi(n)) THEN Atoi(n) ELSE Absent
    [] s = "age"         -> IF Strtoull(n) \in {0, UMax} THEN Absent ELSE Strtoull(n)

\* Faulty form of the next definition: is_number instead.
FromJsonSigned(s, n) ==
  CASE s = "concurrency" -> AsInt(n)
    [] s = "port"        -> IF ValidPort(AsInt(n)) THEN AsInt(n) ELSE Absent
    [] s = "age"         -> n

\* What parse_json_config takes of the number at one key: is_number_unsigned
\* first.
FromJson(s, n) ==
  IF n \notin 0 .. UMax THEN Absent
  ELSE CASE s = "concurrency" -> AsInt(n)
         [] s = "port"        -> IF ValidPort(AsInt(n)) THEN AsInt(n) ELSE Absent
         [] s = "age"         -> n

\* What the documentation of the settings calls a value of them.
Documented(s, x) ==
  CASE s = "concurrency" -> x \in 1 .. IntMax
    [] s = "port"        -> x \in 1 .. PortMax
    [] s = "age"         -> x \in 0 .. UMax
    [] OTHER             -> TRUE

-----------------------------------------------------------------------------
Init ==
  /\ conf = [concurrency |-> Cores, port |-> DefaultPort, age |-> 0,
             origins |-> <<>>, db |-> DefaultDb]
  /\ given = [conf EXCEPT !.origins = NoText]
  /\ rank = [s \in Settings |-> 0] /\ wide = FALSE
  /\ at = 1 /\ status = "loading" /\ values = 0

\* taken: what the code sets; asked: what a source of rank r says.
Set(taken, asked, r) ==
  LET wins(s) == asked[s] # Absent /\ Documented(s, asked[s]) /\ r >= rank[s]
      kept(s) == IF s = "origins" THEN OriginsIn(Chars[taken[s]]) ELSE taken[s]
  IN /\ conf'  = [s \in Settings |-> IF taken[s] = Absent THEN conf[s] ELSE kept(s)]
     /\ given' = [s \in Settings |-> IF wins(s) THEN asked[s] ELSE given[s]]
     /\ rank'  = [s \in Settings |-> IF wins(s) THEN r ELSE rank[s]]
     /\ wide'  = (wide \/ asked["port"] \notin Int32 \cup {Absent})
     /\ values' = values + Cardinality({s \in Settings : asked[s] # Absent})

\* A source that says nothing the code takes, or nothing at all.
Skip == UNCHANGED <<conf, status, values, history>>

\* parse_json_config: a file that is missing is only reported; one that is no
\* JSON throws an error nobody catches; values of another type, and empty
\* strings, are passed over.
ParseJsonConfig(r) ==
  \/ Skip
  \/ status' = "terminated" /\ UNCHANGED <<conf, values, history>>
  \/ \E keys \in {ks \in SUBSET Settings : values + Cardinality(ks) <= MaxValues} :
     \E file \in Files(keys) :
       /\ LET asked == [s \in Settings |->
                IF s \notin keys \/ file[s] \in {Wrong} \cup Empties
                THEN Absent ELSE file[s]]
          IN  Set([s \in Settings |-> IF s \in Numeric /\ asked[s] # Absent
                                      THEN FromJson(s, asked[s]) ELSE asked[s]],
                  asked, r)
       /\ UNCHANGED status

\* A text for one setting: str_set_*, set_cors_enabled_origins, db_path.
SetFrom(s, x, r) ==
  LET only(y) == [t \in Settings |-> IF t = s THEN y ELSE Absent]
  IN  /\ values < MaxValues
      /\ Set(only(IF s \in Numeric THEN FromText(s, x) ELSE x), only(x), r)
      /\ UNCHANGED status

\* load_env: a variable that is missing or empty is passed over.
LoadEnv ==
  /\ status = "loading" /\ at <= Len(Order)
  /\ \/ Skip
     \/ Order[at] = "file" /\ ParseJsonConfig(0)
     \/ Order[at] # "file" /\ \E x \in Inputs(Order[at]) \ Empties : SetFrom(Order[at], x, 1)
  /\ at' = at + 1

\* parse_args: one option of getopt_long; here a text may be empty.
ParseOption ==
  /\ status = "loading" /\ at > Len(Order)
  /\ \/ ParseJsonConfig(2)
     \/ \E s \in Settings : \E x \in Inputs(s) : SetFrom(s, x, 2)
     \/ status' \in {"helped", "misused"} /\ UNCHANGED <<conf, values, history>>
  /\ UNCHANGED at

\* parse_args ends with status 0 and run() goes on.
ParsedArgs ==
  /\ status = "loading" /\ at > Len(Order)
  /\ status' = "serve" /\ UNCHANGED <<conf, at, values, history>>

Next == LoadEnv \/ ParseOption \/ ParsedArgs

Spec == Init /\ [][Next]_vars

-----------------------------------------------------------------------------
(* Properties.                                                             *)

\* Every number fits the field it is kept in.
TypeOK ==
  /\ DOMAIN conf = Settings /\ conf.db \in Paths
  /\ {conf.concurrency, conf.port} \subseteq Int32 /\ conf.age \in 0 .. UMax
  /\ rank \in [Settings -> 0 .. 2] /\ wide \in BOOLEAN
  /\ at \in 1 .. Len(Order) + 1 /\ values \in 0 .. MaxValues
  /\ status \in {"loading", "serve", "helped", "misused", "terminated"}

\* Whatever the sources hold, out of range or wrapped, the port the servers
\* listen on is one (config.cpp 133-134).
PortUsable == conf.port \in 1 .. PortMax

\* The port and the database are what the source that is documented to win
\* asks for (config.cpp 14-15, 25-26: SPLUS_CONF, then the other variables,
\* then the arguments in their order), whichever sources hold a valid one;
\* only a number outside int may wrap to another port.
LastSourceWins == conf.db = given.db /\ (conf.port = given.port \/ wide)

\* The list of origins is the one of the source that wins: every origin of
\* that text, stripped, once per occurrence and in its order, and nothing
\* else - no empty origin an Origin header could match, and none an earlier
\* source has left (server_config.h 23-25).
HoldsTheOrigins == Holds(conf.origins, Chars[given.origins])
=============================================================================
