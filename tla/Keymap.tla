------------------------------- MODULE Keymap -------------------------------
(***************************************************************************)
(* The keymap (src/src/app/keymap.cpp) and the overrides it is built from: *)
(* the tables of the contexts, the sequence that is being typed, and the   *)
(* [keybindings] of the configuration in memory and on disk                *)
(* (src/src/controller/controller.cpp, src/src/ui/app.cpp).                *)
(*                                                                         *)
(* A key is a token, a binding a sequence of tokens.  A row is a context   *)
(* with an action.  The file may hold rows and tokens of any kind.         *)
(***************************************************************************)
EXTENDS Lists, FiniteSets, SequencesExt

CONSTANTS
  Context,       \* KeyContext
  Global,        \* KeyContext::Global
  Chain,         \* chainFor: the contexts that are asked, nearest first
  Action,        \* the actions that have an id
  Token,         \* the tokens isKnownToken accepts
  Reserved,      \* kReservedQuitKey
  Shipped,       \* the shipped bindings: [context, action, seq] in their order
  Configurable,  \* actionConfigurableIn: the rows that may be overridden
  Files,         \* the [keybindings] that may be on disk in the beginning
  Before(_, _)   \* the order of the rows in the file

Row == Context \X Action
KeySequence == Seq(Token) \ {<<>>}

ASSUME KeymapAssumption ==
  /\ Global \in Context
  /\ Chain \in [Context -> Seq(Context) \ {<<>>}]
  /\ Reserved \in Token
  /\ Configurable \subseteq Row
  /\ Shipped \in Seq([context : Context, action : Action, seq : KeySequence])
  /\ \A f \in Files : \A r \in DOMAIN f : r = <<r[1], r[2]>> /\ f[r] \in Seq(ToSet(f[r]))

VARIABLES
  bindings,  \* bindings_: in a context, from sequences to actions
  order,     \* order_: in a context, the sequences as they were configured
  prefixes,  \* prefixes_: in a context, the sequences that are begun
  custom,    \* custom_: the rows that are overridden
  pending,   \* pending_ and pending_context_
  config,    \* config_.keybindings: from rows to lists of sequences
  file,      \* the same on disk
  loading,   \* configureKeymap() is at work
  unread     \* the rows it has still to walk

tables == <<bindings, order, prefixes, custom>>
keymap_vars == <<tables, pending, config, file, loading, unread>>

NoPending == [seq |-> <<>>, at |-> Global]

KeymapTypeOK ==
  /\ DOMAIN bindings = Context /\ DOMAIN order = Context
  /\ \A c \in Context : DOMAIN bindings[c] = ToSet(order[c])
                      /\ \A s \in DOMAIN bindings[c] : bindings[c][s] \in Action
  /\ custom \subseteq Row
  /\ pending.seq \in Seq(Token) /\ pending.at \in Context
  /\ loading \in BOOLEAN
  /\ unread \subseteq DOMAIN config

-----------------------------------------------------------------------------
(* The tables.                                                             *)

\* One sequence is the other or begins it.
Clash(s, t) == IsPrefix(s, t) \/ IsPrefix(t, s)

\* The shipped bindings of a context are apart, and the reserved key is Quit's
\* alone, which cannot be overridden.
ASSUME ShippedAssumption ==
  /\ \A i, j \in DOMAIN Shipped :
       Shipped[i].context = Shipped[j].context /\ Shipped[i].seq # Shipped[j].seq
         => ~Clash(Shipped[i].seq, Shipped[j].seq)
  /\ \E i \in DOMAIN Shipped :
       Shipped[i].context = Global /\ Shipped[i].seq = <<Reserved>>
  /\ \A i \in DOMAIN Shipped :
       Reserved \in ToSet(Shipped[i].seq) =>
         /\ Shipped[i].seq = <<Reserved>> /\ Shipped[i].context = Global
         /\ <<Global, Shipped[i].action>> \notin Configurable

\* What is left to be typed counts, so a whole sequence is no prefix of itself.
PrefixesOf(table) ==
  UNION {{SubSeq(s, 1, n) : n \in 1 .. Len(s) - 1} : s \in DOMAIN table}

\* What loadDefaults() binds, context by context.
ShippedOrder ==
  [c \in Context |->
     LET here == Selected(Shipped, {b \in ToSet(Shipped) : b.context = c})
     IN [i \in DOMAIN here |-> here[i].seq]]

ShippedTable ==
  [c \in Context |->
     [s \in {b.seq : b \in {b \in ToSet(Shipped) : b.context = c}} |->
        (CHOOSE b \in ToSet(Shipped) : b.context = c /\ b.seq = s).action]]

ShippedPrefixes == [c \in Context |-> PrefixesOf(ShippedTable[c])]

BoundTo(table, a) == {s \in DOMAIN table : table[s] = a}

\* bindingsFor(): the sequences of a row in their order.
BindingsFor(c, a) == Selected(order[c], BoundTo(bindings[c], a))

-----------------------------------------------------------------------------
(* Overriding a row.                                                       *)

\* MUTANT of WellFormed: only a bare reserved key is refused.
WellFormedBare(seqs) ==
  /\ \A i \in DOMAIN seqs : seqs[i] \in KeySequence /\ seqs[i] # <<Reserved>>
  /\ \A i, j \in DOMAIN seqs : i # j => ~Clash(seqs[i], seqs[j])

\* The sequences are keys, none of them the reserved one, and apart.
WellFormed(seqs) ==
  /\ \A i \in DOMAIN seqs : seqs[i] \in KeySequence /\ Reserved \notin ToSet(seqs[i])
  /\ \A i, j \in DOMAIN seqs : i # j => ~Clash(seqs[i], seqs[j])

\* MUTANT of Free: a longer sequence may hide behind a shorter one.
FreeOfBegun(c, a, seqs) ==
  \A s \in DOMAIN bindings[c] \ BoundTo(bindings[c], a), i \in DOMAIN seqs :
    ~IsPrefix(seqs[i], s)

\* No other action of the context has one of them, or a part of one.
Free(c, a, seqs) ==
  \A s \in DOMAIN bindings[c] \ BoundTo(bindings[c], a), i \in DOMAIN seqs :
    ~Clash(seqs[i], s)

Accepted(c, a, seqs) ==
  <<c, a>> \in Configurable /\ WellFormed(seqs) /\ Free(c, a, seqs)

Overridden(table, a, seqs) ==
  [s \in (DOMAIN table \ BoundTo(table, a)) \cup ToSet(seqs) |->
     IF s \in ToSet(seqs) THEN a ELSE table[s]]

\* applyOverride(), once it is accepted.
ApplyOverride(c, a, seqs) ==
  /\ bindings' = [bindings EXCEPT ![c] = Overridden(@, a, seqs)]
  /\ order' = [order EXCEPT ![c] =
                 Selected(@, DOMAIN bindings[c] \ BoundTo(bindings[c], a)) \o seqs]
  /\ prefixes' = [prefixes EXCEPT ![c] = PrefixesOf(bindings'[c])]
  /\ custom' = custom \cup {<<c, a>>}
  /\ pending' = NoPending

\* MUTANT of LoadDefaults: a sequence that is being typed goes on.
LoadDefaultsMidway ==
  /\ bindings' = ShippedTable
  /\ order' = ShippedOrder
  /\ prefixes' = ShippedPrefixes
  /\ custom' = {}
  /\ UNCHANGED pending

\* loadDefaults().
LoadDefaults ==
  /\ bindings' = ShippedTable
  /\ order' = ShippedOrder
  /\ prefixes' = ShippedPrefixes
  /\ custom' = {}
  /\ pending' = NoPending

-----------------------------------------------------------------------------
(* The overrides in the configuration.                                     *)

\* saveConfig() writes all of the configuration, or fails and changes nothing.
Save == file' \in {config', file}

Rows(overrides, kept) == [r \in DOMAIN overrides \cap kept |-> overrides[r]]

\* Rows of the file whose context or action is known but no longer configurable.
Obsolete(overrides) == DOMAIN overrides \cap (Row \ Configurable)

\* configureKeymap() walks the file; what is refused keeps its default.
LoadEntry ==
  /\ \E r \in unread :
       /\ \A other \in unread \ {r} : Before(r, other)
       /\ unread' = unread \ {r}
       /\ IF Accepted(r[1], r[2], config[r])
          THEN ApplyOverride(r[1], r[2], config[r])
          ELSE UNCHANGED <<tables, pending>>
  /\ UNCHANGED <<config, file, loading>>

\* After the walk the obsolete rows are forgotten, in memory only.
LoadEnds ==
  /\ loading /\ unread = {}
  /\ loading' = FALSE
  /\ config' = Rows(config, DOMAIN config \ Obsolete(config))
  /\ UNCHANGED <<tables, pending, file, unread>>

With(overrides, row, seqs) ==
  [r \in DOMAIN overrides \cup {row} |-> IF r = row THEN seqs ELSE overrides[r]]

\* MUTANT of Bind: the override is kept in memory only when it was written.
BindIfSaved(c, a, seq) ==
  /\ IF Accepted(c, a, <<seq>>)
     THEN /\ ApplyOverride(c, a, <<seq>>)
          /\ \/ config' = With(config, <<c, a>>, <<seq>>) /\ file' = config'
             \/ UNCHANGED <<config, file>>
     ELSE UNCHANGED <<tables, pending, config, file>>
  /\ UNCHANGED <<loading, unread>>

\* commitCapture(): the override is applied, kept with bindKey() and saved.
Bind(c, a, seq) ==
  /\ IF Accepted(c, a, <<seq>>)
     THEN /\ ApplyOverride(c, a, <<seq>>)
          /\ config' = With(config, <<c, a>>, <<seq>>)
          /\ Save
     ELSE UNCHANGED <<tables, pending, config, file>>
  /\ UNCHANGED <<loading, unread>>

\* resetKeymap() and loadDefaults().
RestoreDefaults ==
  /\ LoadDefaults
  /\ config' = <<>>
  /\ Save
  /\ UNCHANGED <<loading, unread>>

\* The process ends and starts again.
Launch ==
  /\ LoadDefaults
  /\ config' = file
  /\ loading' = TRUE
  /\ unread' = DOMAIN file
  /\ UNCHANGED file

KeymapInit ==
  /\ bindings = ShippedTable
  /\ order = ShippedOrder
  /\ prefixes = ShippedPrefixes
  /\ custom = {}
  /\ pending = NoPending
  /\ file \in Files
  /\ config = file
  /\ loading = TRUE
  /\ unread = DOMAIN file

-----------------------------------------------------------------------------
(* Typing.                                                                 *)

\* The places of a chain whose context binds or begins the sequence.
Offering(chain, seq) ==
  {i \in DOMAIN chain : seq \in DOMAIN bindings[chain[i]] \cup prefixes[chain[i]]}

Nearest(chain, seq) ==
  LET places == Offering(chain, seq)
  IN chain[CHOOSE i \in places : \A j \in places : i <= j]

\* The sequence a token continues; one that was begun under another front
\* context is dropped, and so is one that leads nowhere.
Continued(chain, token) ==
  LET typed == IF pending.at = Head(chain) THEN pending.seq ELSE <<>>
  IN IF Offering(chain, Append(typed, token)) # {} THEN Append(typed, token)
     ELSE <<token>>

Unmapped == [kind |-> "none"]
Begun == [kind |-> "pending"]
Matched(a) == [kind |-> "matched", action |-> a]

Resolution(chain, token) ==
  LET seq == Continued(chain, token)
      c == Nearest(chain, seq)
  IN IF Offering(chain, seq) = {} THEN Unmapped
     ELSE IF seq \in DOMAIN bindings[c] THEN Matched(bindings[c][seq])
     ELSE Begun

\* feed() in the chain of a front context.
Feed(chain, token) ==
  /\ pending' = IF Resolution(chain, token) = Begun
                THEN [seq |-> Continued(chain, token), at |-> Head(chain)]
                ELSE NoPending
  /\ UNCHANGED <<tables, config, file, loading, unread>>

KeymapNext ==
  \/ LoadEntry \/ LoadEnds \/ RestoreDefaults \/ Launch
  \/ \E c \in Context, t \in Token : Feed(Chain[c], t)
  \/ \E c \in Context, a \in Action, s \in Seq(Token) : Bind(c, a, s)

-----------------------------------------------------------------------------
(* Properties.                                                             *)

\* TablesSound: in no context, whatever was overridden in whatever order, does
\* a bound sequence begin another one, and the prefixes are those of the table:
\* a key that is a binding fires, one that begins a binding waits, and none is
\* both (validate() reports nothing).
TablesSound ==
  \A c \in Context :
    /\ prefixes[c] = PrefixesOf(bindings[c])
    /\ DOMAIN bindings[c] \cap prefixes[c] = {}

\* PendingContinues: a sequence that is being typed can always be continued
\* under the front context it was begun in, though rows are rebound and reset
\* while it waits.
PendingContinues ==
  pending.seq # <<>> =>
    \E i \in DOMAIN Chain[pending.at] : pending.seq \in prefixes[Chain[pending.at][i]]

\* The bindings of the rows that are not overridden.
Kept(table, c) ==
  [s \in {s \in DOMAIN table : <<c, table[s]>> \notin custom} |-> table[s]]

\* RowsAreConfigured: "Rejected overrides keep their built-in default; the rest
\* of the configuration still applies" (app.cpp, configureKeymap): after any
\* sequence of loads, bindings, resets and failed saves an overridden row has
\* the keys of the configuration in memory, and any other row those it was
\* shipped with.
RowsAreConfigured ==
  /\ \A r \in custom : /\ r \in DOMAIN config
                       /\ BoundTo(bindings[r[1]], r[2]) = ToSet(config[r])
  /\ \A c \in Context : Kept(bindings[c], c) = Kept(ShippedTable[c], c)

\* QuitIsReserved: no configuration can take the reserved key from Quit or use
\* it in another binding.
QuitIsReserved ==
  /\ <<Reserved>> \in DOMAIN bindings[Global]
  /\ \A c \in Context : \A s \in DOMAIN bindings[c] :
       Reserved \in ToSet(s) => s = <<Reserved>> /\ c = Global

=============================================================================
