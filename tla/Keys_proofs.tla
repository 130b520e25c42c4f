----------------------------- MODULE Keys_proofs -----------------------------
(***************************************************************************)
(* The tables of the keymap stay sound however rows are loaded, rebound    *)
(* and reset: proofs for every keymap, configuration and length of a       *)
(* sequence.                                                               *)
(***************************************************************************)
EXTENDS Keys, Lists_proofs

-----------------------------------------------------------------------------
(* The steps of Keys that touch the keymap.                                *)

RebindStep == ~loading /\ Bind(capture[1], capture[2], buffer)
ResetStep == ~loading /\ RestoreDefaults

\* A step of Keys is one of these for the keymap.
LEMMA NextOfKeymap ==
  ASSUME Next
  PROVE  \/ UNCHANGED keymap_vars
         \/ LoadEntry \/ (loading /\ LoadEnds) \/ ResetStep \/ RebindStep \/ Launch
         \/ \E t \in Keys : Feed(CurrentKeyContexts, t)
<1>1. CASE Configure BY <1>1 DEF Configure, LoadEnds
<1>2. ASSUME ~loading, NEW t \in Keys, Press(t)
      PROVE  UNCHANGED keymap_vars \/ ResetStep \/ Feed(CurrentKeyContexts, t)
  <2>1. CASE MappedKey(t) BY <2>1 DEF MappedKey
  <2>2. CASE ConfirmReset(t) BY <1>2, <2>2 DEF ConfirmReset, ResetStep
  <2>3. CASE CaptureKey(t) \/ FieldKey(t) \/ ModuleKey(t) \/ ConfirmDelete(t) \/ PromptKey(t)
    BY <2>3 DEF CaptureKey, FieldKey, ModuleKey, ConfirmDelete, PromptKey
  <2> QED BY <1>2, <2>1, <2>2, <2>3 DEF Press
<1>3. CASE ~loading /\ CommitCapture BY <1>3 DEF CommitCapture, RebindStep
<1>4. CASE Frame \/ Mouse
  BY <1>4 DEF Frame, Mouse, ClickReset, ClickTree, ClickList, ClickResult
<1>5. CASE Relaunch BY <1>5 DEF Relaunch
<1> QED BY <1>1, <1>2, <1>3, <1>4, <1>5 DEF Next

-----------------------------------------------------------------------------
(* Tables.                                                                 *)

\* A table of apart sequences.
Apart(t) ==
  /\ DOMAIN t \subseteq KeySequence
  /\ \A r, s \in DOMAIN t : r # s => ~Clash(r, s)

\* What is begun by a sequence is a prefix of it, and another sequence.
LEMMA BegunIsPrefix ==
  ASSUME NEW s \in KeySequence, NEW n \in 1 .. Len(s) - 1
  PROVE  /\ IsPrefix(SubSeq(s, 1, n), s)
         /\ SubSeq(s, 1, n) # s
<1> DEFINE r == SubSeq(s, 1, n)
<1>1. s \in Seq(Token) /\ Len(s) \in Nat BY DEF KeySequence
<1>2. \A i \in 1 .. n : s[i] \in Token BY <1>1
<1>3. r \in Seq(Token) /\ Len(r) = n BY <1>1, <1>2, SubSeqProperties
<1>4. SubSeq(r, 1, Len(r)) = r BY <1>3, SubSeqFull
<1> QED BY <1>1, <1>3, <1>4 DEF IsPrefix

\* In a table of apart sequences none is begun by another.
LEMMA ApartSound ==
  ASSUME NEW t, Apart(t)
  PROVE  DOMAIN t \cap PrefixesOf(t) = {}
<1> SUFFICES ASSUME NEW r \in DOMAIN t, r \in PrefixesOf(t) PROVE FALSE
  OBVIOUS
<1>1. PICK s \in DOMAIN t : \E n \in 1 .. Len(s) - 1 : r = SubSeq(s, 1, n)
  BY DEF PrefixesOf
<1>2. PICK n \in 1 .. Len(s) - 1 : r = SubSeq(s, 1, n) BY <1>1
<1>3. IsPrefix(r, s) /\ r # s BY <1>2, BegunIsPrefix DEF Apart
<1> QED BY <1>3 DEF Apart, Clash

\* An accepted override leaves a table of apart sequences.
LEMMA OverriddenApart ==
  ASSUME NEW c, NEW a, NEW seqs, Accepted(c, a, seqs), Apart(bindings[c])
  PROVE  Apart(Overridden(bindings[c], a, seqs))
<1> DEFINE t == bindings[c]
           rest == DOMAIN t \ BoundTo(t, a)
<1>1. DOMAIN Overridden(t, a, seqs) = rest \cup ToSet(seqs) BY DEF Overridden
<1>2. \A s \in ToSet(seqs) : s \in KeySequence BY DEF Accepted, WellFormed, ToSet
<1>3. \A r, s \in ToSet(seqs) : r # s => ~Clash(r, s) BY DEF Accepted, WellFormed, ToSet
<1>4. \A r \in rest, s \in ToSet(seqs) : ~Clash(r, s) /\ ~Clash(s, r)
  BY DEF Accepted, Free, ToSet, Clash
<1>5. \A r, s \in rest : r # s => ~Clash(r, s) BY DEF Apart
<1> QED BY <1>1, <1>2, <1>3, <1>4, <1>5 DEF Apart

\* A sequence of another action keeps its place and its action.
LEMMA OverriddenElsewhere ==
  ASSUME NEW c, NEW a, NEW seqs, Accepted(c, a, seqs), Apart(bindings[c]),
         NEW s \in DOMAIN bindings[c], bindings[c][s] # a
  PROVE  /\ s \in DOMAIN Overridden(bindings[c], a, seqs) \ ToSet(seqs)
         /\ Overridden(bindings[c], a, seqs)[s] = bindings[c][s]
<1>1. s \in DOMAIN bindings[c] \ BoundTo(bindings[c], a) BY DEF BoundTo
<1>2. s \notin ToSet(seqs)
  <2> SUFFICES ASSUME s \in ToSet(seqs) PROVE FALSE OBVIOUS
  <2>1. PICK i \in DOMAIN seqs : seqs[i] = s BY DEF ToSet
  <2>2. ~Clash(seqs[i], s) BY <1>1, <2>1 DEF Accepted, Free
  <2>3. s \in Seq(Token) BY DEF Apart, KeySequence
  <2>4. Len(s) <= Len(s) BY <2>3
  <2> QED BY <2>1, <2>2, <2>4 DEF Clash, IsPrefix
<1> QED BY <1>1, <1>2 DEF Overridden

\* The row that is overridden has the new sequences and no other one.
LEMMA OverriddenRow ==
  ASSUME NEW t, NEW a, NEW seqs
  PROVE  BoundTo(Overridden(t, a, seqs), a) = ToSet(seqs)
BY DEF BoundTo, Overridden

-----------------------------------------------------------------------------
(* The invariant of the tables.                                            *)

TablesApart ==
  /\ bindings = [c \in Context |-> bindings[c]]
  /\ prefixes = [c \in Context |-> PrefixesOf(bindings[c])]
  /\ \A c \in Context : Apart(bindings[c])

\* The reserved key is bound by a row that no override can touch.
QuitIsFixed ==
  /\ QuitIsReserved
  /\ bindings[Global][<<Reserved>>] = "quit"
  /\ <<Global, "quit">> \notin Configurable

\* What the file holds is for rows, known or not.
RowsKnown ==
  /\ custom \subseteq Configurable
  /\ \A r \in DOMAIN config \cup DOMAIN file : r = <<r[1], r[2]>>
  /\ unread \subseteq DOMAIN config
  /\ loading \/ unread = {}

KeymapInv == TablesApart /\ QuitIsFixed /\ RowsKnown /\ RowsAreConfigured

LEMMA KeymapInvSound == KeymapInv => TablesSound
BY ApartSound DEF KeymapInv, TablesApart, TablesSound

\* What is shipped is of its types.
LEMMA ShippedTyped ==
  ASSUME NEW i \in DOMAIN Shipped
  PROVE  /\ Shipped[i].context \in Context
         /\ Shipped[i].action \in Action
         /\ Shipped[i].seq \in KeySequence
<1> DEFINE B == [context : Context, action : Action, seq : KeySequence]
<1>1. Shipped \in Seq(B) BY KeymapAssumption
<1> HIDE DEF B
<1>2. Shipped[i] \in B BY <1>1
<1> QED BY <1>2 DEF B

\* Every shipped sequence is in the table of its context, with an action it was
\* shipped with.
LEMMA ShippedIn ==
  ASSUME NEW c \in Context
  PROVE  /\ \A s : s \in DOMAIN ShippedTable[c] <=>
                 \E i \in DOMAIN Shipped : Shipped[i].context = c /\ Shipped[i].seq = s
         /\ \A s \in DOMAIN ShippedTable[c] :
              \E i \in DOMAIN Shipped : /\ Shipped[i].context = c /\ Shipped[i].seq = s
                                       /\ ShippedTable[c][s] = Shipped[i].action
<1>1. \A s : s \in DOMAIN ShippedTable[c] <=>
        \E i \in DOMAIN Shipped : Shipped[i].context = c /\ Shipped[i].seq = s
  BY DEF ShippedTable, ToSet
<1>2. ASSUME NEW s \in DOMAIN ShippedTable[c]
      PROVE  \E i \in DOMAIN Shipped : /\ Shipped[i].context = c /\ Shipped[i].seq = s
                                       /\ ShippedTable[c][s] = Shipped[i].action
  <2>1. \E b \in ToSet(Shipped) : b.context = c /\ b.seq = s
    BY <1>1 DEF ToSet
  <2>2. ShippedTable[c][s] = (CHOOSE b \in ToSet(Shipped) : b.context = c /\ b.seq = s).action
    BY DEF ShippedTable
  <2>3. \E b \in ToSet(Shipped) :
          b.context = c /\ b.seq = s /\ ShippedTable[c][s] = b.action
    BY <2>1, <2>2
  <2> QED BY <2>3 DEF ToSet
<1> QED BY <1>1, <1>2

\* The shipped tables satisfy it.
LEMMA ShippedSound ==
  /\ \A c \in Context : Apart(ShippedTable[c])
  /\ <<Reserved>> \in DOMAIN ShippedTable[Global]
  /\ ShippedTable[Global][<<Reserved>>] = "quit"
  /\ <<Global, "quit">> \notin Configurable
  /\ \A c \in Context : \A s \in DOMAIN ShippedTable[c] :
       Reserved \in ToSet(s) => s = <<Reserved>> /\ c = Global
<1>1. \A c \in Context : \A s :
        s \in DOMAIN ShippedTable[c] <=>
          \E i \in DOMAIN Shipped : Shipped[i].context = c /\ Shipped[i].seq = s
  BY ShippedIn
<1>3. \A c \in Context : Apart(ShippedTable[c])
  <2> TAKE c \in Context
  <2>1. ASSUME NEW s \in DOMAIN ShippedTable[c] PROVE s \in KeySequence
    <3>1. PICK i \in DOMAIN Shipped : Shipped[i].seq = s BY <1>1
    <3> QED BY <3>1, ShippedTyped
  <2>2. ASSUME NEW r \in DOMAIN ShippedTable[c], NEW s \in DOMAIN ShippedTable[c], r # s
        PROVE  ~Clash(r, s)
    <3>1. PICK i \in DOMAIN Shipped : Shipped[i].context = c /\ Shipped[i].seq = r BY <1>1
    <3>2. PICK j \in DOMAIN Shipped : Shipped[j].context = c /\ Shipped[j].seq = s BY <1>1
    <3> QED BY <2>2, <3>1, <3>2, ShippedAssumption
  <2> QED BY <2>1, <2>2 DEF Apart
<1>4. <<Reserved>> \in DOMAIN ShippedTable[Global]
  BY <1>1, KeymapAssumption, ShippedAssumption
<1>5. ShippedTable[Global][<<Reserved>>] = "quit" /\ <<Global, "quit">> \notin Configurable
  <2>1. PICK i \in DOMAIN Shipped : /\ Shipped[i].seq = <<Reserved>>
                                   /\ ShippedTable[Global][<<Reserved>>] = Shipped[i].action
    <3>1. Global \in Context BY KeymapAssumption
    <3>2. \A s \in DOMAIN ShippedTable[Global] :
            \E i \in DOMAIN Shipped : /\ Shipped[i].context = Global /\ Shipped[i].seq = s
                                     /\ ShippedTable[Global][s] = Shipped[i].action
      BY <3>1, ShippedIn
    <3> QED BY <1>4, <3>2
  <2>2. Reserved \in ToSet(Shipped[i].seq) BY <2>1 DEF ToSet
  <2>3. Shipped[i].action = "quit" BY <2>1, KeysAssumption
  <2> QED BY <2>1, <2>2, <2>3, ShippedAssumption
<1>6. ASSUME NEW c \in Context, NEW s \in DOMAIN ShippedTable[c], Reserved \in ToSet(s)
      PROVE  s = <<Reserved>> /\ c = Global
  <2>1. PICK i \in DOMAIN Shipped : Shipped[i].context = c /\ Shipped[i].seq = s BY <1>1
  <2> QED BY <1>6, <2>1, ShippedAssumption
<1> QED BY <1>3, <1>4, <1>5, <1>6

LEMMA InitKeymapInv == Init => KeymapInv
<1> SUFFICES ASSUME Init PROVE KeymapInv OBVIOUS
<1> USE DEF Init, KeymapInit
<1>1. TablesApart BY ShippedSound DEF TablesApart, ShippedTable, ShippedPrefixes
<1>2. QuitIsFixed BY ShippedSound DEF QuitIsFixed, QuitIsReserved
<1>3. RowsKnown BY KeymapAssumption DEF RowsKnown
<1>4. RowsAreConfigured BY DEF RowsAreConfigured, Kept
<1> QED BY <1>1, <1>2, <1>3, <1>4 DEF KeymapInv

\* So do the tables after loadDefaults().
LEMMA DefaultsInv ==
  ASSUME LoadDefaults
  PROVE  TablesApart' /\ QuitIsFixed' /\ RowsAreConfigured' /\ custom' = {}
<1> USE DEF LoadDefaults
<1>1. TablesApart' BY ShippedSound DEF TablesApart, ShippedTable, ShippedPrefixes
<1>2. QuitIsFixed' BY ShippedSound DEF QuitIsFixed, QuitIsReserved
<1>3. RowsAreConfigured' BY DEF RowsAreConfigured, Kept
<1> QED BY <1>1, <1>2, <1>3

\* An accepted override keeps the tables apart and Quit where it is, and gives
\* its row the new sequences.
LEMMA OverrideInv ==
  ASSUME NEW c, NEW a, NEW seqs, Accepted(c, a, seqs), ApplyOverride(c, a, seqs),
         TablesApart, QuitIsFixed
  PROVE  TablesApart' /\ QuitIsFixed'
<1> DEFINE new == Overridden(bindings[c], a, seqs)
<1>1. c \in Context BY KeymapAssumption DEF Accepted, Row
<1>2. Apart(bindings[c]) /\ Apart(new)
  BY <1>1, OverriddenApart DEF TablesApart
<1>3. /\ bindings' = [bindings EXCEPT ![c] = new]
      /\ prefixes' = [prefixes EXCEPT ![c] = PrefixesOf(bindings'[c])]
  BY DEF ApplyOverride
<1> HIDE DEF new
<1>4. bindings'[c] = new /\ \A d \in Context \ {c} : bindings'[d] = bindings[d]
  BY <1>1, <1>3 DEF TablesApart
<1>5. TablesApart'
  BY <1>1, <1>2, <1>3, <1>4 DEF TablesApart
<1>6. <<Reserved>> \in DOMAIN bindings'[Global] /\ bindings'[Global][<<Reserved>>] = bindings[Global][<<Reserved>>]
  <2>1. CASE c # Global BY <1>4, <2>1, KeymapAssumption DEF QuitIsFixed, QuitIsReserved
  <2>2. CASE c = Global
    <3>1. <<Reserved>> \in DOMAIN bindings[c] /\ bindings[c][<<Reserved>>] # a
      BY <2>2 DEF QuitIsFixed, QuitIsReserved, Accepted
    <3> QED BY <1>2, <1>4, <2>2, <3>1, OverriddenElsewhere DEF new
  <2> QED BY <2>1, <2>2
<1>7. ASSUME NEW d \in Context, NEW s \in DOMAIN bindings'[d], Reserved \in ToSet(s)
      PROVE  s = <<Reserved>> /\ d = Global
  <2>1. s \in DOMAIN bindings[d] \/ (d = c /\ s \in ToSet(seqs))
    BY <1>4, <1>7 DEF new, Overridden
  <2>2. s \notin ToSet(seqs) BY <1>7 DEF Accepted, WellFormed, ToSet
  <2> QED BY <1>7, <2>1, <2>2 DEF QuitIsFixed, QuitIsReserved
<1> QED BY <1>5, <1>6, <1>7 DEF QuitIsFixed, QuitIsReserved

LEMMA OverrideRows ==
  ASSUME NEW c, NEW a, NEW seqs, Accepted(c, a, seqs), ApplyOverride(c, a, seqs),
         KeymapInv,
         <<c, a>> \in DOMAIN config', config'[<<c, a>>] = seqs,
         \A r \in custom \ {<<c, a>>} : r \in DOMAIN config' /\ config'[r] = config[r]
  PROVE  RowsAreConfigured'
<1> DEFINE new == Overridden(bindings[c], a, seqs)
<1> USE DEF KeymapInv
<1>1. c \in Context /\ <<c, a>> \in Row BY KeymapAssumption DEF Accepted, Row
<1>2. bindings' = [bindings EXCEPT ![c] = new] /\ custom' = custom \cup {<<c, a>>}
  BY DEF ApplyOverride
<1> HIDE DEF new
<1>3. bindings'[c] = new /\ \A d \in Context \ {c} : bindings'[d] = bindings[d]
  BY <1>1, <1>2 DEF TablesApart
<1>4. Apart(bindings[c]) BY <1>1 DEF TablesApart
<1>5. \A s \in DOMAIN bindings[c] :
        bindings[c][s] # a => s \in DOMAIN new /\ s \notin ToSet(seqs) /\ new[s] = bindings[c][s]
  BY <1>4, OverriddenElsewhere DEF new
<1>6. \A s \in DOMAIN new :
        new[s] # a => s \in DOMAIN bindings[c] /\ new[s] = bindings[c][s]
  BY DEF new, Overridden
<1>7. BoundTo(new, a) = ToSet(seqs) BY OverriddenRow DEF new
<1>8. ASSUME NEW r \in custom'
      PROVE  r \in DOMAIN config' /\ BoundTo(bindings'[r[1]], r[2]) = ToSet(config'[r])
  <2>1. CASE r = <<c, a>> BY <1>3, <1>7, <2>1
  <2>2. CASE r # <<c, a>>
    <3>1. r \in custom /\ r \in Row BY <1>2, <2>2, KeymapAssumption DEF RowsKnown
    <3>2. /\ r \in DOMAIN config' /\ config'[r] = config[r]
          /\ BoundTo(bindings[r[1]], r[2]) = ToSet(config[r])
      BY <2>2, <3>1 DEF RowsAreConfigured
    <3>3. r[1] = c => r[2] # a BY <2>2, <3>1 DEF Row
    <3>4. BoundTo(bindings'[r[1]], r[2]) = BoundTo(bindings[r[1]], r[2])
      <4>1. CASE r[1] = c BY <1>3, <1>5, <1>6, <3>3, <4>1 DEF BoundTo
      <4>2. CASE r[1] # c BY <1>3, <3>1, <4>2 DEF Row
      <4> QED BY <4>1, <4>2
    <3> QED BY <3>2, <3>4
  <2> QED BY <2>1, <2>2
<1>9. ASSUME NEW d \in Context
      PROVE  Kept(bindings[d], d)' = Kept(ShippedTable[d], d)'
  <2>1. Kept(bindings[d], d) = Kept(ShippedTable[d], d) BY DEF RowsAreConfigured
  <2> DEFINE S == {s \in DOMAIN bindings[d] : <<d, bindings[d][s]>> \notin custom}
             T == {s \in DOMAIN ShippedTable[d] : <<d, ShippedTable[d][s]>> \notin custom}
             S2 == {s \in DOMAIN bindings'[d] : <<d, bindings'[d][s]>> \notin custom'}
             T2 == {s \in DOMAIN ShippedTable[d] : <<d, ShippedTable[d][s]>> \notin custom'}
  <2>2. S = T /\ \A s \in S : bindings[d][s] = ShippedTable[d][s] BY <2>1 DEF Kept
  <2>3. S2 = {s \in S : <<d, bindings[d][s]>> # <<c, a>>}
        /\ \A s \in S2 : bindings'[d][s] = bindings[d][s]
    <3>1. CASE d = c BY <1>2, <1>3, <1>5, <1>6, <3>1
    <3>2. CASE d # c BY <1>2, <1>3, <3>2
    <3> QED BY <3>1, <3>2
  <2>4. T2 = {s \in T : <<d, ShippedTable[d][s]>> # <<c, a>>} BY <1>2
  <2>5. S2 = T2 /\ \A s \in S2 : bindings'[d][s] = ShippedTable[d][s]
    BY <2>2, <2>3, <2>4
  <2> QED BY <2>5 DEF Kept
<1> QED BY <1>8, <1>9 DEF RowsAreConfigured

-----------------------------------------------------------------------------
(* The invariant is kept by every step.                                    *)

LEMMA TablesKept ==
  ASSUME KeymapInv, UNCHANGED <<tables, config>>
  PROVE  TablesApart' /\ QuitIsFixed' /\ RowsAreConfigured'
<1> USE DEF KeymapInv
<1>1. bindings' = bindings /\ prefixes' = prefixes /\ custom' = custom /\ config' = config
  BY DEF tables
<1>2. TablesApart' BY <1>1 DEF TablesApart
<1>3. QuitIsFixed' BY <1>1 DEF QuitIsFixed, QuitIsReserved
<1>4. RowsAreConfigured'
  <2>1. \A r \in custom' : /\ r \in DOMAIN config'
                          /\ BoundTo(bindings'[r[1]], r[2]) = ToSet(config'[r])
    BY <1>1 DEF RowsAreConfigured
  <2>2. \A c \in Context : Kept(bindings[c], c)' = Kept(ShippedTable[c], c)'
    BY <1>1 DEF RowsAreConfigured, Kept
  <2> QED BY <2>1, <2>2 DEF RowsAreConfigured
<1> QED BY <1>2, <1>3, <1>4

LEMMA KeymapInvKept ==
  ASSUME KeymapInv, UNCHANGED <<tables, config, file, loading, unread>>
  PROVE  KeymapInv'
<1>1. RowsKnown' BY DEF KeymapInv, RowsKnown, tables
<1> QED BY <1>1, TablesKept DEF KeymapInv

LEMMA LoadEntryInv == KeymapInv /\ LoadEntry => KeymapInv'
<1> SUFFICES ASSUME KeymapInv, LoadEntry PROVE KeymapInv' OBVIOUS
<1>1. PICK r \in unread :
        /\ unread' = unread \ {r}
        /\ IF Accepted(r[1], r[2], config[r])
           THEN ApplyOverride(r[1], r[2], config[r])
           ELSE UNCHANGED <<tables, pending>>
  BY DEF LoadEntry
<1>2. UNCHANGED <<config, file, loading>> BY DEF LoadEntry
<1>3. r = <<r[1], r[2]>> /\ r \in DOMAIN config BY DEF KeymapInv, RowsKnown
<1>4. CASE Accepted(r[1], r[2], config[r])
  <2>1. ApplyOverride(r[1], r[2], config[r]) BY <1>1, <1>4
  <2>2. TablesApart' /\ QuitIsFixed' BY <1>4, <2>1, OverrideInv DEF KeymapInv
  <2>3. RowsKnown'
    BY <1>1, <1>2, <1>4, <2>1 DEF KeymapInv, RowsKnown, ApplyOverride, Accepted
  <2>4. \A q \in custom : q \in DOMAIN config BY DEF KeymapInv, RowsAreConfigured
  <2>5. RowsAreConfigured'
    BY <1>2, <1>3, <1>4, <2>1, <2>4, OverrideRows
  <2> QED BY <2>2, <2>3, <2>5 DEF KeymapInv
<1>5. CASE ~Accepted(r[1], r[2], config[r])
  <2>1. UNCHANGED tables BY <1>1, <1>5
  <2>2. RowsKnown' BY <1>1, <1>2, <2>1 DEF KeymapInv, RowsKnown, tables
  <2> QED BY <1>2, <2>1, <2>2, TablesKept DEF KeymapInv
<1> QED BY <1>4, <1>5

\* What is forgotten at the end of the walk was never applied.
LEMMA LoadEndsInv == KeymapInv /\ LoadEnds => KeymapInv'
<1> SUFFICES ASSUME KeymapInv, LoadEnds PROVE KeymapInv' OBVIOUS
<1> DEFINE kept == DOMAIN config \ Obsolete(config)
<1>1. UNCHANGED tables /\ UNCHANGED <<file, unread>> /\ unread = {} BY DEF LoadEnds
<1>2. DOMAIN config' = kept /\ \A r \in kept : config'[r] = config[r]
  BY DEF LoadEnds, Rows
<1>3. custom \subseteq kept
  BY KeymapAssumption DEF KeymapInv, RowsKnown, RowsAreConfigured, Obsolete
<1>4. RowsKnown' BY <1>1, <1>2 DEF KeymapInv, RowsKnown, tables
<1>5. RowsAreConfigured'
  <2>1. \A r \in custom : config'[r] = config[r] /\ r \in DOMAIN config' BY <1>2, <1>3
  <2> QED BY <1>1, <2>1 DEF KeymapInv, RowsAreConfigured, Kept, BoundTo, tables
<1> QED BY <1>1, <1>4, <1>5 DEF KeymapInv, TablesApart, QuitIsFixed, QuitIsReserved, tables

LEMMA RebindInv == KeymapInv /\ RebindStep => KeymapInv'
<1> SUFFICES ASSUME KeymapInv, RebindStep PROVE KeymapInv' OBVIOUS
<1> DEFINE c == capture[1]
           a == capture[2]
           seqs == <<buffer>>
<1>1. UNCHANGED <<loading, unread>> /\ ~loading BY DEF RebindStep, Bind
<1>2. CASE Accepted(c, a, seqs)
  <2>1. /\ ApplyOverride(c, a, seqs)
        /\ config' = With(config, <<c, a>>, seqs)
        /\ file' \in {config', file}
    BY <1>2 DEF RebindStep, Bind, Save
  <2>2. /\ DOMAIN config' = DOMAIN config \cup {<<c, a>>}
        /\ config'[<<c, a>>] = seqs
        /\ \A r \in DOMAIN config \ {<<c, a>>} : config'[r] = config[r]
    BY <2>1 DEF With
  <2>3. TablesApart' /\ QuitIsFixed' BY <1>2, <2>1, OverrideInv DEF KeymapInv
  <2>4. RowsKnown'
    <3>1. custom' \subseteq Configurable
      BY <1>2, <2>1 DEF KeymapInv, RowsKnown, ApplyOverride, Accepted
    <3>2. \A r \in DOMAIN config' \cup DOMAIN file' : r = <<r[1], r[2]>>
      BY <2>1, <2>2 DEF KeymapInv, RowsKnown
    <3> QED BY <1>1, <2>2, <3>1, <3>2 DEF KeymapInv, RowsKnown
  <2>5. \A r \in custom : r \in DOMAIN config BY DEF KeymapInv, RowsAreConfigured
  <2> HIDE DEF c, a, seqs
  <2>6. RowsAreConfigured' BY <1>2, <2>1, <2>2, <2>5, OverrideRows
  <2> QED BY <2>3, <2>4, <2>6 DEF KeymapInv
<1>3. CASE ~Accepted(c, a, seqs)
  BY <1>1, <1>3, KeymapInvKept DEF RebindStep, Bind
<1> QED BY <1>2, <1>3

LEMMA ResetInv == KeymapInv /\ ResetStep => KeymapInv'
<1> SUFFICES ASSUME KeymapInv, ResetStep PROVE KeymapInv' OBVIOUS
<1> USE DEF ResetStep, RestoreDefaults
<1>1. TablesApart' /\ QuitIsFixed' /\ RowsAreConfigured' /\ custom' = {}
  BY DefaultsInv
<1>2. RowsKnown' BY <1>1 DEF KeymapInv, RowsKnown, Save
<1> QED BY <1>1, <1>2 DEF KeymapInv

LEMMA LaunchInv == KeymapInv /\ Launch => KeymapInv'
<1> SUFFICES ASSUME KeymapInv, Launch PROVE KeymapInv' OBVIOUS
<1> USE DEF Launch
<1>1. TablesApart' /\ QuitIsFixed' /\ RowsAreConfigured' /\ custom' = {}
  BY DefaultsInv
<1>2. RowsKnown' BY <1>1 DEF KeymapInv, RowsKnown
<1> QED BY <1>1, <1>2 DEF KeymapInv

LEMMA NextKeymapInv == KeymapInv /\ [Next]_vars => KeymapInv'
<1> SUFFICES ASSUME KeymapInv, [Next]_vars PROVE KeymapInv' OBVIOUS
<1>1. CASE UNCHANGED vars BY <1>1, KeymapInvKept DEF vars, keymap_vars
<1>2. CASE Next
  <2>1. CASE UNCHANGED keymap_vars BY <2>1, KeymapInvKept DEF keymap_vars
  <2>2. CASE \E t \in Keys : Feed(CurrentKeyContexts, t) BY <2>2, KeymapInvKept DEF Feed
  <2> QED BY <1>2, <2>1, <2>2, NextOfKeymap, LoadEntryInv, LoadEndsInv, ResetInv, RebindInv,
             LaunchInv
<1> QED BY <1>1, <1>2

-----------------------------------------------------------------------------
(* The types of the keymap.                                                *)

\* The order of a context lists its table, and the configuration holds lists.
KeymapTyped ==
  /\ order = [c \in Context |-> order[c]]
  /\ \A c \in Context : /\ order[c] \in Seq(KeySequence)
                        /\ Range(order[c]) = DOMAIN bindings[c]
                        /\ \A s \in DOMAIN bindings[c] : bindings[c][s] \in Action
  /\ \A r \in DOMAIN config : config[r] \in Seq(ToSet(config[r]))
  /\ \A r \in DOMAIN file : file[r] \in Seq(ToSet(file[r]))
  /\ loading \in BOOLEAN

LEMMA ShippedOrderTyped ==
  ASSUME NEW c \in Context
  PROVE  /\ ShippedOrder[c] \in Seq(KeySequence)
         /\ Range(ShippedOrder[c]) = DOMAIN ShippedTable[c]
         /\ \A s \in DOMAIN ShippedTable[c] : ShippedTable[c][s] \in Action
<1> DEFINE B == [context : Context, action : Action, seq : KeySequence]
           these == {b \in ToSet(Shipped) : b.context = c}
           here == Selected(Shipped, these)
<1>1. Shipped \in Seq(B) BY KeymapAssumption
<1>2. ShippedOrder[c] = [i \in DOMAIN here |-> here[i].seq] BY DEF ShippedOrder
<1>3. Range(Shipped) = ToSet(Shipped) BY DEF Range, ToSet
<1> HIDE DEF B, here
<1>4. here \in Seq(B) /\ Range(here) = Range(Shipped) \cap these
  BY <1>1, SelectedOf DEF here
<1>5. Range(here) = these BY <1>3, <1>4
<1> HIDE DEF these
<1>6. ASSUME NEW i \in DOMAIN here PROVE here[i] \in B BY <1>4
<1>7. ASSUME NEW i \in DOMAIN here PROVE here[i].seq \in KeySequence
  BY <1>6, <1>7 DEF B
<1>8. ShippedOrder[c] \in Seq(KeySequence)
  <2>1. DOMAIN here = 1 .. Len(here) /\ Len(here) \in Nat BY <1>4
  <2> QED BY <1>2, <1>7, <2>1
<1>9. Range(ShippedOrder[c]) = DOMAIN ShippedTable[c]
  <2>1. Range(ShippedOrder[c]) = {b.seq : b \in Range(here)} BY <1>2 DEF Range
  <2>2. DOMAIN ShippedTable[c] = {b.seq : b \in these} BY DEF ShippedTable, these
  <2> QED BY <1>5, <2>1, <2>2
<1>10. \A s \in DOMAIN ShippedTable[c] : ShippedTable[c][s] \in Action
  BY ShippedIn, ShippedTyped
<1> QED BY <1>8, <1>9, <1>10

LEMMA InitKeymapTyped == Init => KeymapTyped
<1> SUFFICES ASSUME Init PROVE KeymapTyped OBVIOUS
<1>1. order = ShippedOrder /\ bindings = ShippedTable /\ loading = TRUE
      /\ file \in Files /\ config = file
  BY DEF Init, KeymapInit
<1>2. \A r \in DOMAIN file : file[r] \in Seq(ToSet(file[r])) BY <1>1, KeymapAssumption
<1>3. ShippedOrder = [c \in Context |-> ShippedOrder[c]] BY DEF ShippedOrder
<1> QED BY <1>1, <1>2, <1>3, ShippedOrderTyped DEF KeymapTyped

\* The tables of loadDefaults() are of their types.
LEMMA DefaultsTyped ==
  ASSUME KeymapTyped, LoadDefaults, config' \in {<<>>, file}, file' \in {config', file},
         loading' \in BOOLEAN
  PROVE  KeymapTyped'
<1>1. order' = ShippedOrder /\ bindings' = ShippedTable BY DEF LoadDefaults
<1>2. \A r \in DOMAIN config' : config'[r] \in Seq(ToSet(config'[r])) BY DEF KeymapTyped
<1>3. \A r \in DOMAIN file' : file'[r] \in Seq(ToSet(file'[r])) BY <1>2 DEF KeymapTyped
<1>4. ShippedOrder = [c \in Context |-> ShippedOrder[c]] BY DEF ShippedOrder
<1> QED BY <1>1, <1>2, <1>3, <1>4, ShippedOrderTyped DEF KeymapTyped

\* An accepted override appends what its row is given to what the others have.
LEMMA OverrideTyped ==
  ASSUME KeymapTyped, TablesApart,
         NEW c, NEW a, NEW seqs, seqs \in Seq(ToSet(seqs)),
         Accepted(c, a, seqs), ApplyOverride(c, a, seqs),
         \A r \in DOMAIN config' : config'[r] \in Seq(ToSet(config'[r])),
         file' \in {config', file}, UNCHANGED loading
  PROVE  KeymapTyped'
<1> DEFINE t == bindings[c]
           rest == DOMAIN t \ BoundTo(t, a)
           kept == Selected(order[c], rest)
<1>1. c \in Context /\ a \in Action BY KeymapAssumption DEF Accepted, Row
<1>2. /\ bindings' = [bindings EXCEPT ![c] = Overridden(t, a, seqs)]
      /\ order' = [order EXCEPT ![c] = kept \o seqs]
  BY DEF ApplyOverride
<1>3. seqs \in Seq(KeySequence)
  <2>1. \A i \in DOMAIN seqs : seqs[i] \in KeySequence BY DEF Accepted, WellFormed
  <2>2. DOMAIN seqs = 1 .. Len(seqs) /\ Len(seqs) \in Nat OBVIOUS
  <2> QED BY <2>1, <2>2
<1>4. order[c] \in Seq(KeySequence) /\ Range(order[c]) = DOMAIN t
  BY <1>1 DEF KeymapTyped
<1> HIDE DEF t, rest, kept
<1>5. kept \in Seq(KeySequence) /\ Range(kept) = rest
  BY <1>4, SelectedOf DEF kept, rest
<1>6. kept \o seqs \in Seq(KeySequence) BY <1>3, <1>5
<1>7. Range(kept \o seqs) = rest \cup ToSet(seqs)
  <2>1. Range(kept \o seqs) = Range(kept) \cup Range(seqs)
    BY <1>3, <1>5, RangeConcatenation
  <2> QED BY <1>5, <2>1 DEF Range, ToSet
<1>8. /\ DOMAIN Overridden(t, a, seqs) = rest \cup ToSet(seqs)
      /\ \A s \in rest \cup ToSet(seqs) : Overridden(t, a, seqs)[s] \in {a, t[s]}
  BY DEF Overridden, rest
<1>9. bindings = [d \in Context |-> bindings[d]] /\ order = [d \in Context |-> order[d]]
  BY DEF TablesApart, KeymapTyped
<1> DEFINE new == Overridden(t, a, seqs)
           newOrder == kept \o seqs
<1> HIDE DEF new, newOrder
<1>10. /\ bindings'[c] = new /\ order'[c] = newOrder
       /\ order' = [d \in Context |-> order'[d]]
       /\ \A d \in Context \ {c} : bindings'[d] = bindings[d] /\ order'[d] = order[d]
  BY <1>1, <1>2, <1>9 DEF new, newOrder
<1>11. ASSUME NEW d \in Context
       PROVE  /\ order'[d] \in Seq(KeySequence)
              /\ Range(order'[d]) = DOMAIN bindings'[d]
              /\ \A s \in DOMAIN bindings'[d] : bindings'[d][s] \in Action
  <2>1. CASE d = c
    <3>1. \A s \in DOMAIN new : new[s] \in Action
      <4>1. \A s \in rest : t[s] \in Action BY <1>1 DEF KeymapTyped, t, rest
      <4>2. \A s \in ToSet(seqs) : new[s] = a BY DEF new, Overridden
      <4> QED BY <1>1, <1>8, <4>1, <4>2 DEF new
    <3> QED BY <1>6, <1>7, <1>8, <1>10, <2>1, <3>1 DEF new, newOrder
  <2>2. CASE d # c BY <1>10, <2>2 DEF KeymapTyped
  <2> QED BY <2>1, <2>2
<1>12. \A r \in DOMAIN file' : file'[r] \in Seq(ToSet(file'[r])) BY DEF KeymapTyped
<1>13. loading' \in BOOLEAN BY DEF KeymapTyped
<1> QED BY <1>10, <1>11, <1>12, <1>13 DEF KeymapTyped

\* A list is one over its own elements.
LEMMA SingleList ==
  ASSUME NEW x
  PROVE  <<x>> \in Seq(ToSet(<<x>>)) /\ ToSet(<<x>>) = {x}
BY DEF ToSet

LEMMA NextKeymapTyped == KeymapInv /\ KeymapTyped /\ [Next]_vars => KeymapTyped'
<1> SUFFICES ASSUME KeymapInv, KeymapTyped, [Next]_vars PROVE KeymapTyped' OBVIOUS
<1>0. TablesApart BY DEF KeymapInv
<1>1. ASSUME UNCHANGED <<tables, config, file, loading>> PROVE KeymapTyped'
  BY <1>1 DEF KeymapTyped, tables
<1>2. CASE LoadEntry
  <2>1. PICK r \in unread :
          IF Accepted(r[1], r[2], config[r])
          THEN ApplyOverride(r[1], r[2], config[r])
          ELSE UNCHANGED <<tables, pending>>
    BY <1>2 DEF LoadEntry
  <2>2. UNCHANGED <<config, file, loading>> BY <1>2 DEF LoadEntry
  <2>3. config[r] \in Seq(ToSet(config[r])) BY DEF KeymapInv, RowsKnown, KeymapTyped
  <2>4. CASE Accepted(r[1], r[2], config[r])
    <3>1. ApplyOverride(r[1], r[2], config[r]) BY <2>1, <2>4
    <3>2. \A q \in DOMAIN config' : config'[q] \in Seq(ToSet(config'[q]))
      BY <2>2 DEF KeymapTyped
    <3> QED BY <1>0, <2>2, <2>3, <2>4, <3>1, <3>2, OverrideTyped
  <2>5. CASE ~Accepted(r[1], r[2], config[r]) BY <1>1, <2>1, <2>2, <2>5
  <2> QED BY <2>4, <2>5
<1>3. CASE loading /\ LoadEnds
  <2>1. UNCHANGED <<tables, file>> /\ loading' = FALSE BY <1>3 DEF LoadEnds
  <2>2. \A r \in DOMAIN config' : config'[r] \in Seq(ToSet(config'[r]))
    BY <1>3 DEF LoadEnds, Rows, KeymapTyped
  <2> QED BY <2>1, <2>2 DEF KeymapTyped, tables
<1>4. CASE ResetStep
  BY <1>4, DefaultsTyped DEF ResetStep, RestoreDefaults, Save, KeymapTyped
<1>5. CASE RebindStep
  <2> DEFINE c == capture[1]
             a == capture[2]
             seqs == <<buffer>>
  <2>1. UNCHANGED <<loading, unread>> BY <1>5 DEF RebindStep, Bind
  <2>2. CASE Accepted(c, a, seqs)
    <3>1. /\ ApplyOverride(c, a, seqs)
          /\ config' = With(config, <<c, a>>, seqs)
          /\ file' \in {config', file}
      BY <1>5, <2>2 DEF RebindStep, Bind, Save
    <3>2. seqs \in Seq(ToSet(seqs)) BY SingleList
    <3> HIDE DEF seqs
    <3>3. \A r \in DOMAIN config' : config'[r] \in Seq(ToSet(config'[r]))
      BY <3>1, <3>2 DEF With, KeymapTyped
    <3> HIDE DEF c, a
    <3> QED BY <1>0, <2>1, <2>2, <3>1, <3>2, <3>3, OverrideTyped
  <2>3. CASE ~Accepted(c, a, seqs)
    BY <1>1, <1>5, <2>1, <2>3 DEF RebindStep, Bind
  <2> QED BY <2>2, <2>3
<1>6. CASE Launch
  BY <1>6, DefaultsTyped DEF Launch
<1>7. CASE \E t \in Keys : Feed(CurrentKeyContexts, t)
  BY <1>1, <1>7 DEF Feed
<1>8. CASE UNCHANGED keymap_vars
  BY <1>1, <1>8 DEF keymap_vars
<1>9. CASE UNCHANGED vars
  BY <1>8, <1>9 DEF vars
<1> QED BY <1>2, <1>3, <1>4, <1>5, <1>6, <1>7, <1>8, <1>9, NextOfKeymap

-----------------------------------------------------------------------------
(* The sequence that is being typed.                                       *)

\* The contexts of the moment are the chain of the front one.
LEMMA ContextsAreAChain ==
  /\ Head(CurrentKeyContexts) \in Context
  /\ Chain[Head(CurrentKeyContexts)] = CurrentKeyContexts
  /\ CurrentKeyContexts \in Seq(Context)
  /\ \E i \in DOMAIN CurrentKeyContexts : CurrentKeyContexts[i] = Global
<1>1. \/ \E c \in {"Immersive", "Settings", "Visual"} : CurrentKeyContexts = <<c, "Global">>
      \/ \E c \in {"Tree", "Tracks"} : CurrentKeyContexts = <<c, "Library", "Global">>
  BY DEF CurrentKeyContexts
<1>2. ASSUME NEW c \in {"Immersive", "Settings", "Visual"}, CurrentKeyContexts = <<c, "Global">>
      PROVE  /\ Head(CurrentKeyContexts) = c /\ c \in Context
             /\ Chain[c] = CurrentKeyContexts
             /\ CurrentKeyContexts[2] = Global /\ 2 \in DOMAIN CurrentKeyContexts
  BY <1>2, KeysAssumption
<1>3. ASSUME NEW c \in {"Tree", "Tracks"}, CurrentKeyContexts = <<c, "Library", "Global">>
      PROVE  /\ Head(CurrentKeyContexts) = c /\ c \in Context
             /\ Chain[c] = CurrentKeyContexts
             /\ CurrentKeyContexts[3] = Global /\ 3 \in DOMAIN CurrentKeyContexts
  BY <1>3, KeysAssumption
<1>4. /\ Head(CurrentKeyContexts) \in Context
      /\ Chain[Head(CurrentKeyContexts)] = CurrentKeyContexts
      /\ \E i \in DOMAIN CurrentKeyContexts : CurrentKeyContexts[i] = Global
  BY <1>1, <1>2, <1>3
<1>5. \A c \in Context : Chain[c] \in Seq(Context) BY KeymapAssumption
<1> QED BY <1>4, <1>5

\* Nearest() finds the first place that offers the sequence.
LEMMA NearestOffers ==
  ASSUME NEW chain \in Seq(Context), NEW seq, Offering(chain, seq) # {}
  PROVE  \E i \in Offering(chain, seq) :
           Nearest(chain, seq) = chain[i] /\ \A j \in Offering(chain, seq) : i <= j
<1> DEFINE places == Offering(chain, seq)
<1>1. places \in SUBSET Nat BY DEF Offering
<1>2. Nearest(chain, seq) = chain[CHOOSE i \in places : \A j \in places : i <= j]
  BY DEF Nearest
<1> HIDE DEF places
<1>3. \E i \in places : \A j \in places : i <= j BY <1>1, FirstOf DEF places
<1> QED BY <1>2, <1>3 DEF places

PendingInv ==
  /\ pending.seq \in Seq(Token) /\ pending.at \in Context
  /\ PendingContinues

LEMMA NoPendingInv == pending' = NoPending => PendingInv'
BY KeymapAssumption DEF PendingInv, PendingContinues, NoPending

\* A key that begins a binding leaves what some context of its front begins.
LEMMA FeedPending ==
  ASSUME PendingInv, NEW t \in Keys, Feed(CurrentKeyContexts, t)
  PROVE  PendingInv'
<1> DEFINE chain == CurrentKeyContexts
           seq == Continued(chain, t)
           c == Nearest(chain, seq)
<1>1. prefixes' = prefixes BY DEF Feed, tables
<1>2. /\ Head(chain) \in Context /\ Chain[Head(chain)] = chain /\ chain \in Seq(Context)
  BY ContextsAreAChain
<1>3. CASE Resolution(chain, t) = Begun
  <2>1. pending' = [seq |-> seq, at |-> Head(chain)] BY <1>3 DEF Feed
  <2>2. Offering(chain, seq) # {} /\ seq \notin DOMAIN bindings[c]
    BY <1>3 DEF Resolution, Begun, Unmapped, Matched
  <2>3. seq \in Seq(Token)
    <3>1. t \in Token BY KeysAssumption
    <3>2. pending.seq \in Seq(Token) BY DEF PendingInv
    <3> DEFINE typed == IF pending.at = Head(chain) THEN pending.seq ELSE <<>>
    <3>3. typed \in Seq(Token) BY <3>2
    <3> HIDE DEF typed
    <3>4. Append(typed, t) \in Seq(Token) /\ <<t>> \in Seq(Token) BY <3>1, <3>3
    <3>5. seq \in {Append(typed, t), <<t>>} BY DEF Continued, typed
    <3> QED BY <3>4, <3>5
  <2> HIDE DEF chain, seq
  <2>4. PICK i \in Offering(chain, seq) : c = chain[i]
    BY <1>2, <2>2, NearestOffers
  <2>5. i \in DOMAIN chain /\ seq \in prefixes[chain[i]] BY <2>2, <2>4 DEF Offering
  <2>6. pending'.seq = seq /\ pending'.at = Head(chain) BY <2>1
  <2> QED BY <1>1, <1>2, <2>3, <2>5, <2>6 DEF PendingInv, PendingContinues
<1>4. CASE Resolution(chain, t) # Begun
  BY <1>4, NoPendingInv DEF Feed
<1> QED BY <1>3, <1>4

LEMMA NextPending == PendingInv /\ [Next]_vars => PendingInv'
<1> SUFFICES ASSUME PendingInv, [Next]_vars PROVE PendingInv' OBVIOUS
<1>1. ASSUME UNCHANGED <<pending, tables>> PROVE PendingInv'
  BY <1>1 DEF PendingInv, PendingContinues, tables
<1>2. CASE LoadEntry BY <1>1, <1>2, NoPendingInv DEF LoadEntry, ApplyOverride
<1>3. CASE LoadEnds BY <1>1, <1>3 DEF LoadEnds
<1>4. CASE ResetStep BY <1>4, NoPendingInv DEF ResetStep, RestoreDefaults, LoadDefaults
<1>5. CASE RebindStep BY <1>1, <1>5, NoPendingInv DEF RebindStep, Bind, ApplyOverride
<1>6. CASE Launch BY <1>6, NoPendingInv DEF Launch, LoadDefaults
<1>7. CASE \E t \in Keys : Feed(CurrentKeyContexts, t) BY <1>7, FeedPending
<1>8. CASE UNCHANGED keymap_vars BY <1>1, <1>8 DEF keymap_vars
<1>9. CASE UNCHANGED vars BY <1>8, <1>9 DEF vars
<1> QED BY <1>2, <1>3, <1>4, <1>5, <1>6, <1>7, <1>8, <1>9, NextOfKeymap

-----------------------------------------------------------------------------
(* The screen: the cursor of the tree is on a row that is visible.         *)

Visible(folders) ==
  Folders \cup (IF "vault" \in folders THEN Collections ELSE {})
          \cup (IF "core" \in folders THEN Modules ELSE {})

PlaceInv ==
  /\ immersive \in BOOLEAN /\ visual \in BOOLEAN
  /\ page \in {"Library", "Settings"} /\ pane \in {"Tree", "TrackList"}
  /\ expanded \subseteq Folders
  /\ node \in Visible(expanded) /\ module \in Modules

\* The elements of the lists the tree is put together from.
LEMMA ShortLists ==
  ASSUME NEW S, NEW x \in S, NEW y \in S
  PROVE  /\ <<>> \in Seq(S) /\ Range(<<>>) = {}
         /\ <<x>> \in Seq(S) /\ Range(<<x>>) = {x}
         /\ <<x, y>> \in Seq(S) /\ Range(<<x, y>>) = {x, y}
<1>1. <<>> \in Seq(S) /\ <<x>> \in Seq(S) /\ <<x, y>> \in Seq(S) OBVIOUS
<1>2. Range(<<>>) = {} BY DEF Range
<1>3. Range(<<x>>) = {x}
  <2>1. DOMAIN <<x>> = {1} /\ <<x>>[1] = x OBVIOUS
  <2> QED BY <2>1 DEF Range
<1>4. Range(<<x, y>>) = {x, y}
  <2>1. DOMAIN <<x, y>> = {1, 2} /\ <<x, y>>[1] = x /\ <<x, y>>[2] = y OBVIOUS
  <2> QED BY <2>1 DEF Range
<1> QED BY <1>1, <1>2, <1>3, <1>4

LEMMA JoinedLists ==
  ASSUME NEW S, NEW s, NEW t, s \in Seq(S), t \in Seq(S)
  PROVE  s \o t \in Seq(S) /\ Range(s \o t) = Range(s) \cup Range(t)
BY RangeConcatenation, ConcatProperties

\* The rows of the tree are the visible ones.
LEMMA TreeRows == /\ Tree \in Seq(Visible(expanded)) /\ Tree # <<>>
                  /\ ToSet(Tree) = Visible(expanded)
<1> DEFINE v == IF "vault" \in expanded THEN <<"library", "playlist">> ELSE <<>>
           c == IF "core" \in expanded THEN <<"general", "keybindings">> ELSE <<>>
           V == IF "vault" \in expanded THEN Collections ELSE {}
           C == IF "core" \in expanded THEN Modules ELSE {}
           S == Visible(expanded)
           h == <<"vault">>
           k == <<"core">>
<1>1. Tree = h \o v \o k \o c BY DEF Tree
<1>0. "vault" \in S /\ "core" \in S BY DEF Visible, Folders
<1>2. v \in Seq(S) /\ Range(v) = V
  <2>1. CASE "vault" \in expanded
    <3>1. "library" \in S /\ "playlist" \in S BY <2>1 DEF Visible, Collections
    <3> HIDE DEF S
    <3>2. /\ <<"library", "playlist">> \in Seq(S)
          /\ Range(<<"library", "playlist">>) = {"library", "playlist"}
      BY <3>1, ShortLists
    <3> QED BY <2>1, <3>2 DEF Collections
  <2>2. CASE "vault" \notin expanded BY <1>0, <2>2, ShortLists
  <2> QED BY <2>1, <2>2
<1>3. c \in Seq(S) /\ Range(c) = C
  <2>1. CASE "core" \in expanded
    <3>1. "general" \in S /\ "keybindings" \in S BY <2>1 DEF Visible, Modules
    <3> HIDE DEF S
    <3>2. /\ <<"general", "keybindings">> \in Seq(S)
          /\ Range(<<"general", "keybindings">>) = {"general", "keybindings"}
      BY <3>1, ShortLists
    <3> QED BY <2>1, <3>2 DEF Modules
  <2>2. CASE "core" \notin expanded BY <1>0, <2>2, ShortLists
  <2> QED BY <2>1, <2>2
<1>4. h \in Seq(S) /\ Range(h) = {"vault"} /\ k \in Seq(S) /\ Range(k) = {"core"}
  BY <1>0, ShortLists
<1>5. S = Folders \cup V \cup C BY DEF Visible
<1> HIDE DEF v, c, V, C, S, h, k
<1>6. h \o v \in Seq(S) /\ Range(h \o v) = {"vault"} \cup V
  <2>1. h \o v \in Seq(S) /\ Range(h \o v) = Range(h) \cup Range(v)
    BY <1>2, <1>4, JoinedLists
  <2> QED BY <1>2, <1>4, <2>1
<1>7. (h \o v) \o k \in Seq(S) /\ Range((h \o v) \o k) = {"vault"} \cup V \cup {"core"}
  <2> DEFINE hv == h \o v
  <2>0. hv \in Seq(S) BY <1>6
  <2> HIDE DEF hv
  <2>1. hv \o k \in Seq(S) /\ Range(hv \o k) = Range(hv) \cup Range(k)
    BY <1>4, <2>0, JoinedLists
  <2> QED BY <1>4, <1>6, <2>1 DEF hv
<1>8. Tree \in Seq(S) /\ Range(Tree) = {"vault"} \cup V \cup {"core"} \cup C
  <2> DEFINE hvk == (h \o v) \o k
  <2>0. hvk \in Seq(S) BY <1>7
  <2> HIDE DEF hvk
  <2>1. hvk \o c \in Seq(S) /\ Range(hvk \o c) = Range(hvk) \cup Range(c)
    BY <1>3, <2>0, JoinedLists
  <2> QED BY <1>1, <1>3, <1>7, <2>1 DEF hvk
<1>9. Range(Tree) = ToSet(Tree) BY DEF Range, ToSet
<1>10. ToSet(Tree) = S BY <1>5, <1>8, <1>9 DEF Folders
<1>11. Tree # <<>>
  <2>1. "vault" \in Range(Tree) BY <1>8
  <2>2. Range(<<>>) = {} BY <1>0, ShortLists
  <2> QED BY <2>1, <2>2
<1> QED BY <1>8, <1>10, <1>11 DEF S

LEMMA ClampInside ==
  ASSUME NEW S, NEW list \in Seq(S), NEW i \in Int
  PROVE  /\ Clamp(i, list) \in Nat \ {0}
         /\ list = <<>> \/ Clamp(i, list) \in DOMAIN list
         /\ i \in DOMAIN list => Clamp(i, list) = i
<1> DEFINE n == Len(list)
<1>1. n \in Nat /\ DOMAIN list = 1 .. n OBVIOUS
<1>2. list # <<>> => n > 0 OBVIOUS
<1>3. list = <<>> => DOMAIN list = {} OBVIOUS
<1>4. Clamp(i, list) = IF i < 1 \/ list = <<>> THEN 1 ELSE IF i > n THEN n ELSE i
  BY DEF Clamp
<1> HIDE DEF n
<1> QED BY <1>1, <1>2, <1>3, <1>4

LEMMA ShowPlace ==
  ASSUME PlaceInv, NEW n \in Visible(expanded), Show(n), node' = n,
         immersive' \in BOOLEAN, visual' \in BOOLEAN, pane' \in {"Tree", "TrackList"},
         UNCHANGED expanded
  PROVE  PlaceInv'
<1>1. module' \in Modules BY DEF Show, PlaceInv
<1>2. page' \in {"Library", "Settings"} BY DEF Show, PlaceInv
<1> QED BY <1>1, <1>2 DEF PlaceInv

LEMMA CursorInTree == PlaceInv => Cursor \in DOMAIN Tree
<1> SUFFICES ASSUME PlaceInv PROVE Cursor \in DOMAIN Tree OBVIOUS
<1>1. \E i \in DOMAIN Tree : Tree[i] = node BY TreeRows DEF PlaceInv, ToSet
<1> QED BY <1>1 DEF Cursor

LEMMA MoveToPlace ==
  ASSUME PlaceInv, NEW i \in Int, MoveTo(i), UNCHANGED <<immersive, pane, visual, expanded>>
  PROVE  PlaceInv'
<1>1. Clamp(i, Tree) \in DOMAIN Tree BY TreeRows, ClampInside
<1>2. node' \in Visible(expanded) BY <1>1, TreeRows DEF MoveTo, ToSet
<1> QED BY <1>2, ShowPlace DEF MoveTo, PlaceInv

LEMMA FoldPlace ==
  ASSUME PlaceInv, NEW folders \in SUBSET Folders, Fold(folders), node \in Folders
  PROVE  PlaceInv'
BY DEF PlaceInv, Fold, Visible

LEMMA FocusPlace ==
  ASSUME PlaceInv, NEW p \in {"Tree", "TrackList"}, FocusPane(p)
  PROVE  PlaceInv'
BY DEF PlaceInv, FocusPane

LEMMA PlaceKept == PlaceInv /\ UNCHANGED place => PlaceInv'
BY DEF PlaceInv, place

LEMMA MoveCursorPlace ==
  ASSUME PlaceInv, NEW delta \in Int, MoveCursor(delta)
  PROVE  PlaceInv'
<1>1. CASE pane = "Tree"
  <2>1. Cursor + delta \in Int
    <3>1. Cursor \in DOMAIN Tree /\ Tree \in Seq(Visible(expanded)) BY CursorInTree, TreeRows
    <3> QED BY <3>1
  <2> QED BY <1>1, <2>1, MoveToPlace DEF MoveCursor
<1>2. CASE pane # "Tree" BY <1>2, PlaceKept DEF MoveCursor
<1> QED BY <1>1, <1>2

LEMMA NavigatePlace ==
  ASSUME PlaceInv, NEW a, Navigate(a)
  PROVE  PlaceInv'
<1>1. CASE MoveCursor(1) \/ MoveCursor(-1) BY <1>1, MoveCursorPlace
<1>2. CASE MoveLeft
  <2>1. CASE pane = "Tree" /\ node \in expanded
    <3>1. node \in Folders /\ expanded \ {node} \in SUBSET Folders BY <2>1 DEF PlaceInv
    <3> QED BY <1>2, <2>1, <3>1, FoldPlace DEF MoveLeft
  <2>2. CASE ~(pane = "Tree" /\ node \in expanded)
    BY <1>2, <2>2, FocusPlace DEF MoveLeft
  <2> QED BY <2>1, <2>2
<1>3. CASE MoveRight
  <2>1. CASE pane = "Tree" /\ node \in Folders \ expanded
    <3>1. node \in Folders /\ expanded \cup {node} \in SUBSET Folders BY <2>1 DEF PlaceInv
    <3> QED BY <1>3, <2>1, <3>1, FoldPlace DEF MoveRight
  <2>2. CASE ~(pane = "Tree" /\ node \in Folders \ expanded)
    BY <1>3, <2>2, FocusPlace DEF MoveRight
  <2> QED BY <2>1, <2>2
<1>4. ASSUME NEW root \in Folders, GoToRoot(root) PROVE PlaceInv'
  <2>1. /\ pane' = "Tree" /\ node' = root /\ expanded' = expanded \cup {root}
        /\ UNCHANGED <<immersive, page, visual, module>>
    BY <1>4 DEF GoToRoot
  <2> QED BY <2>1 DEF PlaceInv, Visible
<1>5. CASE /\ IF pane = "Tree"
              THEN \/ MoveTo(1) \/ MoveTo(Len(Tree))
                   \/ \E n \in DOMAIN Tree : MoveTo(Cursor + n) \/ MoveTo(Cursor - n)
              ELSE UNCHANGED <<node, module, page>>
           /\ UNCHANGED <<immersive, pane, visual, expanded>>
  <2>1. CASE pane = "Tree"
    <3>1. Tree \in Seq(Visible(expanded)) BY TreeRows
    <3>2. Len(Tree) \in Int /\ \A n \in DOMAIN Tree : Cursor + n \in Int /\ Cursor - n \in Int
      BY <3>1, CursorInTree
    <3> QED BY <1>5, <2>1, <3>2, MoveToPlace
  <2>2. CASE pane # "Tree" BY <1>5, <2>2, PlaceKept DEF place
  <2> QED BY <2>1, <2>2
<1> QED BY <1>1, <1>2, <1>3, <1>4, <1>5 DEF Navigate, Folders

LEMMA PresentPlace ==
  ASSUME PlaceInv, NEW a, Present(a)
  PROVE  PlaceInv'
<1>1. immersive' \in BOOLEAN /\ visual' \in BOOLEAN BY DEF Present, PlaceInv
<1>2. pane' \in {"Tree", "TrackList"} BY DEF Present, PlaceInv
<1>3. UNCHANGED <<page, node, expanded, module>> BY DEF Present
<1> QED BY <1>1, <1>2, <1>3 DEF PlaceInv

LEMMA ActivatePlace ==
  ASSUME PlaceInv, Activate
  PROVE  PlaceInv'
<1>1. CASE ActivateTable \/ ActivateModule \/ UNCHANGED place
  BY <1>1, PlaceKept DEF ActivateTable, ActivateModule
<1>2. CASE ActivateTreeNode
  <2>1. CASE node \in Folders
    <3> DEFINE folders == IF node \in expanded THEN expanded \ {node} ELSE expanded \cup {node}
    <3>1. folders \in SUBSET Folders BY <2>1 DEF PlaceInv
    <3>2. Fold(folders) BY <1>2, <2>1 DEF ActivateTreeNode
    <3> HIDE DEF folders
    <3> QED BY <2>1, <3>1, <3>2, FoldPlace
  <2>2. CASE node \notin Folders
    <3>1. Show(node) /\ pane' = "TrackList" /\ UNCHANGED <<immersive, visual, node, expanded>>
      BY <1>2, <2>2 DEF ActivateTreeNode
    <3> QED BY <3>1, ShowPlace DEF PlaceInv
  <2> QED BY <2>1, <2>2
<1> QED BY <1>1, <1>2 DEF Activate

LEMMA PerformPlace ==
  ASSUME PlaceInv, NEW a, PerformKeymapAction(a)
  PROVE  PlaceInv'
<1>1. CASE Cancel BY <1>1, PlaceKept, FocusPlace DEF Cancel
<1>2. CASE RequestReset BY <1>2, PlaceKept DEF RequestReset
<1>3. CASE OpensPrompt(a)
  <2>1. pane' \in {"Tree", "TrackList"} /\ UNCHANGED <<immersive, page, visual, node, expanded, module>>
    BY <1>3 DEF OpensPrompt, PlaceInv
  <2> QED BY <2>1 DEF PlaceInv
<1>4. CASE UNCHANGED place BY <1>4, PlaceKept
<1> QED BY <1>1, <1>2, <1>3, <1>4, NavigatePlace, PresentPlace, ActivatePlace
        DEF PerformKeymapAction, Stays

LEMMA FallsThroughPlace ==
  ASSUME PlaceInv, NEW t, FallsThrough(t)
  PROVE  PlaceInv'
BY PlaceKept, FocusPlace DEF FallsThrough, FieldTakes

LEMMA PressPlace ==
  ASSUME PlaceInv, NEW t, Press(t)
  PROVE  PlaceInv'
<1>1. CASE CaptureKey(t) \/ ConfirmReset(t) \/ PromptKey(t)
  BY <1>1, PlaceKept DEF CaptureKey, ConfirmReset, PromptKey
<1>2. CASE FieldKey(t) BY <1>2, FallsThroughPlace DEF FieldKey
<1>3. CASE ModuleKey(t) BY <1>3, MoveCursorPlace DEF ModuleKey
<1>4. CASE ConfirmDelete(t)
  <2>1. node' \in Visible(expanded)
    BY <1>4 DEF ConfirmDelete, PlaceInv, Visible, Collections
  <2> QED BY <1>4, <2>1 DEF ConfirmDelete, PlaceInv
<1>5. CASE MappedKey(t)
  BY <1>5, PerformPlace, FallsThroughPlace, PlaceKept DEF MappedKey, Stays
<1> QED BY <1>1, <1>2, <1>3, <1>4, <1>5 DEF Press

LEMMA NextPlace == PlaceInv /\ [Next]_vars => PlaceInv'
<1> SUFFICES ASSUME PlaceInv, [Next]_vars PROVE PlaceInv' OBVIOUS
<1>1. CASE Configure BY <1>1, PlaceKept DEF Configure
<1>2. CASE \E t \in Keys : Press(t) BY <1>2, PressPlace
<1>3. CASE CommitCapture \/ Frame \/ ClickReset
  BY <1>3, PlaceKept DEF CommitCapture, Frame, ClickReset
<1>4. ASSUME NEW n \in ToSet(Tree), ClickTree(n) PROVE PlaceInv'
  <2>1. n \in Visible(expanded) BY TreeRows
  <2>2. /\ pane' = "Tree" /\ node' = n /\ Show(n)
        /\ UNCHANGED <<immersive, visual, expanded>>
    BY <1>4 DEF ClickTree
  <2> QED BY <2>1, <2>2, ShowPlace DEF PlaceInv
<1>5. CASE ClickList \/ ClickResult BY <1>5, FocusPlace DEF ClickList, ClickResult
<1>6. CASE Relaunch
  BY <1>6 DEF Relaunch, FreshScreen, PlaceInv, Visible, Folders, Collections, Modules
<1>7. CASE UNCHANGED vars BY <1>7, PlaceKept DEF vars
<1> QED BY <1>1, <1>2, <1>3, <1>4, <1>5, <1>6, <1>7 DEF Next, Mouse

-----------------------------------------------------------------------------
(* The binding table: its cursor is on a row, and a key is recorded for    *)
(* one of its rows and only while the table is open.                       *)

RowsInv ==
  /\ rows \in Seq(Configurable)
  /\ selected \in Nat \ {0}
  /\ rows = <<>> \/ selected \in DOMAIN rows
  /\ focus \in {"Rows", "ResetFooter"}
  /\ drawn \in BOOLEAN /\ reset_pending \in BOOLEAN

CaptureInv ==
  /\ capture # NoRow => KeybindingsOpen /\ capture \in Configurable
  /\ capture = NoRow => buffer = <<>>

ControlInv ==
  /\ editing \in BOOLEAN /\ quit \in BOOLEAN
  /\ prompt \in {"none", "search", "playlist", "delete"}

\* While the keymap is loaded the screen is as it starts.
Untouched == loading => selected = 1 /\ capture = NoRow

ScreenInv == PlaceInv /\ RowsInv /\ CaptureInv /\ ControlInv /\ Untouched

\* What an action does to the table.
LEMMA PerformTable ==
  ASSUME NEW a, PerformKeymapAction(a)
  PROVE  \/ UNCHANGED table
         \/ \E delta \in {1, -1} :
              MoveTable(delta) /\ UNCHANGED <<place, rows, drawn, reset_pending, capture, buffer>>
         \/ KeybindingsOpen /\ ActivateTable
         \/ RequestReset
<1>1. ASSUME NEW delta \in {1, -1}, MoveCursor(delta)
      PROVE  \/ UNCHANGED table
             \/ MoveTable(delta) /\ UNCHANGED <<place, rows, drawn, reset_pending, capture, buffer>>
  BY <1>1 DEF MoveCursor, table
<1>2. CASE Navigate(a)
  BY <1>1, <1>2 DEF Navigate, MoveLeft, MoveRight, GoToRoot
<1>3. CASE Present(a) BY <1>3 DEF Present
<1>4. CASE Activate BY <1>4 DEF Activate, ActivateModule, ActivateTreeNode
<1>5. CASE Cancel \/ OpensPrompt(a) \/ Stays BY <1>5 DEF Cancel, OpensPrompt, Stays
<1> QED BY <1>2, <1>3, <1>4, <1>5 DEF PerformKeymapAction

LEMMA RowsKept == RowsInv /\ UNCHANGED table => RowsInv'
BY DEF RowsInv, table

LEMMA CaptureKept == CaptureInv /\ UNCHANGED <<capture, buffer>> /\ UNCHANGED place => CaptureInv'
BY DEF CaptureInv, place, KeybindingsOpen

LEMMA NoCaptureKept == CaptureInv /\ capture = NoRow /\ UNCHANGED <<capture, buffer>> => CaptureInv'
BY DEF CaptureInv

LEMMA MoveTableRows ==
  ASSUME RowsInv, NEW delta \in {1, -1}, MoveTable(delta), UNCHANGED <<rows, drawn, reset_pending>>
  PROVE  RowsInv'
<1>1. /\ rows \in Seq(Configurable) /\ selected \in Nat \ {0}
      /\ selected + delta \in Int
  BY DEF RowsInv
<1>2. /\ Clamp(selected + delta, rows) \in Nat \ {0}
      /\ rows = <<>> \/ Clamp(selected + delta, rows) \in DOMAIN rows
  BY <1>1, ClampInside
<1>3. \/ selected' = selected \/ (rows = <<>> /\ selected' = 1)
      \/ selected' = Clamp(selected + delta, rows)
  BY DEF MoveTable
<1>4. focus' \in {"Rows", "ResetFooter"} BY DEF MoveTable, RowsInv
<1>5. selected' \in Nat \ {0} /\ (rows = <<>> \/ selected' \in DOMAIN rows)
  <2>1. 1 \in Nat \ {0} OBVIOUS
  <2> QED BY <1>1, <1>2, <1>3, <2>1 DEF RowsInv
<1> QED BY <1>4, <1>5 DEF RowsInv

LEMMA PressRows ==
  ASSUME RowsInv, NEW t, Press(t)
  PROVE  RowsInv'
<1>1. CASE CaptureKey(t) BY <1>1 DEF CaptureKey, RowsInv
<1>2. CASE ConfirmReset(t) BY <1>2 DEF ConfirmReset, RowsInv
<1>3. CASE UNCHANGED table BY <1>3, RowsKept
<1>4. ASSUME NEW delta \in {1, -1}, MoveCursor(delta) PROVE RowsInv'
  BY <1>4, RowsKept, MoveTableRows DEF MoveCursor, table
<1>5. ASSUME NEW a, PerformKeymapAction(a) PROVE RowsInv'
  <2>1. CASE ActivateTable \/ RequestReset
    <3>1. reset_pending' \in BOOLEAN /\ UNCHANGED <<rows, selected, focus, drawn>>
      BY <2>1 DEF ActivateTable, RequestReset, RowsInv
    <3> QED BY <3>1 DEF RowsInv
  <2> QED BY <1>3, <1>5, <2>1, PerformTable, MoveTableRows
<1>6. CASE ModuleKey(t)
  <2>1. CASE MoveCursor(1) BY <1>4, <2>1
  <2>2. CASE MoveCursor(-1) BY <1>4, <2>2
  <2> QED BY <1>6, <2>1, <2>2 DEF ModuleKey
<1>7. CASE MappedKey(t)
  BY <1>3, <1>5, <1>7 DEF MappedKey, FallsThrough, Stays
<1>8. CASE FieldKey(t) \/ ConfirmDelete(t) \/ PromptKey(t)
  BY <1>3, <1>8 DEF FieldKey, FallsThrough, ConfirmDelete, PromptKey
<1> QED BY <1>1, <1>2, <1>6, <1>7, <1>8 DEF Press

LEMMA PressCapture ==
  ASSUME RowsInv, CaptureInv, NEW t, Press(t)
  PROVE  CaptureInv'
<1>1. CASE capture # NoRow
  <2>1. CaptureKey(t) BY <1>1 DEF Press
  <2>2. CASE t = "Esc" BY <2>1, <2>2 DEF CaptureKey, CancelCapture, CaptureInv
  <2>3. CASE t # "Esc"
    <3>1. capture' = capture /\ UNCHANGED place BY <2>1, <2>3 DEF CaptureKey
    <3> QED BY <1>1, <3>1 DEF CaptureInv, KeybindingsOpen, place
  <2> QED BY <2>2, <2>3
<1>2. CASE capture = NoRow
  <2>0. ASSUME UNCHANGED <<capture, buffer>> PROVE CaptureInv'
    BY <1>2, <2>0, NoCaptureKept
  <2>1. CASE UNCHANGED table BY <2>0, <2>1 DEF table
  <2>2. ASSUME NEW a, PerformKeymapAction(a) PROVE CaptureInv'
    <3>1. CASE KeybindingsOpen /\ ActivateTable
      <4>1. capture' \in {capture} \cup Configurable /\ (capture' = NoRow => buffer' = <<>>)
        <5>1. \A i \in DOMAIN rows : rows[i] \in Configurable BY DEF RowsInv
        <5> QED BY <1>2, <3>1, <5>1 DEF ActivateTable, CaptureInv
      <4>2. KeybindingsOpen' BY <3>1 DEF ActivateTable, place, KeybindingsOpen
      <4> QED BY <1>2, <4>1, <4>2 DEF CaptureInv
    <3> QED BY <2>0, <2>1, <2>2, <3>1, PerformTable DEF RequestReset
  <2>3. CASE MappedKey(t)
    BY <2>1, <2>2, <2>3 DEF MappedKey, FallsThrough, Stays
  <2>4. CASE ModuleKey(t)
    BY <2>0, <2>1, <2>4 DEF ModuleKey, MoveCursor, table
  <2>5. CASE FieldKey(t) \/ ConfirmDelete(t) \/ PromptKey(t)
    BY <2>1, <2>5 DEF FieldKey, FallsThrough, ConfirmDelete, PromptKey
  <2>6. CASE ConfirmReset(t) BY <2>0, <2>6 DEF ConfirmReset
  <2> QED BY <1>2, <2>3, <2>4, <2>5, <2>6 DEF Press
<1> QED BY <1>1, <1>2

LEMMA ControlKept == ControlInv /\ UNCHANGED <<editing, prompt, quit>> => ControlInv'
BY DEF ControlInv

LEMMA FallsThroughControl ==
  ASSUME ControlInv, NEW t, FallsThrough(t)
  PROVE  ControlInv'
<1>1. quit' \in BOOLEAN /\ prompt' = prompt BY DEF FallsThrough
<1>2. editing' \in BOOLEAN
  BY DEF FallsThrough, FieldTakes, ControlInv
<1> QED BY <1>1, <1>2 DEF ControlInv

LEMMA PerformControl ==
  ASSUME ControlInv, NEW a, PerformKeymapAction(a)
  PROVE  ControlInv'
<1>1. CASE OpensPrompt(a)
  <2>1. prompt' \in {prompt, "search", "playlist", "delete"} /\ UNCHANGED <<editing, quit>>
    BY <1>1 DEF OpensPrompt
  <2> QED BY <2>1 DEF ControlInv
<1>2. CASE a = "quit" /\ quit' = TRUE /\ UNCHANGED <<place, table, editing, prompt>>
  BY <1>2 DEF ControlInv
<1>3. CASE Stays BY <1>3, ControlKept DEF Stays
<1>4. ASSUME Navigate(a) \/ Present(a) \/ Activate \/ Cancel \/ RequestReset,
             UNCHANGED <<prompt, quit>>
      PROVE  ControlInv'
  <2>1. CASE Navigate(a)
    BY <1>4, <2>1, ControlKept DEF Navigate, MoveCursor, MoveLeft, MoveRight, GoToRoot
  <2>2. CASE Present(a) BY <1>4, <2>2, ControlKept DEF Present
  <2>3. CASE Activate
    <3>1. editing' \in {editing, TRUE}
      BY <2>3 DEF Activate, ActivateTable, ActivateModule, ActivateTreeNode
    <3> QED BY <1>4, <3>1 DEF ControlInv
  <2>4. CASE Cancel \/ RequestReset BY <1>4, <2>4, ControlKept DEF Cancel, RequestReset
  <2> QED BY <1>4, <2>1, <2>2, <2>3, <2>4
<1> QED BY <1>1, <1>2, <1>3, <1>4 DEF PerformKeymapAction

LEMMA PressControl ==
  ASSUME ControlInv, NEW t, Press(t)
  PROVE  ControlInv'
<1>1. CASE CaptureKey(t) \/ ConfirmReset(t)
  BY <1>1, ControlKept DEF CaptureKey, ConfirmReset
<1>2. CASE FieldKey(t) BY <1>2, FallsThroughControl DEF FieldKey
<1>3. CASE ModuleKey(t) BY <1>3, ControlKept DEF ModuleKey, MoveCursor
<1>4. CASE ConfirmDelete(t) \/ PromptKey(t)
  <2>1. prompt' \in {"none", prompt} /\ UNCHANGED <<editing, quit>>
    BY <1>4 DEF ConfirmDelete, PromptKey
  <2> QED BY <2>1 DEF ControlInv
<1>5. CASE MappedKey(t)
  BY <1>5, PerformControl, FallsThroughControl, ControlKept DEF MappedKey, Stays
<1> QED BY <1>1, <1>2, <1>3, <1>4, <1>5 DEF Press

LEMMA RebuiltTyped == Rebuilt' \in Seq(Configurable)
<1>1. EditorRows \in Seq(Configurable) BY KeysAssumption
<1> DEFINE shown == {r \in ToSet(EditorRows) : BindingsFor(r[1], r[2])' # <<>>}
<1>2. Rebuilt' = Selected(EditorRows, shown) BY DEF Rebuilt
<1> HIDE DEF shown
<1> QED BY <1>1, <1>2, SelectedOf

LEMMA RebuildRows ==
  ASSUME RowsInv, Rebuild, drawn' \in BOOLEAN, UNCHANGED <<focus, reset_pending>>
  PROVE  RowsInv'
<1>1. rows' \in Seq(Configurable) BY RebuiltTyped DEF Rebuild
<1>2. selected \in Nat \ {0} BY DEF RowsInv
<1>3. /\ Clamp(selected, rows') \in Nat \ {0}
      /\ rows' = <<>> \/ Clamp(selected, rows') \in DOMAIN rows'
  BY <1>1, <1>2, ClampInside
<1>4. selected' \in Nat \ {0} /\ (rows' = <<>> \/ selected' \in DOMAIN rows')
  BY <1>2, <1>3 DEF Rebuild
<1> QED BY <1>1, <1>4 DEF RowsInv

LEMMA PressLoads ==
  ASSUME NEW t, Press(t)
  PROVE  loading' = loading
BY DEF Press, CaptureKey, FieldKey, ModuleKey, ConfirmDelete, ConfirmReset, RestoreDefaults,
       PromptKey, MappedKey, Feed, keymap_vars

LEMMA InitScreen == Init => ScreenInv
<1> SUFFICES ASSUME Init PROVE ScreenInv OBVIOUS
<1> USE DEF Init
<1>1. PlaceInv BY DEF PlaceInv, Visible, Folders, Collections, Modules
<1>2. RowsInv
  <2>1. rows \in Seq(Configurable) BY EmptySeq
  <2>2. drawn \in BOOLEAN /\ reset_pending \in BOOLEAN OBVIOUS
  <2>3. rows = <<>> /\ selected = 1 /\ focus = "Rows" OBVIOUS
  <2> QED BY <2>1, <2>2, <2>3 DEF RowsInv
<1>3. CaptureInv BY DEF CaptureInv
<1>4. ControlInv BY DEF ControlInv
<1>5. Untouched BY DEF Untouched
<1> QED BY <1>1, <1>2, <1>3, <1>4, <1>5 DEF ScreenInv

LEMMA NextScreen == KeymapInv /\ ScreenInv /\ [Next]_vars => ScreenInv'
<1> SUFFICES ASSUME KeymapInv, ScreenInv, [Next]_vars PROVE ScreenInv' OBVIOUS
<1>0. PlaceInv /\ RowsInv /\ CaptureInv /\ ControlInv /\ Untouched BY DEF ScreenInv
<1>1. PlaceInv' BY <1>0, NextPlace
<1>2. CASE Configure
  <2>1. loading BY <1>2 DEF Configure, LoadEntry, LoadEnds, KeymapInv, RowsKnown
  <2>2. selected = 1 /\ capture = NoRow BY <1>0, <2>1 DEF Untouched
  <2>3. rows' \in Seq(Configurable) BY <1>2, RebuiltTyped DEF Configure
  <2>4. UNCHANGED <<place, editing, prompt, quit, selected, focus, drawn, reset_pending,
                    capture, buffer>>
    BY <1>2 DEF Configure
  <2>5. rows' = <<>> \/ 1 \in DOMAIN rows' BY <2>3
  <2>6. RowsInv' BY <1>0, <2>2, <2>3, <2>4, <2>5 DEF RowsInv
  <2>7. CaptureInv' BY <1>0, <2>4, CaptureKept
  <2>8. ControlInv' BY <1>0, <2>4, ControlKept
  <2>9. Untouched' BY <2>2, <2>4 DEF Untouched
  <2> QED BY <1>1, <2>6, <2>7, <2>8, <2>9 DEF ScreenInv
<1>3. ASSUME ~loading, NEW t \in Keys, Press(t) PROVE ScreenInv'
  <2>1. Untouched' BY <1>3, PressLoads DEF Untouched
  <2> QED BY <1>0, <1>1, <1>3, <2>1, PressRows, PressCapture, PressControl DEF ScreenInv
<1>4. CASE ~loading /\ CommitCapture
  <2>1. UNCHANGED <<place, editing, prompt, quit, focus, drawn, reset_pending, loading>>
    BY <1>4 DEF CommitCapture, Bind
  <2>2. RowsInv'
    <3>1. CASE Rebuild BY <1>0, <2>1, <3>1, RebuildRows DEF RowsInv
    <3>2. CASE UNCHANGED <<rows, selected>> BY <1>0, <2>1, <3>2 DEF RowsInv
    <3> QED BY <1>4, <3>1, <3>2 DEF CommitCapture
  <2>3. CaptureInv' BY <1>4 DEF CommitCapture, CancelCapture, CaptureInv
  <2>4. ControlInv' BY <1>0, <2>1, ControlKept
  <2>5. Untouched' BY <1>4, <2>1 DEF Untouched
  <2> QED BY <1>1, <2>2, <2>3, <2>4, <2>5 DEF ScreenInv
<1>5. CASE ~loading /\ Frame
  <2>1. UNCHANGED <<place, editing, prompt, quit, focus, reset_pending, capture, buffer, loading>>
        /\ drawn' \in BOOLEAN /\ Rebuild
    BY <1>5 DEF Frame, keymap_vars
  <2>2. RowsInv' BY <1>0, <2>1, RebuildRows
  <2>3. CaptureInv' BY <1>0, <2>1, CaptureKept
  <2>4. ControlInv' BY <1>0, <2>1, ControlKept
  <2>5. Untouched' BY <1>5, <2>1 DEF Untouched
  <2> QED BY <1>1, <2>2, <2>3, <2>4, <2>5 DEF ScreenInv
<1>6. CASE ~loading /\ ClickReset
  <2>1. UNCHANGED <<place, editing, prompt, quit, rows, selected, drawn, capture, buffer, loading>>
        /\ focus' = "ResetFooter" /\ reset_pending' = TRUE
    BY <1>6 DEF ClickReset, keymap_vars
  <2>2. RowsInv' BY <1>0, <2>1 DEF RowsInv
  <2>3. CaptureInv' BY <1>0, <2>1, CaptureKept
  <2>4. ControlInv' BY <1>0, <2>1, ControlKept
  <2>5. Untouched' BY <1>6, <2>1 DEF Untouched
  <2> QED BY <1>1, <2>2, <2>3, <2>4, <2>5 DEF ScreenInv
<1>7. CASE ~loading /\ capture = NoRow /\ ((\E n \in ToSet(Tree) : ClickTree(n)) \/ ClickList)
  <2>1. UNCHANGED <<keymap_vars, table, editing, prompt, quit>>
    BY <1>7 DEF ClickTree, ClickList
  <2>2. RowsInv' BY <1>0, <2>1, RowsKept
  <2>3. CaptureInv' BY <1>0, <1>7, <2>1, NoCaptureKept DEF table
  <2>4. ControlInv' BY <1>0, <2>1, ControlKept
  <2>5. Untouched' BY <1>7, <2>1 DEF Untouched, keymap_vars
  <2> QED BY <1>1, <2>2, <2>3, <2>4, <2>5 DEF ScreenInv
<1>8. CASE ~loading /\ ClickResult
  <2>1. UNCHANGED <<keymap_vars, table, editing, quit>> /\ prompt' = "none" /\ page = "Library"
    BY <1>8 DEF ClickResult
  <2>2. capture = NoRow BY <1>0, <2>1 DEF CaptureInv, KeybindingsOpen
  <2>3. RowsInv' BY <1>0, <2>1, RowsKept
  <2>4. CaptureInv' BY <1>0, <2>1, <2>2, NoCaptureKept DEF table
  <2>5. ControlInv' BY <1>0, <2>1 DEF ControlInv
  <2>6. Untouched' BY <1>8, <2>1 DEF Untouched, keymap_vars
  <2> QED BY <1>1, <2>3, <2>4, <2>5, <2>6 DEF ScreenInv
<1>9. CASE Relaunch
  <2>1. FreshScreen /\ rows' = <<>> BY <1>9 DEF Relaunch
  <2>2. RowsInv'
    <3>1. rows' \in Seq(Configurable) BY <2>1, EmptySeq
    <3>2. drawn' \in BOOLEAN /\ reset_pending' \in BOOLEAN BY <2>1 DEF FreshScreen
    <3>3. rows' = <<>> /\ selected' = 1 /\ focus' = "Rows" BY <2>1 DEF FreshScreen
    <3> QED BY <3>1, <3>2, <3>3 DEF RowsInv
  <2>3. CaptureInv' BY <2>1 DEF FreshScreen, CaptureInv
  <2>4. ControlInv' BY <2>1 DEF FreshScreen, ControlInv
  <2>5. Untouched' BY <2>1 DEF FreshScreen, Untouched
  <2> QED BY <1>1, <2>2, <2>3, <2>4, <2>5 DEF ScreenInv
<1>10. CASE UNCHANGED vars
  <2>1. UNCHANGED <<place, table, editing, prompt, quit, loading>>
    BY <1>10 DEF vars, keymap_vars
  <2>2. RowsInv' BY <1>0, <2>1, RowsKept
  <2>3. CaptureInv' BY <1>0, <2>1, CaptureKept DEF table
  <2>4. ControlInv' BY <1>0, <2>1, ControlKept
  <2>5. Untouched' BY <1>0, <2>1 DEF Untouched, table
  <2> QED BY <1>1, <2>2, <2>3, <2>4, <2>5 DEF ScreenInv
<1> QED BY <1>2, <1>3, <1>4, <1>5, <1>6, <1>7, <1>8, <1>9, <1>10 DEF Next, Mouse

-----------------------------------------------------------------------------
(* The way of the reserved key.                                            *)

\* No context begins a binding with the reserved key, and only Global has it.
LEMMA ReservedOffered ==
  ASSUME KeymapInv, NEW c \in Context, NEW s, Reserved \in ToSet(s),
         s \in DOMAIN bindings[c] \cup prefixes[c]
  PROVE  c = Global /\ s = <<Reserved>>
<1>1. prefixes[c] = PrefixesOf(bindings[c]) /\ Apart(bindings[c])
  BY DEF KeymapInv, TablesApart
<1>2. s \notin prefixes[c]
  <2> SUFFICES ASSUME s \in prefixes[c] PROVE FALSE OBVIOUS
  <2>1. PICK r \in DOMAIN bindings[c] : \E n \in 1 .. Len(r) - 1 : s = SubSeq(r, 1, n)
    BY <1>1 DEF PrefixesOf
  <2>2. PICK n \in 1 .. Len(r) - 1 : s = SubSeq(r, 1, n) BY <2>1
  <2>3. r \in Seq(Token) /\ Len(r) \in Nat BY <1>1 DEF Apart, KeySequence
  <2>4. DOMAIN s = 1 .. n /\ \A i \in 1 .. n : s[i] = r[i]
    BY <2>2, <2>3, SubSeqProperties
  <2>5. Reserved \in ToSet(r)
    <3>1. PICK i \in DOMAIN s : s[i] = Reserved BY DEF ToSet
    <3>2. i \in DOMAIN r /\ r[i] = Reserved BY <2>3, <2>4, <3>1
    <3> QED BY <3>2 DEF ToSet
  <2>6. r = <<Reserved>> BY <2>5 DEF KeymapInv, QuitIsFixed, QuitIsReserved
  <2>7. Len(r) = 1 BY <2>6
  <2> QED BY <2>7
<1> QED BY <1>2 DEF KeymapInv, QuitIsFixed, QuitIsReserved

LEMMA ReservedResolves ==
  ASSUME KeymapInv, PendingInv
  PROVE  Resolution(CurrentKeyContexts, Reserved) = Matched("quit")
<1> DEFINE chain == CurrentKeyContexts
           q == <<Reserved>>
           typed == IF pending.at = Head(chain) THEN pending.seq ELSE <<>>
<1>1. chain \in Seq(Context) /\ \E i \in DOMAIN chain : chain[i] = Global
  BY ContextsAreAChain
<1>2. ASSUME NEW s, Reserved \in ToSet(s), Offering(chain, s) # {} PROVE s = q
  <2>1. PICK i \in DOMAIN chain : s \in DOMAIN bindings[chain[i]] \cup prefixes[chain[i]]
    BY <1>2 DEF Offering
  <2>2. chain[i] \in Context BY <1>1
  <2> QED BY <1>2, <2>1, <2>2, ReservedOffered
<1>3. Reserved \in ToSet(q) BY DEF ToSet
<1>4. Continued(chain, Reserved) = q
  <2>1. Reserved \in ToSet(Append(typed, Reserved))
    <3>1. typed \in Seq(Token) BY DEF PendingInv
    <3> HIDE DEF typed
    <3>2. /\ Len(typed) + 1 \in DOMAIN Append(typed, Reserved)
          /\ Append(typed, Reserved)[Len(typed) + 1] = Reserved
      BY <3>1
    <3> QED BY <3>2 DEF ToSet
  <2>2. Offering(chain, Append(typed, Reserved)) # {} => Append(typed, Reserved) = q
    BY <1>2, <2>1
  <2> QED BY <2>2 DEF Continued
<1>5. q \in DOMAIN bindings[Global] /\ bindings[Global][q] = "quit"
  BY DEF KeymapInv, QuitIsFixed, QuitIsReserved
<1>6. Offering(chain, q) # {} BY <1>1, <1>5 DEF Offering
<1>7. Nearest(chain, q) = Global
  <2> HIDE DEF q, chain
  <2>1. PICK i \in Offering(chain, q) : Nearest(chain, q) = chain[i]
    BY <1>1, <1>6, NearestOffers
  <2>2. i \in DOMAIN chain /\ q \in DOMAIN bindings[chain[i]] \cup prefixes[chain[i]]
    BY <2>1 DEF Offering
  <2>3. chain[i] \in Context BY <1>1, <2>2
  <2> QED BY <1>3, <2>1, <2>2, <2>3, ReservedOffered
<1> HIDE DEF q, chain
<1> QED BY <1>4, <1>5, <1>6, <1>7 DEF Resolution, chain

LEMMA ReservedIsNotAMove ==
  ASSUME KeymapInv
  PROVE  ~KeyOf(Reserved, {"move_down", "move_up"})
<1> SUFFICES ASSUME KeyOf(Reserved, {"move_down", "move_up"}) PROVE FALSE OBVIOUS
<1>1. PICK i \in DOMAIN CurrentKeyContexts :
        /\ <<Reserved>> \in DOMAIN bindings[CurrentKeyContexts[i]]
        /\ bindings[CurrentKeyContexts[i]][<<Reserved>>] \in {"move_down", "move_up"}
  BY DEF KeyOf
<1>2. CurrentKeyContexts[i] \in Context BY ContextsAreAChain
<1>3. Reserved \in ToSet(<<Reserved>>) BY DEF ToSet
<1>4. CurrentKeyContexts[i] = Global BY <1>1, <1>2, <1>3, ReservedOffered
<1> QED BY <1>1, <1>4 DEF KeymapInv, QuitIsFixed

LEMMA QuitPerforms ==
  ASSUME PerformKeymapAction("quit")
  PROVE  quit'
<1>1. ~Navigate("quit") BY DEF Navigate
<1>2. ~Present("quit") BY DEF Present
<1>3. ~OpensPrompt("quit") BY DEF OpensPrompt
<1>4. "quit" \notin Elsewhere BY DEF Elsewhere
<1> QED BY <1>1, <1>2, <1>3, <1>4 DEF PerformKeymapAction

LEMMA ReservedQuits ==
  ASSUME KeymapInv, PendingInv, capture = NoRow, prompt = "none", ~reset_pending,
         Press(Reserved)
  PROVE  quit'
<1>1. CASE FieldKey(Reserved)
  <2>1. IsQuitKey(Reserved) /\ prompt \notin {"search", "playlist"} BY DEF IsQuitKey
  <2> QED BY <1>1, <2>1 DEF FieldKey, FallsThrough
<1>2. CASE MappedKey(Reserved)
  <2>1. Resolution(CurrentKeyContexts, Reserved) = Matched("quit") BY ReservedResolves
  <2>2. Matched("quit") # Unmapped /\ Matched("quit") # Begun /\ Matched("quit").action = "quit"
    BY DEF Matched, Unmapped, Begun
  <2>3. ~MayBeUnhandled("quit") BY DEF MayBeUnhandled, Unhandled, Handled
  <2>4. PerformKeymapAction("quit") BY <1>2, <2>1, <2>2, <2>3 DEF MappedKey
  <2> QED BY <2>4, QuitPerforms
<1> QED BY <1>1, <1>2, ReservedIsNotAMove DEF Press

-----------------------------------------------------------------------------
(* While a key is recorded.                                                *)

LEMMA RecordingStep ==
  ASSUME KeymapInv, ScreenInv, Next, capture # NoRow, ~loading'
  PROVE  /\ UNCHANGED <<place, editing, prompt, quit>>
         /\ rows' = rows => selected' = selected
         /\ focus' \in {focus, "ResetFooter"}
         /\ \A r \in (DOMAIN config \cup DOMAIN config') \ {capture} :
              /\ r \in DOMAIN config \cap DOMAIN config'
              /\ config'[r] = config[r]
<1>0. PlaceInv /\ RowsInv /\ CaptureInv /\ ControlInv /\ Untouched BY DEF ScreenInv
<1>1. ~loading BY <1>0 DEF Untouched
<1>2. page = "Settings" BY <1>0 DEF CaptureInv, KeybindingsOpen
<1> DEFINE Private ==
             /\ UNCHANGED <<place, editing, prompt, quit>>
             /\ rows' = rows => selected' = selected
             /\ focus' \in {focus, "ResetFooter"}
             /\ \A r \in (DOMAIN config \cup DOMAIN config') \ {capture} :
                  /\ r \in DOMAIN config \cap DOMAIN config'
                  /\ config'[r] = config[r]
<1>3. ASSUME Rebuild PROVE rows' = rows => selected' = selected
  <2>1. rows \in Seq(Configurable) /\ selected \in Nat \ {0}
        /\ (rows = <<>> \/ selected \in DOMAIN rows)
    BY <1>0 DEF RowsInv
  <2>2. selected \in DOMAIN rows => Clamp(selected, rows) = selected BY <2>1, ClampInside
  <2> QED BY <1>3, <2>1, <2>2 DEF Rebuild
<1>4. CASE Configure
  BY <1>1, <1>4 DEF Configure, LoadEntry, LoadEnds, KeymapInv, RowsKnown
<1>5. ASSUME NEW t \in Keys, Press(t) PROVE Private
  <2>1. CaptureKey(t) BY <1>5 DEF Press
  <2> QED BY <2>1 DEF CaptureKey, keymap_vars
<1>6. CASE CommitCapture
  <2>1. UNCHANGED <<place, editing, prompt, quit, focus>> BY <1>6 DEF CommitCapture
  <2>2. rows' = rows => selected' = selected BY <1>3, <1>6 DEF CommitCapture
  <2>3. capture = <<capture[1], capture[2]>>
    BY <1>0, KeymapAssumption DEF CaptureInv, Row
  <2>4. config' = config \/ config' = With(config, <<capture[1], capture[2]>>, <<buffer>>)
    BY <1>6 DEF CommitCapture, Bind
  <2>5. CASE config' = config BY <2>1, <2>2, <2>5
  <2>6. CASE config' = With(config, <<capture[1], capture[2]>>, <<buffer>>)
    <3>1. DOMAIN config' = DOMAIN config \cup {capture}
          /\ \A r \in DOMAIN config' : r # capture => config'[r] = config[r]
      BY <2>3, <2>6 DEF With
    <3> QED BY <2>1, <2>2, <3>1
  <2> QED BY <2>4, <2>5, <2>6
<1>7. CASE Frame
  <2>1. UNCHANGED <<place, editing, prompt, quit, focus, config>> /\ Rebuild
    BY <1>7 DEF Frame, keymap_vars
  <2> QED BY <1>3, <2>1
<1>8. CASE Mouse
  <2>1. ~ClickResult BY <1>2 DEF ClickResult
  <2>2. ClickReset BY <1>8, <2>1 DEF Mouse
  <2> QED BY <2>2 DEF ClickReset, keymap_vars
<1>9. CASE Relaunch BY <1>9 DEF Relaunch, Launch
<1> QED BY <1>4, <1>5, <1>6, <1>7, <1>8, <1>9 DEF Next

-----------------------------------------------------------------------------
(* The invariant of the keyboard.                                          *)

KeysInv == KeymapInv /\ KeymapTyped /\ PendingInv /\ ScreenInv

LEMMA InitKeysInv == Init => KeysInv
<1> SUFFICES ASSUME Init PROVE KeysInv OBVIOUS
<1>1. PendingInv
  BY KeymapAssumption DEF Init, KeymapInit, PendingInv, PendingContinues, NoPending
<1> QED BY <1>1, InitKeymapInv, InitKeymapTyped, InitScreen DEF KeysInv

LEMMA NextKeysInv == KeysInv /\ [Next]_vars => KeysInv'
BY NextKeymapInv, NextKeymapTyped, NextPending, NextScreen DEF KeysInv

LEMMA KeysInvTyped == KeysInv => TypeOK
<1> SUFFICES ASSUME KeysInv PROVE TypeOK OBVIOUS
<1> USE DEF KeysInv
<1>1. KeymapTypeOK
  <2>1. DOMAIN bindings = Context /\ DOMAIN order = Context
    BY DEF KeymapInv, TablesApart, KeymapTyped
  <2>2. ASSUME NEW c \in Context
        PROVE  /\ DOMAIN bindings[c] = ToSet(order[c])
               /\ \A s \in DOMAIN bindings[c] : bindings[c][s] \in Action
    BY DEF KeymapTyped, Range, ToSet
  <2>3. custom \subseteq Row BY KeymapAssumption DEF KeymapInv, RowsKnown
  <2>4. pending.seq \in Seq(Token) /\ pending.at \in Context BY DEF PendingInv
  <2>5. loading \in BOOLEAN /\ unread \subseteq DOMAIN config
    BY DEF KeymapTyped, KeymapInv, RowsKnown
  <2> QED BY <2>1, <2>2, <2>3, <2>4, <2>5 DEF KeymapTypeOK
<1>2. node \in ToSet(Tree) BY TreeRows DEF ScreenInv, PlaceInv
<1>3. rows = NoRow \/ selected \in DOMAIN rows BY DEF ScreenInv, RowsInv, NoRow
<1> QED BY <1>1, <1>2, <1>3
        DEF TypeOK, ScreenInv, PlaceInv, RowsInv, CaptureInv, ControlInv

-----------------------------------------------------------------------------
(* The theorems.                                                           *)

LEMMA KeymapInvariant == Spec => []KeymapInv
BY InitKeymapInv, NextKeymapInv, PTL DEF Spec

\* For every shipped keymap that is unambiguous, and every configuration file:
\* in no context does a bound sequence begin another one, so no key both fires
\* and waits (keymap.cpp: applyOverride(), rebuildPrefixes(), feed()).
THEOREM TablesStaySound == Spec => []TablesSound
BY KeymapInvariant, KeymapInvSound, PTL

\* No configuration, however it came about, takes the reserved key from Quit or
\* puts it into another binding (keymap.cpp: validateOverride()).
THEOREM QuitStaysReserved == Spec => []QuitIsReserved
<1>1. KeymapInv => QuitIsReserved BY DEF KeymapInv, QuitIsFixed
<1> QED BY <1>1, KeymapInvariant, PTL

\* An overridden row has the keys of the configuration in memory and any other
\* row those it was shipped with, after any loads, captures, resets and failed
\* saves (app.cpp: configureKeymap(); keybindings.cpp: commitCapture()).
THEOREM RowsStayConfigured == Spec => []RowsAreConfigured
<1>1. KeymapInv => RowsAreConfigured BY DEF KeymapInv
<1> QED BY <1>1, KeymapInvariant, PTL

LEMMA KeysInvariant == Spec => []KeysInv
BY InitKeysInv, NextKeysInv, PTL DEF Spec

\* Every variable keeps to its type: among them, the cursor of the tree is on a
\* visible row, the cursor of the table on one of its rows, though rows vanish and
\* return, and a key is recorded only for a row that may be rebound and while the
\* table is open (workspace_tree.hpp; keybindings.cpp: rebuild(), moveCursor(),
\* activate(); app.cpp).
THEOREM KeysTyped == Spec => []TypeOK
BY KeysInvariant, KeysInvTyped, PTL

\* A sequence that is being typed can be continued under the front context it was
\* begun in, for every keymap and whatever is rebound or reset while it waits
\* (keymap.cpp: feed(), applyOverride(), loadDefaults()).
THEOREM PendingStaysAlive == Spec => []PendingContinues
<1>1. KeysInv => PendingContinues BY DEF KeysInv, PendingInv
<1> QED BY <1>1, KeysInvariant, PTL

\* The reserved key quits wherever it is not text, not a key to record and not
\* the answer to a confirmation, for every keymap, configuration and sequence that
\* was begun (app.cpp: isQuitKey(), handleGlobalKey(), handleEvent()): the step
\* that QuitKeyWorks is about, for all values of the constants.
THEOREM QuitKeyQuits ==
  Spec => [][capture = NoRow /\ prompt = "none" /\ ~reset_pending /\ Press(Reserved)
             => quit']_vars
<1>1. KeysInv /\ [Next]_vars =>
        [capture = NoRow /\ prompt = "none" /\ ~reset_pending /\ Press(Reserved)
           => quit']_vars
  BY ReservedQuits DEF KeysInv
<1> QED BY <1>1, KeysInvariant, PTL DEF Spec

\* While a key is recorded nothing behind the table moves and no other row of the
\* configuration changes, and the cursor of the table moves only with its rows
\* (app.cpp: handleCaptureKey(), handleGlobalKey(); keybindings.cpp:
\* commitCapture(), rebuild()).
THEOREM RecordingStaysPrivate == Spec => RecordingIsPrivate
<1>1. KeysInv /\ [Next]_vars =>
        [capture # NoRow /\ ~loading'
           => /\ UNCHANGED <<place, editing, prompt, quit>>
              /\ rows' = rows => selected' = selected
              /\ focus' \in {focus, "ResetFooter"}
              /\ \A r \in (DOMAIN config \cup DOMAIN config') \ {capture} :
                   /\ r \in DOMAIN config \cap DOMAIN config'
                   /\ config'[r] = config[r]]_vars
  BY RecordingStep DEF KeysInv
<1> QED BY <1>1, KeysInvariant, PTL DEF Spec, RecordingIsPrivate
=============================================================================
