------------------------------ MODULE Routing ------------------------------
(***************************************************************************)
(* What a destination is: the labels an administrator configures, the text *)
(* a sorter writes, the slug a Collector makes of it, and the one key that *)
(* all of them are counted under.                                          *)
(*                                                                         *)
(* A text is the sequence of its pieces, whatever their case: letters that *)
(* are never apart in the texts of a run, and each separator between them. *)
(* "north-east" and "northeast" are <<"north", "-", "east">> and           *)
(* <<"north", "east">>, so one text is in another when its characters are. *)
(* A key, or a slug, is a text as well, with pieces joined by underscores; *)
(* KeySize stands for the 32 characters it may have.                       *)
(***************************************************************************)
EXTENDS Integers, Sequences, FiniteSets, FiniteSetsExt

CONSTANTS
  Marks,          \* the pieces no slug can hold: blanks, dashes, strange letters
  Digits,         \* the pieces that begin with a digit
  HomeAliases,    \* what sorters call their own shelves, whatever the site
  BuiltIns,       \* the destinations every Collector knows, in order
  KeySize,        \* how many pieces a key has room for
  MaxDestinations \* the most destinations a library may have

Blank   == <<>>
Home    == <<"main">>
Unknown == <<"unknown">>
Space   == " "
Joint   == "_"

-----------------------------------------------------------------------------
(* Texts, keys and the rules that turn one into the other.                 *)
Strip(text, outside) ==
  LET kept == {i \in DOMAIN text : text[i] \notin outside}
  IN IF kept = {} THEN Blank ELSE SubSeq(text, Min(kept), Max(kept))
Trim(text) == Strip(text, {Space})

(* Everything a slug cannot hold becomes one underscore, and none outside. *)
Slugged(text) ==
  LET s  == Strip(text, Marks)
      at == SelectSeq([i \in DOMAIN s |-> i], LAMBDA i : s[i] \notin Marks \/ s[i - 1] \notin Marks)
  IN [n \in DOMAIN at |-> IF s[at[n]] \in Marks THEN Joint ELSE s[at[n]]]
Cut(text) == IF Len(text) > KeySize THEN SubSeq(text, 1, KeySize) ELSE text

(* _slugify; nothing at all if the text has nothing a slug can hold. *)
Slug(text) ==
  LET s == Cut(Slugged(text))
  IN IF s # Blank /\ Head(s) \in Digits THEN Cut(<<"d", Joint>> \o s) ELSE s

ASSUME RoutingAssumption ==
  /\ {Space, Joint} \subseteq Marks /\ Marks \cap Digits = {} /\ "d" \notin Marks \cup Digits
  /\ KeySize \in Nat \ {0, 1} /\ MaxDestinations \in Nat
  /\ \A i \in DOMAIN BuiltIns : Trim(BuiltIns[i]) = BuiltIns[i] /\ Slug(BuiltIns[i]) # Blank

(* Whether a text has the characters of another in it. *)
Within(part, text) ==
  \E i \in 0..(Len(text) - Len(part)) : SubSeq(text, i + 1, i + Len(part)) = part

(* The slug of the first rule whose text is in the given one. *)
Match(rules, text) ==
  LET hits == {i \in DOMAIN rules : Within(rules[i].contains, text)}
  IN IF hits = {} THEN Unknown ELSE rules[Min(hits)].slug

BuiltInRules == [i \in DOMAIN BuiltIns |-> [contains |-> BuiltIns[i], slug |-> Slug(BuiltIns[i])]]

MapTransitLabel(text) ==
  LET trimmed == Trim(text) IN IF trimmed \in HomeAliases THEN Home ELSE Match(BuiltInRules, trimmed)

(* The text's own slug, less an underscore left where it was cut. *)
OwnKey(text) == LET slug == Slug(text) IN IF slug = Blank THEN Unknown ELSE Strip(slug, {Joint})

(* Mutant: the server's keys know nothing of the Collector's own names. *)
DestinationKey_Plain(text) == OwnKey(text)

DestinationKey(text) ==
  LET builtIn == MapTransitLabel(text) IN IF builtIn # Unknown THEN builtIn ELSE OwnKey(text)

-----------------------------------------------------------------------------
(* A `transit` block: the home label and the destinations in order, each   *)
(* with a label, a key and whether it is on.  Either field may be missing. *)
HomeLabel(block)    == IF "home" \in DOMAIN block THEN Trim(block.home) ELSE Blank
Destinations(block) == IF "dests" \in DOMAIN block THEN block.dests ELSE <<>>

HomeKeys(label) == {Home, DestinationKey(label)} \ {Unknown}

Labelled(e) == Trim(e.label) # Blank

(* Mutant: a repeated label is refused and a repeated key is not. *)
Valid_ByLabel(block) ==
  LET d == block.dests IN
  /\ Len(d) <= MaxDestinations
  /\ \A i \in DOMAIN d : Labelled(d[i]) /\ DestinationKey(d[i].label) \notin HomeKeys(block.home)
  /\ \A i, j \in DOMAIN d : i # j => Trim(d[i].label) # Trim(d[j].label)

(* validate_routing_settings: what a replacement must be.  A label whose   *)
(* key is Unknown passes.                                                  *)
Valid(block) ==
  LET d == block.dests IN
  /\ Len(d) <= MaxDestinations
  /\ \A i \in DOMAIN d : Labelled(d[i]) /\ DestinationKey(d[i].label) \notin HomeKeys(block.home)
  /\ \A i, j \in DOMAIN d : i # j => DestinationKey(d[i].label) # DestinationKey(d[j].label)

(* Mutant: a destination's stored key is its place in the list. *)
Serialized_Numbered(block) ==
  [home |-> Trim(block.home),
   dests |-> [i \in DOMAIN block.dests |->
     [label |-> Trim(block.dests[i].label), on |-> block.dests[i].on, key |-> <<"dest", Joint, "n">>]]]

(* serialize_routing_settings: the block as it is stored. *)
Serialized(block) ==
  [home |-> Trim(block.home),
   dests |-> [i \in DOMAIN block.dests |->
     [label |-> Trim(block.dests[i].label), on |-> block.dests[i].on, key |-> DestinationKey(block.dests[i].label)]]]

(* parse_stored_routing_settings: a blank row is left out, nothing else. *)
Parsed(block) ==
  LET d == SelectSeq(Destinations(block), Labelled)
  IN [home |-> HomeLabel(block), dests |-> [i \in DOMAIN d |-> [label |-> Trim(d[i].label), on |-> d[i].on]]]

-----------------------------------------------------------------------------
(* build_routing_config: a destination counts if it is on and has a key of *)
(* its own, which no earlier one has and which does not mean home.         *)
Config(block, site) ==
  LET label == IF HomeLabel(block) = Blank THEN site ELSE HomeLabel(block)
      d     == Destinations(block)
      on    == {i \in DOMAIN d : d[i].on /\ Labelled(d[i])}
      key   == [i \in on |-> DestinationKey(d[i].label)]
  IN [home    |-> HomeKeys(label),
      transit |-> {key[i] : i \in {j \in on : key[j] \notin HomeKeys(label) \cup {Unknown}}}]

(* What a check-in under a key counts as: Home, a destination, or Unknown, *)
(* which is "other".                                                       *)
Class(config, key) ==
  CASE key \in config.home    -> Home
    [] key \in config.transit -> key
    [] OTHER                  -> Unknown

-----------------------------------------------------------------------------
(* build_classification_rules: a Collector's rules for destinations that   *)
(* are on, of those whose key or label can be made into a slug.            *)
RuleOf(e) == [contains |-> Trim(e.label), slug |-> Slug(IF e.key = Blank THEN Trim(e.label) ELSE e.key)]
Rules(block) ==
  LET d == SelectSeq(Destinations(block), LAMBDA e : e.on /\ Labelled(e) /\ RuleOf(e).slug # Blank)
  IN [i \in DOMAIN d |-> RuleOf(d[i])]

(* normalize_destination: what a Collector makes of a sorter's text. *)
NormalizeDestination(text, rules) ==
  CASE Trim(text) = Blank              -> Unknown
    [] MapTransitLabel(text) # Unknown -> MapTransitLabel(text)
    [] OTHER                           -> Match(rules, Trim(text))

(* An item sent to a text, in each era: the text is stored as it is, or as *)
(* the slug the Collector made of it.                                      *)
CountedLegacy(config, text)         == Class(config, DestinationKey(text))
CountedCurrent(config, rules, text) == Class(config, DestinationKey(NormalizeDestination(text, rules)))
=============================================================================
