------------------------------ MODULE ActionCatalog ------------------------------
(***************************************************************************)
(* The catalog of playbook actions and the how-to cards linked to it.      *)
(* Every built playbook has its steps observed: a step whose words are     *)
(* close enough to a catalog row is counted there, any other becomes a row *)
(* of its own.  The super admin writes cards and links them to rows.       *)
(* Neither side opens a transaction: each statement commits by itself, and *)
(* handlers run at once.                                                   *)
(*                                                                         *)
(* A title is a set of words.  Fold is what phraseFold, tokenFold and the  *)
(* filters of keepActionToken make of a word.  A card is its links: its    *)
(* text, match words and published flag are left out.                      *)
(***************************************************************************)
EXTENDS Naturals, Sequences, FiniteSets

CONSTANTS
  Titles,       \* titles of playbook steps, trimmed and clipped
  TitleWords,   \* the words of each title
  Fold,         \* the token of each word, or Dropped
  Dropped,      \* stop words, numbers, codes and hex
  ActionKinds,  \* kinds of playbook steps
  Playbooks,    \* the step sequences of built playbooks
  Observers,    \* playbook handlers observing steps
  Writers,      \* admin handlers writing cards
  MaxVariants,  \* titles kept beside a row's own (16 in the code)
  MaxGuides,    \* bound: cards created
  MaxBegun      \* bound: requests begun in one behaviour

Words == DOMAIN Fold

(* The skill tokens: a token that names a shop skill brings its mark.      *)
SkillOf ==
  [ohm |-> "skill:ohm", volt |-> "skill:volt", continuity |-> "skill:continuity",
   dlc |-> "skill:dlc", backprobe |-> "skill:backprobe",
   cleardtc |-> "skill:cleardtc", wiggle |-> "skill:wiggle"]
Skills == {SkillOf[s] : s \in DOMAIN SkillOf}
Tokens == ({Fold[w] : w \in Words} \ {Dropped}) \cup {"cleardtc"} \cup Skills \cup ActionKinds
ShopSkills == {"skill:cleardtc", "skill:backprobe", "skill:continuity", "skill:wiggle"}

ASSUME TitlesAssumption ==
  /\ TitleWords \in [Titles -> SUBSET Words]
  /\ \A title \in Titles : IsFiniteSet(TitleWords[title])
ASSUME CatalogBounds == MaxVariants \in Nat /\ MaxGuides \in Nat /\ MaxBegun \in Nat

VARIABLES
  actions,   \* playbook_actions in the order of their INSERTs
  guides,    \* howto_guides in the order of their INSERTs
  links,     \* howto_guide_actions
  observer,  \* what each playbook handler is doing
  writer,    \* what each admin handler is doing
  begun      \* time: ticks when a request begins

catalogVars == <<actions, guides, links, observer, writer, begun>>

-----------------------------------------------------------------------------
(* What a title means, and when two of them are one action.                *)

ActionTokens(kind, title) ==
  LET folded == {Fold[w] : w \in TitleWords[title]} \ {Dropped}
      cleared == IF {"clear", "code"} \subseteq folded
                 THEN folded \cup {"cleardtc"} ELSE folded
      all == cleared \cup {SkillOf[s] : s \in cleared \cap DOMAIN SkillOf}
  IN IF all = {} THEN {kind} ELSE all

Shared(a, b) == Cardinality(a \cap b)
Union(a, b) == Cardinality(a \cup b)

(* Jaccard(a, b) >= percent / 100; neither set is empty.                   *)
JaccardReaches(a, b, percent) == 100 * Shared(a, b) >= percent * Union(a, b)

OneMoreToken(a, b) ==
  /\ Cardinality(a) >= 3 /\ Cardinality(b) >= 3
  /\ Cardinality(a) <= Cardinality(b) + 2 /\ Cardinality(b) <= Cardinality(a) + 2
  /\ a \subseteq b \/ b \subseteq a

ShouldMerge(kindA, kindB, a, b) ==
  /\ kindA = kindB
  /\ \/ a = b
     \/ a \cap b \cap ShopSkills # {}
     \/ JaccardReaches(a, b, 72)
     \/ /\ a \cap b \cap Skills # {}
        /\ JaccardReaches(a, b, 50)
        /\ (a \cap b) \ Skills # {}
     \/ OneMoreToken(a, b)

(* Row x is closer to tokens than row y, by the same measure.              *)
Closer(x, y, tokens) ==
  Shared(actions[x].tokens, tokens) * Union(actions[y].tokens, tokens) >
  Shared(actions[y].tokens, tokens) * Union(actions[x].tokens, tokens)

(* A slip: only a row with the same fingerprint counts.                    *)
BestMerge_Exact(kind, tokens) ==
  {x \in DOMAIN actions : actions[x].kind = kind /\ actions[x].tokens = tokens}

(* The rows bestMerge may return: the one with the same fingerprint, else  *)
(* one of the closest that merge (the SELECT has no ORDER BY).             *)
BestMerge(kind, tokens) ==
  LET same == {x \in DOMAIN actions : actions[x].kind = kind /\ actions[x].tokens = tokens}
      near == {x \in DOMAIN actions :
                 ShouldMerge(kind, actions[x].kind, tokens, actions[x].tokens)}
  IN IF same # {} THEN same
     ELSE {x \in near : \A y \in near : ~Closer(y, x, tokens)}

-----------------------------------------------------------------------------
Seed == [kind : ActionKinds, title : Titles]

(* Nothing is observed of a playbook without steps.                        *)
ASSUME PlaybooksAssumption == Playbooks \subseteq Seq(Seed) \ {<<>>}

Begun == 0 .. MaxBegun

(* began and ended are the times of the request that inserted the row.     *)
ActionRow ==
  [kind : ActionKinds, title : Titles, tokens : SUBSET Tokens,
   variants : SUBSET Titles, seen : Nat, began : Begun, ended : Begun]

(* wanted and settled are history: the links its last save asked for, and  *)
(* whether that save ran alone and to its end.                             *)
GuideRow ==
  [exists : BOOLEAN, wanted : SUBSET Nat, settled : BOOLEAN]

Quiet == [step |-> "none"]

CatalogTypeOK ==
  /\ actions \in Seq(ActionRow)
  /\ \A x \in DOMAIN actions : Cardinality(actions[x].variants) <= MaxVariants
  /\ guides \in Seq(GuideRow)
  /\ links \subseteq (DOMAIN guides) \X (DOMAIN actions)
  /\ observer \in [Observers ->
       {Quiet} \cup [step : {"select", "insert", "bump", "guides"}, todo : Seq(Seed),
                     hit : Nat, again : BOOLEAN, began : Begun]]
  /\ writer \in [Writers ->
       {Quiet} \cup [step : {"clear", "link"}, guide : Nat, todo : SUBSET Nat,
                     alone : BOOLEAN]]
  /\ begun \in Begun

CatalogInit ==
  /\ actions = <<>>
  /\ guides = <<>>
  /\ links = {}
  /\ observer = [o \in Observers |-> Quiet]
  /\ writer = [w \in Writers |-> Quiet]
  /\ begun = 0

Begins == begun < MaxBegun /\ begun' = begun + 1

-----------------------------------------------------------------------------
(* ObservePlaybookSteps: the steps of one playbook, one after the other.   *)

ObserveSteps(o, seeds) ==
  /\ observer[o] = Quiet
  /\ Begins
  /\ observer' = [observer EXCEPT ![o] =
       [step |-> "select", todo |-> seeds, hit |-> 0, again |-> FALSE,
        began |-> begun + 1]]
  /\ UNCHANGED <<actions, guides, links, writer>>

StepOf(o) == Head(observer[o].todo)
TokensOf(o) == ActionTokens(StepOf(o).kind, StepOf(o).title)

(* actionsByKind and bestMerge.  The second read, after a duplicate key,   *)
(* that finds nothing ends ObserveAction with an empty row and no error.   *)
SelectActions(o) ==
  LET best == BestMerge(StepOf(o).kind, TokensOf(o)) IN
  /\ observer[o].step = "select"
  /\ \/ \E x \in best :
          observer' = [observer EXCEPT ![o].step = "bump", ![o].hit = x]
     \/ /\ best = {}
        /\ observer' = [observer EXCEPT
             ![o].step = IF observer[o].again THEN "guides" ELSE "insert",
             ![o].hit = 0]
  /\ UNCHANGED <<actions, guides, links, writer, begun>>

(* INSERT: the fingerprint is UNIQUE.                                      *)
InsertAction(o) ==
  LET fingerprint == [kind |-> StepOf(o).kind, tokens |-> TokensOf(o)] IN
  /\ observer[o].step = "insert"
  /\ IF \E x \in DOMAIN actions :
          fingerprint = [kind |-> actions[x].kind, tokens |-> actions[x].tokens]
     THEN /\ observer' = [observer EXCEPT ![o].step = "select", ![o].again = TRUE]
          /\ UNCHANGED actions
     ELSE /\ actions' = Append(actions,
               [kind |-> StepOf(o).kind, title |-> StepOf(o).title,
                tokens |-> TokensOf(o), variants |-> {}, seen |-> 1,
                began |-> observer[o].began, ended |-> begun])
          /\ observer' = [observer EXCEPT ![o].step = "guides",
                                          ![o].hit = Len(actions')]
  /\ UNCHANGED <<guides, links, writer, begun>>

Variants(row, title) ==
  IF title = row.title \/ Cardinality(row.variants) >= MaxVariants
  THEN row.variants ELSE row.variants \cup {title}

BumpAction(o) ==
  /\ observer[o].step = "bump"
  /\ actions' = [actions EXCEPT ![observer[o].hit].seen = @ + 1,
                                ![observer[o].hit].variants =
                                  Variants(actions[observer[o].hit], StepOf(o).title)]
  /\ observer' = [observer EXCEPT ![o].step = "guides"]
  /\ UNCHANGED <<guides, links, writer, begun>>

(* guideIDsForStep reads the published cards for the step.  The empty      *)
(* row's id is not a uuid: that query fails and ends the playbook's steps. *)
SelectGuides(o) ==
  /\ observer[o].step = "guides"
  /\ observer' = [observer EXCEPT ![o] =
       IF observer[o].hit = 0 \/ Len(observer[o].todo) = 1
       THEN Quiet
       ELSE [observer[o] EXCEPT !.step = "select", !.todo = Tail(@), !.again = FALSE]]
  /\ UNCHANGED <<actions, guides, links, writer, begun>>

(* A query fails or the technician goes away: what was observed stays.     *)
AbortObserver(o) ==
  /\ observer[o] # Quiet
  /\ observer' = [observer EXCEPT ![o] = Quiet]
  /\ UNCHANGED <<actions, guides, links, writer, begun>>

-----------------------------------------------------------------------------
(* The super admin writes a card, then its links one by one.               *)

Writing(v, g) == writer[v] # Quiet /\ writer[v].guide = g

(* alone is history: no other save of the card has run meanwhile.          *)
WritesLinks(w, g, wanted) ==
  writer' = [v \in Writers |->
    CASE v = w -> [step |-> "clear", guide |-> g, todo |-> wanted,
                   alone |-> \A u \in Writers \ {w} : ~Writing(u, g)]
      [] v # w /\ Writing(v, g) -> [writer[v] EXCEPT !.alone = FALSE]
      [] OTHER -> writer[v]]

CreateHowTo(w, wanted) ==
  /\ writer[w] = Quiet
  /\ Begins
  /\ Len(guides) < MaxGuides
  /\ guides' = Append(guides,
       [exists |-> TRUE, wanted |-> wanted, settled |-> FALSE])
  /\ WritesLinks(w, Len(guides) + 1, wanted)
  /\ UNCHANGED <<actions, links, observer>>

(* A title or a body that is empty is refused before the UPDATE.           *)
UpdateHowTo(w, g, wanted) ==
  /\ writer[w] = Quiet
  /\ Begins
  /\ guides[g].exists
  /\ guides' = [guides EXCEPT ![g].wanted = wanted, ![g].settled = FALSE]
  /\ WritesLinks(w, g, wanted)
  /\ UNCHANGED <<actions, links, observer>>

(* The links go with the card (ON DELETE CASCADE).                         *)
DeleteHowTo(g) ==
  /\ Begins
  /\ guides[g].exists
  /\ guides' = [guides EXCEPT ![g].exists = FALSE, ![g].settled = FALSE]
  /\ links' = {link \in links : link[1] # g}
  /\ UNCHANGED <<actions, observer, writer>>

(* A slip: what the save before asked for stays.                           *)
ClearLinks_Kept(w) ==
  /\ writer[w].step = "clear"
  /\ writer' = [writer EXCEPT ![w].step = "link"]
  /\ UNCHANGED <<actions, guides, links, observer, begun>>

ClearLinks(w) ==
  /\ writer[w].step = "clear"
  /\ links' = {link \in links : link[1] # writer[w].guide}
  /\ writer' = [writer EXCEPT ![w].step = "link"]
  /\ UNCHANGED <<actions, guides, observer, begun>>

(* actionByID and INSERT: an unknown action, a card that is gone (foreign  *)
(* key) or a link that another save inserted (primary key) ends the        *)
(* request with the links it has.                                          *)
InsertLink(w, x) ==
  LET g == writer[w].guide IN
  /\ writer[w].step = "link" /\ x \in writer[w].todo
  /\ IF x \in DOMAIN actions /\ guides[g].exists /\ <<g, x>> \notin links
     THEN /\ links' = links \cup {<<g, x>>}
          /\ writer' = [writer EXCEPT ![w].todo = @ \ {x}]
     ELSE /\ writer' = [writer EXCEPT ![w] = Quiet]
          /\ UNCHANGED links
  /\ UNCHANGED <<actions, guides, observer, begun>>

(* GetHowToGuide answers with the card.                                    *)
AnswerHowTo(w) ==
  /\ writer[w].step = "link" /\ writer[w].todo = {}
  /\ guides' = [guides EXCEPT ![writer[w].guide].settled =
       guides[writer[w].guide].exists /\ writer[w].alone]
  /\ writer' = [writer EXCEPT ![w] = Quiet]
  /\ UNCHANGED <<actions, links, observer, begun>>

AbortWriter(w) ==
  /\ writer[w] # Quiet
  /\ writer' = [writer EXCEPT ![w] = Quiet]
  /\ UNCHANGED <<actions, guides, links, observer, begun>>

-----------------------------------------------------------------------------
CatalogNext ==
  \/ \E o \in Observers : \E seeds \in Playbooks : ObserveSteps(o, seeds)
  \/ \E o \in Observers :
       \/ SelectActions(o) \/ InsertAction(o) \/ BumpAction(o)
       \/ SelectGuides(o) \/ AbortObserver(o)
  \/ \E w \in Writers :
       \E wanted \in SUBSET (DOMAIN actions \cup {0}) :  \* 0: an unknown action
         \/ CreateHowTo(w, wanted)
         \/ \E g \in DOMAIN guides : UpdateHowTo(w, g, wanted)
  \/ \E g \in DOMAIN guides : DeleteHowTo(g)
  \/ \E w \in Writers :
       \/ ClearLinks(w) \/ AnswerHowTo(w) \/ AbortWriter(w)
       \/ writer[w] # Quiet /\ \E x \in writer[w].todo : InsertLink(w, x)

CatalogSpec == CatalogInit /\ [][CatalogNext]_catalogVars

-----------------------------------------------------------------------------
(* Two rows that should be one action are there only because two playbooks *)
(* were observed at once: one playbook never splits an action, and neither *)
(* does one that begins after the other's row is in (ObserveAction).       *)
OneRowPerMorph ==
  \A x, y \in DOMAIN actions :
    x < y /\ ShouldMerge(actions[x].kind, actions[y].kind,
                         actions[x].tokens, actions[y].tokens)
      => /\ actions[y].began # actions[x].began
         /\ actions[y].began <= actions[x].ended

(* A card whose last save ran alone and was answered has the links that    *)
(* save asked for, whatever failed or overlapped before it                 *)
(* (replaceGuideActions).                                                  *)
LinksOfLastSave ==
  \A g \in DOMAIN guides :
    guides[g].exists /\ guides[g].settled
      => {x \in DOMAIN actions : <<g, x>> \in links} = guides[g].wanted
=============================================================================
