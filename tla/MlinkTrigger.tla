---------------------------- MODULE MlinkTrigger ----------------------------
(***************************************************************************)
(* The triggers of mlink/mlink_trigger.c: a list in RAM, the text of every *)
(* trigger under its own key in NVS, and under one more key the list of    *)
(* names and sizes that mlink_trigger_init reads the texts by.  A request  *)
(* changes them one after the other, and the device may be reset between   *)
(* any two of its effects.                                                 *)
(*                                                                         *)
(* The calls that store a text or the list, or erase a text on a removal,  *)
(* are tested with ret < 0, and the errors of NVS are positive: such a     *)
(* call may have done nothing, and the request goes on and reports MDF_OK. *)
(* Only ESP_FAIL, which is negative, ends it.                              *)
(*                                                                         *)
(* A text is its size and the number of the request it came with.  Texts   *)
(* parse (a text that does not is refused before anything changes), and    *)
(* there are fewer than the 32 triggers the stored list has room for.      *)
(***************************************************************************)
EXTENDS Naturals, Sequences, FiniteSets, SequencesExt

CONSTANTS
  TriggerName,
  TriggerSize,     \* sizes of texts
  TriggerItems,    \* how many triggers a request may name
  TriggerRequests, \* how many requests are made
  TriggerMishaps   \* bound on resets and failing calls

ASSUME TriggerAssumption ==
  /\ TriggerSize \subseteq Nat \ {0} /\ TriggerItems \in Nat
  /\ TriggerRequests \in Nat /\ TriggerMishaps \in Nat

VARIABLES
  list,       \* g_trigger_list
  storedList, \* what is stored under MLINK_TRIGGER_STORE_KEY, empty when nothing is
  storedText, \* what is stored under the name of each trigger
  change,     \* the request in the middle of its effects
  triggerRequests, triggerMishaps,  \* how much of the bounds is used
  promise,    \* of each name: the text the last request that reported MDF_OK has left
  unsure,     \* names of triggers a request has failed on or was interrupted on
  unsaved,    \* names of triggers whose text was not stored, though the request went on
  unlisted    \* names a list says wrongly that was not stored, though the request went on

triggerVars == <<list, storedList, storedText, change, triggerRequests, triggerMishaps,
                 promise, unsure, unsaved, unlisted>>

NoText == [size |-> 0, id |-> 0]
Text == [size : TriggerSize, id : 1 .. TriggerRequests]
Trigger == [name : TriggerName, text : Text]
Quiet0 == [at |-> "idle", todo |-> <<>>, done |-> {}, from |-> 1]

TriggerMishap == triggerMishaps < TriggerMishaps /\ triggerMishaps' = triggerMishaps + 1

-----------------------------------------------------------------------------
(* Helpers *)

\* The places of a name in the list of the RAM, from place k on.
Places(n, k) == {i \in k .. Len(list) : list[i].name = n}
FirstPlace(n, k) == CHOOSE i \in Places(n, k) : \A j \in Places(n, k) : i <= j

\* mlink_trigger_store_update, and a mutant that misses the trigger added last
StoredFormOld(l) == [i \in 1 .. Len(l) - 1 |-> [name |-> l[i + 1].name, size |-> l[i + 1].text.size]]
StoredForm(l) == [i \in 1 .. Len(l) |-> [name |-> l[i].name, size |-> l[i].text.size]]

\* mdf_info_load finds a text that is not longer than the buffer.
Loads(e) == storedText[e.name] # NoText /\ storedText[e.name].size <= e.size

\* The list mlink_trigger_init makes: it puts each trigger in front of the others, so that
\* the k-th is the one with k - 1 behind it in the stored list.
Loaded == {i \in 1 .. Len(storedList) : Loads(storedList[i])}
Behind(k) == CHOOSE i \in Loaded : Cardinality({j \in Loaded : i < j}) = k - 1

AfterInit ==
  [k \in 1 .. Cardinality(Loaded) |->
     [name |-> storedList[Behind(k)].name, text |-> storedText[storedList[Behind(k)].name]]]

Names == IF change.at \in {"add", "save", "addUpdate"} THEN {change.todo[1].name}
         ELSE IF change.at = "idle" THEN {}
         ELSE change.done \union (IF change.todo = <<>> THEN {} ELSE {change.todo[1]})

\* The request ends without a report of MDF_OK.
GiveUp == change' = Quiet0 /\ unsure' = unsure \union Names

-----------------------------------------------------------------------------
(* mlink_handle_set_trigger: mlink_trigger_add for each *)

SetRequest(items) ==
  /\ change.at = "idle" /\ triggerRequests < TriggerRequests
  /\ triggerRequests' = triggerRequests + 1
  /\ change' = [Quiet0 EXCEPT !.at = "add", !.todo =
       [i \in 1 .. Len(items) |-> [name |-> items[i].name,
                                   text |-> [size |-> items[i].size, id |-> triggerRequests + 1]]]]
  /\ UNCHANGED <<list, storedList, storedText, triggerMishaps, promise, unsure, unsaved, unlisted>>

Item == change.todo[1]

\* The trigger of that name is erased and taken off the list, then the new one put in front.
AddReplace ==
  LET same == Places(Item.name, change.from)
  IN  /\ change.at = "add"
      /\ IF same = {} THEN list' = <<Item>> \o list /\ UNCHANGED storedText
         ELSE /\ list' = <<Item>> \o RemoveAt(list, FirstPlace(Item.name, change.from))
              /\ storedText' = [storedText EXCEPT ![Item.name] = NoText]
      /\ change' = [change EXCEPT !.at = "save", !.from = 1]
      /\ UNCHANGED <<storedList, triggerRequests, triggerMishaps, promise, unsure, unsaved, unlisted>>

\* When it cannot be erased it stays, and the search goes on.
AddEraseFails ==
  /\ change.at = "add" /\ Places(Item.name, change.from) # {}
  /\ TriggerMishap
  /\ change' = [change EXCEPT !.from = FirstPlace(Item.name, @) + 1]
  /\ unsure' = unsure \union {Item.name}
  /\ UNCHANGED <<list, storedList, storedText, triggerRequests, promise, unsaved, unlisted>>

AddSave ==
  /\ change.at = "save"
  /\ \/ /\ storedText' = [storedText EXCEPT ![Item.name] = Item.text]
        /\ unsaved' = unsaved \ {Item.name}
        /\ change' = [change EXCEPT !.at = "addUpdate"]
        /\ UNCHANGED <<triggerMishaps, unsure>>
     \/ /\ TriggerMishap
        /\ unsaved' = unsaved \union {Item.name}
        /\ change' = [change EXCEPT !.at = "addUpdate"]
        /\ UNCHANGED <<storedText, unsure>>
     \/ TriggerMishap /\ GiveUp /\ UNCHANGED <<storedText, unsaved>>
  /\ UNCHANGED <<list, storedList, triggerRequests, promise, unlisted>>

\* The trigger is added, whether or not the list was stored, and the next one is begun.
Added ==
  /\ promise' = [promise EXCEPT ![Item.name] = Item.text]
  /\ change' = IF Len(change.todo) = 1 THEN Quiet0
               ELSE [change EXCEPT !.at = "add", !.todo = Tail(@)]
  /\ UNCHANGED unsure

AddUpdate ==
  /\ change.at = "addUpdate"
  /\ \/ /\ storedList' = StoredForm(list) /\ unlisted' = {}
        /\ Added /\ UNCHANGED triggerMishaps
     \/ /\ TriggerMishap
        /\ unlisted' = unlisted \union {Item.name}
        /\ Added /\ UNCHANGED storedList
     \/ TriggerMishap /\ GiveUp /\ UNCHANGED <<storedList, promise, unlisted>>
  /\ UNCHANGED <<list, storedText, triggerRequests, unsaved>>

-----------------------------------------------------------------------------
(* mlink_handle_remove_trigger *)

RemoveRequest(names) ==
  /\ change.at = "idle" /\ triggerRequests < TriggerRequests
  /\ triggerRequests' = triggerRequests + 1
  /\ change' = [Quiet0 EXCEPT !.at = "remove", !.todo = names]
  /\ UNCHANGED <<list, storedList, storedText, triggerMishaps, promise, unsure, unsaved, unlisted>>

RemoveOne ==
  LET n == change.todo[1]
      same == Places(n, 1)
  IN  /\ change.at = "remove" /\ change.todo # <<>>
      /\ \/ /\ IF same = {} THEN UNCHANGED <<list, storedText, triggerMishaps>>
               ELSE /\ list' = RemoveAt(list, FirstPlace(n, 1))
                    /\ \/ storedText' = [storedText EXCEPT ![n] = NoText] /\ UNCHANGED triggerMishaps
                       \/ TriggerMishap /\ UNCHANGED storedText
            /\ change' = [change EXCEPT !.todo = Tail(@), !.done = @ \union {n}]
            /\ unsaved' = unsaved \ {n} /\ UNCHANGED unsure
         \/ same # {} /\ TriggerMishap /\ GiveUp /\ UNCHANGED <<list, storedText, unsaved>>
      /\ UNCHANGED <<storedList, triggerRequests, promise, unlisted>>

\* The triggers are removed, whether or not the list was stored.
AllRemoved ==
  /\ promise' = [n \in TriggerName |-> IF n \in change.done THEN NoText ELSE promise[n]]
  /\ change' = Quiet0 /\ UNCHANGED unsure

RemoveUpdate ==
  /\ change.at = "remove" /\ change.todo = <<>>
  /\ \/ /\ storedList' = StoredForm(list) /\ unlisted' = {}
        /\ AllRemoved /\ UNCHANGED triggerMishaps
     \/ /\ TriggerMishap
        /\ unlisted' = unlisted \union {n \in change.done : storedText[n] # NoText}
        /\ AllRemoved /\ UNCHANGED storedList
     \/ TriggerMishap /\ GiveUp /\ UNCHANGED <<storedList, promise, unlisted>>
  /\ UNCHANGED <<list, storedText, triggerRequests, unsaved>>

\* The device is reset and mlink_trigger_init runs.  What was not stored is lost.
TriggerReset ==
  /\ TriggerMishap
  /\ list' = AfterInit
  /\ change' = Quiet0 /\ unsure' = unsure \union Names \union unsaved \union unlisted
  /\ unsaved' = {} /\ unlisted' = {}
  /\ UNCHANGED <<storedList, storedText, triggerRequests, promise>>

-----------------------------------------------------------------------------

TriggerInit ==
  /\ list = <<>> /\ storedList = <<>> /\ storedText = [n \in TriggerName |-> NoText]
  /\ change = Quiet0 /\ triggerRequests = 0 /\ triggerMishaps = 0
  /\ promise = [n \in TriggerName |-> NoText]
  /\ unsure = {} /\ unsaved = {} /\ unlisted = {}

Lists(S) == UNION {[1 .. k -> S] : k \in 1 .. TriggerItems}

TriggerNext ==
  \/ \E items \in Lists([name : TriggerName, size : TriggerSize]) : SetRequest(items)
  \/ \E names \in Lists(TriggerName) : RemoveRequest(names)
  \/ AddReplace \/ AddEraseFails \/ AddSave \/ AddUpdate
  \/ RemoveOne \/ RemoveUpdate
  \/ TriggerReset

TriggerSpec == TriggerInit /\ [][TriggerNext]_triggerVars

-----------------------------------------------------------------------------
(* Properties *)

TriggerTypeOK ==
  /\ list \in Seq(Trigger)
  /\ storedList \in Seq([name : TriggerName, size : TriggerSize])
  /\ storedText \in [TriggerName -> Text \union {NoText}]
  /\ promise \in [TriggerName -> Text \union {NoText}]
  /\ change.at \in {"idle", "add", "save", "addUpdate", "remove"}
  /\ change.done \subseteq TriggerName /\ change.from \in Nat
  /\ triggerRequests \in 0 .. TriggerRequests /\ triggerMishaps \in 0 .. TriggerMishaps
  /\ unsure \subseteq TriggerName /\ unsaved \subseteq TriggerName /\ unlisted \subseteq TriggerName

\* What a list holds of a name.
TextsOf(l, n) == {l[i].text : i \in {j \in 1 .. Len(l) : l[j].name = n}}
Once(l, n) == \A i, j \in 1 .. Len(l) : l[i].name = n /\ l[j].name = n => i = j
Kept(n) == IF promise[n] = NoText THEN {} ELSE {promise[n]}

\* Of each name but those whose own request failed or was interrupted: a trigger that was
\* set is in the list, once and with its last text, and one that was removed is not; and a
\* reset at any time finds it so, unless its text was not stored, or it was not named in the
\* list since a list was stored last, or neither its text nor its name was taken away.
TriggersAreKept ==
  \A n \in TriggerName \ (unsure \union Names) :
    /\ TextsOf(list, n) = Kept(n) /\ Once(list, n)
    /\ n \notin unsaved \union unlisted => TextsOf(AfterInit, n) = Kept(n) /\ Once(AfterInit, n)
=============================================================================
