------------------------------ MODULE Recipes -------------------------------
(***************************************************************************)
(* Loops over all instances of a model that save every one of them, beside *)
(* the workers: rotate_all of the demo, the emergency rotation of          *)
(* docs/security.md, and the README's recomputation of a blind index.      *)
(*                                                                         *)
(* rotate_all runs in a thread of one of the workers, whose settings        *)
(* switch_key changes in another thread; the other loops run in a process  *)
(* of their own, with the settings of one of the workers.  A loop iterates *)
(* over Model.objects.all(), which loads all rows by one query before the  *)
(* first iteration; nothing depends on their order.  An iteration works on *)
(* what was loaded and ends with a save, which is its only query.          *)
(***************************************************************************)
EXTENDS BlindIndex

CONSTANT NoWorker

ASSUME RecipeAssumption == NoWorker \notin Workers

VARIABLES
  recipe,    \* which loop is running, or "none"
  host,      \* the worker in whose process it runs, or NoWorker
  loopConf,  \* the settings of its process
  since,     \* those it has had since the iteration began
  queue,     \* primary key |-> the instance that was loaded, for those left
  swept,     \* history: the rows it saved that nobody else has written since
  raced,     \* history: of those left, the rows workers wrote since
  actives    \* history: the key ids active in its process since it began

process    == <<host, loopConf, since, actives>>
loopVars   == <<recipe, process, queue, swept, raced>>
recipeVars == <<indexVars, loopVars>>

Rotations == {"rotate_all", "emergency"}

RecipeTypeOK ==
  /\ recipe \in Rotations \cup {"recompute", "none"}
  /\ host \in Workers \cup {NoWorker}
  /\ loopConf \in Config /\ since \subseteq Config
  /\ DOMAIN queue \subseteq Pks /\ \A p \in DOMAIN queue : queue[p] \in [Columns -> Value]
  /\ swept \subseteq Pks /\ raced \subseteq Pks
  /\ actives \subseteq KeyIds \cup {NoKey}

RecipeInit ==
  /\ IndexInit
  /\ recipe = "none"
  /\ host = NoWorker /\ loopConf = Rollout[1] /\ since = {} /\ actives = {}
  /\ queue = <<>> /\ swept = {} /\ raced = {}

-----------------------------------------------------------------------------
\* FieldEncryptor.rotate_value: None, a text without a separator and what has
\* the active key id in front of it stay as they are; everything else is
\* decrypted and encrypted, both without AAD, or raises.
\* Variant (fault): the comparison of the key ids is the wrong way round.
RotatableActive(c, v) == v # NullValue /\ Prefix(v) = c.active
Rotatable(c, v) == v # NullValue /\ Prefix(v) \notin {NoSeparator, c.active}
RotateRaises(c, v) ==
  Rotatable(c, v) /\ ~(Opens(c, v, NoAad) /\ KeyUsable(c, c.active))
\* Variant (fault): what is encrypted is encrypted again.
RotateValueAgain(c, v) == IF Rotatable(c, v) THEN Encrypt(c, v, c.active, NoAad) ELSE v
RotateValue(c, v) == IF Rotatable(c, v) THEN Encrypt(c, Peel(v), c.active, NoAad) ELSE v

\* rotate_all asks can_decrypt of an attribute before it rotates it; the
\* emergency rotation does not ask.  No switch changes what the answer depends on.
Chosen(v) == recipe = "rotate_all" => v # NullValue /\ IsEncrypted(loopConf, v)

\* What an attribute is saved as, if it is rotated in the settings c.  It makes no
\* difference to it whether a switch comes between rotate_value's comparison of
\* the key ids and its encryption.
Rotated(c, v) == IF Chosen(v) THEN RotateValue(c, v) ELSE v

\* The iteration for p raises, its attributes being rotated in the settings "by":
\* in rotate_value or in a save of all columns; or, in the recomputation, on a
\* source that is None, an unusable key, or a row that is gone; and whenever
\* another row has the hash.
IterationRaises(p, by) ==
  IF recipe \in Rotations
    THEN \/ \E col \in Columns : Chosen(queue[p][col]) /\ RotateRaises(by[col], queue[p][col])
         \/ \E col \in Columns : WriteRaises(loopConf, col, Rotated(by[col], queue[p][col]))
         \/ ~Storable(loopConf, p, Rotated(by[Indexed], queue[p][Indexed]))
    ELSE \/ queue[p][Indexed] = NullValue
         \/ ~KeyUsable(loopConf, loopConf.active)
         \/ p \notin present
         \/ ~Storable(loopConf, p, queue[p][Indexed])

\* The attributes are rotated, each in the settings of that moment, and save()
\* writes them all, by an INSERT if the row is gone.
RotateAndSave(p, by) ==
  /\ recipe \in Rotations
  /\ present' = present \cup {p}
  /\ row' = [row EXCEPT ![p] =
       [col \in Columns |-> Write(loopConf, col, Rotated(by[col], queue[p][col]))]]
  /\ StoreHash(loopConf, p, Rotated(by[Indexed], queue[p][Indexed]))
  /\ outdated' = outdated \ {p}

\* Variant (fault): save(update_fields=...) does not name the hash.
RecomputeUnnamed(p) ==
  /\ recipe = "recompute"
  /\ UNCHANGED <<present, row, hash, outdated>>

\* obj.hash = compute_hash(obj.source); obj.save(update_fields=["hash"]).  The
\* receiver computes it once more, with the key of the field, and that is saved.
RecomputeHash(p) ==
  /\ recipe = "recompute"
  /\ StoreHash(loopConf, p, queue[p][Indexed])
  /\ outdated' = IF p \in raced THEN outdated \cup {p} ELSE outdated \ {p}
  /\ UNCHANGED <<present, row>>

-----------------------------------------------------------------------------
\* rotate_all runs where it was asked for.
InProcessOf(r, w) ==
  /\ host' = IF r = "rotate_all" THEN w ELSE NoWorker
  /\ loopConf' = Conf(w) /\ since' = {Conf(w)} /\ actives' = {Conf(w).active}

\* Variant (fault): the ciphertext of the rows is loaded in place of instances.
StartLoopRaw(r, w) ==
  /\ recipe = "none"
  /\ recipe' = r /\ InProcessOf(r, w)
  /\ queue' = [p \in present |-> row[p][Indexed]]
  /\ swept' = {} /\ raced' = {}
  /\ UNCHANGED indexVars

\* One row that a strict column cannot decrypt, and the query raises.
StartLoop(r, w) ==
  /\ recipe = "none"
  /\ \A p \in present, col \in Columns : ~ReadRaises(Conf(w), col, row[p][col])
  /\ recipe' = r /\ InProcessOf(r, w)
  /\ queue' = [p \in present |-> [col \in Columns |-> Read(Conf(w), col, row[p][col])]]
  /\ swept' = {} /\ raced' = {}
  /\ UNCHANGED indexVars

LoopSave(p) ==
  /\ p \in DOMAIN queue
  /\ queue' = [q \in DOMAIN queue \ {p} |-> queue[q]]
  /\ \E by \in [Columns -> since] :
       ~IterationRaises(p, by) /\ (RotateAndSave(p, by) \/ RecomputeHash(p))
  /\ since' = {loopConf}
  /\ swept' = IF p \in raced THEN swept ELSE swept \cup {p}
  /\ raced' = raced \ {p}
  /\ UNCHANGED <<holding, inst, stage, recipe, host, loopConf, actives>>

\* The rows that are left stay as they are.
LoopStops ==
  /\ recipe' = "none"
  /\ host' = NoWorker /\ loopConf' = Rollout[1] /\ since' = {} /\ actives' = {}
  /\ queue' = <<>> /\ swept' = {} /\ raced' = {}
  /\ UNCHANGED indexVars

\* There are no more; an iteration raises; or the process dies.
LoopEnds   == recipe # "none" /\ DOMAIN queue = {} /\ LoopStops
LoopRaises ==
  /\ {p \in DOMAIN queue : \E by \in [Columns -> since] : IterationRaises(p, by)} # {}
  /\ LoopStops
LoopDies   == recipe # "none" /\ LoopStops

\* The demo's switch_key: another active key, in this process only, without a
\* restart and also for the loop that runs in it, whose next call sees it.  It is
\* no larger a step than a deployment would take.
SwitchKey(w, s) ==
  /\ Rollout[s].keys = Conf(w).keys /\ Rollout[s].active # Conf(w).active
  /\ \A u \in Workers \ {w} : s <= stage[u] + MaxLag /\ stage[u] <= s + MaxLag
  /\ stage' = [stage EXCEPT ![w] = s]
  /\ IF w = host
       THEN /\ loopConf' = Rollout[s] /\ since' = since \cup {Rollout[s]}
            /\ actives' = actives \cup {Rollout[s].active}
            /\ UNCHANGED host
       ELSE UNCHANGED process
  /\ UNCHANGED <<present, row, holding, inst, hash, outdated>>

\* A step of the table.  A deployment ends a loop in the process it replaces.
WorkerMove(w) == IndexedStep(w) /\ (w = host => stage' = stage) /\ UNCHANGED process

\* A worker's step, as the histories see it.
DbRow(p) == <<row[p], hash[p], p \in present>>
WorkerStep ==
  /\ \E w \in Workers : WorkerMove(w) \/ \E s \in 1..Len(Rollout) : SwitchKey(w, s)
  /\ LET written == {p \in Pks : DbRow(p)' # DbRow(p)} IN
       /\ swept' = swept \ written
       /\ raced' = raced \cup (written \cap DOMAIN queue)
  /\ UNCHANGED <<recipe, queue>>

RecipeNext ==
  \/ WorkerStep
  \/ \E r \in Rotations \cup {"recompute"}, w \in Workers : StartLoop(r, w)
  \/ \E p \in Pks : LoopSave(p)
  \/ LoopEnds \/ LoopRaises \/ LoopDies

RecipeSpec == RecipeInit /\ [][RecipeNext]_recipeVars

-----------------------------------------------------------------------------
(* Properties.                                                             *)

\* docs/security.md: "Re-encrypt with new key".  No layer of a row that a
\* rotating loop has saved is under a key that was never active in its process
\* while it ran, also not the inner one of rows that were encrypted before they
\* were assigned to the column, and also when the active key was switched in the
\* middle of an iteration: the keys from before are not needed for them, and if
\* no switch came, no key but the active one is.
OldKeyNotNeeded ==
  recipe \in Rotations =>
    \A p \in swept, col \in Columns, i \in 1..MaxLayers + 1 :
      i \in DOMAIN row[p][col].layers => row[p][col].layers[i].kid \in actives

\* A loop changes keys and hashes and never what stands in a row, as long as no
\* worker writes the row after it was loaded: it keeps its text, gets no further
\* layer, and is not inserted again.
LoopKeepsTexts ==
  [][\A p \in Pks \ raced : LoopSave(p) =>
       /\ p \in present
       /\ \A col \in Columns :
            /\ row'[p][col].text = row[p][col].text
            /\ Len(row'[p][col].layers) <= Len(row[p][col].layers)]_recipeVars

\* docs/security.md: "After key rotation, you must re-compute all hash fields".
\* The hash of a row that a loop has saved is that of what the column shows,
\* whatever key it was hashed with before: under the pinned key or else one that was
\* active in the loop's process while it ran.
SweptRowsIndexed ==
  \A p \in swept :
    LET v == Read(loopConf, Indexed, row[p][Indexed]) IN
    IF v = NullValue THEN hash[p] = NoHash
    ELSE \E kid \in IF IndexPin # NoKey THEN {IndexPin} ELSE actives :
           hash[p] = ComputeHash(loopConf, kid, v)

\* README.md, "Removing encryption from a field", stores what
\* FieldEncryptor.decrypt makes of the attribute.  That is the text or, because
\* of a separator in it, raises; but no ciphertext gets into the new column.
DecryptGivesTexts ==
  \A w \in Workers, p \in present, col \in Columns :
    LET v == Read(Conf(w), col, row[p][col]) IN
    v.layers # <<>> => Len(v.layers) = 1 /\ Opens(Conf(w), v, NoAad)
=============================================================================
