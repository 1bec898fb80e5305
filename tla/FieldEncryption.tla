----------------------------- MODULE FieldEncryption -----------------------------
(***************************************************************************)
(* The encryption of texts at rest: EncryptionSubscriber around every save  *)
(* and load of an entity, EncryptionService with the keyring it was started *)
(* with, and the configuration from which validateEnv makes the keyring.    *)
(*                                                                         *)
(* A row of the note has one text, the row of the search projection has     *)
(* two.  The backend runs in several instances; a change of the             *)
(* configuration reaches an instance when it is restarted.  The database    *)
(* fails saves, and fields get damaged or end up in another row.            *)
(***************************************************************************)
EXTENDS Naturals, FiniteSets

CONSTANTS
    Backends,       \* the instances of the backend
    MaxSaves,       \* bound on saves
    MaxKeyChanges,     \* bound on changes of the configuration
    MaxDamages      \* bound on failed saves and damaged fields

Rows == {"note", "document"}
Fields == [note |-> {"content"}, document |-> {"noteContent", "resultContent"}]
Cells == {<<r, f>> : r \in Rows, f \in {"content", "noteContent", "resultContent"}}
Used == {c \in Cells : c[2] \in Fields[c[1]]}

\* ENCRYPTION_KEY is the key "old"; ENCRYPTION_KEYS gives the keys "new" and "newer" their names.
Configurations == [single : {TRUE, FALSE}, ring : {{}, {"k1"}, {"k1", "k2"}}, active : {"legacy", "k1", "k2"}]
KeyOf == [legacy |-> "old", k1 |-> "new", k2 |-> "newer"]

\* The text "lookalike" begins with enc: or has three parts of the lengths of an older envelope, and is
\* none.  (A text that is an envelope of this field, copied from the database, is left out.)
SavedTexts == {"empty", "one", "two", "lookalike"}

VARIABLES
    configuration,  \* the environment of the next start
    keyring,        \* keyring[i]: what instance i was started with
    cells,          \* the columns of the database
    written,        \* the text that was saved last in each of them
    entity,         \* entity[i]: the entity that instance i saves
    answer,         \* the last load: the row and its fields, or an error
    saves, configured, damages

cryptVars == <<configuration, keyring, cells, written, entity, answer, saves, configured, damages>>

-----------------------------------------------------------------------------
(***************************************************************************)
(* Keys                                                                     *)
(***************************************************************************)

\* validateEnv accepts an active key that is in the ring; without a ring the single key is the ring.
ValidConfiguration(c) ==
    IF c.ring # {} THEN c.active \in c.ring ELSE c.single /\ c.active = "legacy"

\* The keyring of validateEnv, and the candidates for envelopes without a key ID.
KeyringOf(c) ==
    LET keys == IF c.ring # {} THEN c.ring ELSE {"legacy"}
    IN [keys |-> keys, active |-> c.active,
        legacyKeys |-> {KeyOf[k] : k \in keys} \cup (IF c.single THEN {"old"} ELSE {})]

Plain(text) == [form |-> "plain", text |-> text]
Versioned(kid, aad, text) == [form |-> "versioned", kid |-> kid, aad |-> aad, text |-> text, intact |-> TRUE]
Legacy(key, text) == [form |-> "legacy", key |-> key, text |-> text, intact |-> TRUE]

\* isEncrypted goes by the look of the text.
isEncrypted(value) == value.form # "plain" \/ value.text = "lookalike"

\* A mutant of Encrypted: a field that is already encrypted is encrypted again.
EncryptedAgain(i, cell, value) ==
    IF value.form # "plain" THEN Versioned(keyring[i].active, cell, "ciphertext")
    ELSE IF value.text = "empty" THEN value ELSE Versioned(keyring[i].active, cell, value.text)

\* encryptFields: only text that is not empty and does not look encrypted; a lookalike is stored as it is.
Encrypted(i, cell, value) ==
    IF isEncrypted(value) \/ value.text = "empty" THEN value
    ELSE Versioned(keyring[i].active, cell, value.text)

\* decryptVersioned knows the key by its ID, and the field and row by the additional data;
\* decryptLegacy tries every candidate.  Both reject a lookalike.
Decryptable(i, cell, value) ==
    /\ value.form # "plain" /\ value.intact
    /\ \/ value.form = "versioned" /\ value.kid \in keyring[i].keys /\ value.aad = cell
       \/ value.form = "legacy" /\ value.key \in keyring[i].legacyKeys

\* decryptFields: a plain field is left as it is; one that cannot be decrypted is an error, but in the
\* search projection it is blank.
Decrypted(i, cell, value) ==
    IF ~isEncrypted(value) THEN value.text
    ELSE IF Decryptable(i, cell, value) THEN value.text
    ELSE IF cell[1] = "document" THEN "empty" ELSE "error"

-----------------------------------------------------------------------------
(***************************************************************************)
(* Entities                                                                 *)
(***************************************************************************)
NoEntity == [row |-> "none"]
NoAnswer == [row |-> "none"]

\* The texts were written by this version, with or without a keyring, or by one that had no key IDs.
CryptInit ==
    /\ configuration \in {c \in Configurations : ValidConfiguration(c) /\ c.ring # {"k1", "k2"}}
    /\ keyring = [i \in Backends |-> KeyringOf(configuration)]
    /\ cells \in {[c \in Used |-> Plain("empty")], [c \in Used |-> Legacy("old", "one")]}
    /\ (\E c \in Used : cells[c].form = "legacy") => configuration.single
    /\ written = [c \in Used |-> cells[c].text]
    /\ entity = [i \in Backends |-> NoEntity] /\ answer = NoAnswer
    /\ saves = 0 /\ configured = 0 /\ damages = 0

\* beforeInsert and beforeUpdate encrypt the fields of the entity in place.
BeginSave(i) ==
    /\ entity[i] = NoEntity /\ saves < MaxSaves /\ saves' = saves + 1
    /\ \E r \in Rows, text \in SavedTexts :
         entity' = [entity EXCEPT ![i] = [row |-> r, text |-> text,
                      fields |-> [f \in Fields[r] |-> Encrypted(i, <<r, f>>, Plain(text))]]]
    /\ UNCHANGED <<configuration, keyring, cells, written, answer, configured, damages>>

\* afterInsert and afterUpdate decrypt the fields again: those of a note must be decryptable.
Unreadable(i) == \E f \in DOMAIN entity[i].fields :
                  Decrypted(i, <<entity[i].row, f>>, entity[i].fields[f]) = "error"

\* The database stores the fields.  When they are rejected afterwards, the transaction of a save is
\* rolled back; the conditional UPDATE of a note has none and stands, although its request fails.
StoreEntity(i) ==
    /\ entity[i] # NoEntity
    /\ \/ /\ cells' = [c \in Used |-> IF c[1] = entity[i].row THEN entity[i].fields[c[2]] ELSE cells[c]]
          /\ written' = [c \in Used |-> IF c[1] = entity[i].row THEN entity[i].text ELSE written[c]]
       \/ Unreadable(i) /\ UNCHANGED <<cells, written>>
    /\ entity' = [entity EXCEPT ![i] = NoEntity]
    /\ UNCHANGED <<configuration, keyring, answer, saves, configured, damages>>

\* The save fails and leaves the entity encrypted; it is saved again, or dropped.
SaveFails(i) ==
    /\ entity[i] # NoEntity /\ damages < MaxDamages /\ damages' = damages + 1
    /\ \/ entity' = [entity EXCEPT ![i].fields =
            [f \in DOMAIN entity[i].fields |-> Encrypted(i, <<entity[i].row, f>>, entity[i].fields[f])]]
       \/ entity' = [entity EXCEPT ![i] = NoEntity]
    /\ UNCHANGED <<configuration, keyring, cells, written, answer, saves, configured>>

\* afterLoad: the first field that cannot be decrypted fails the load of a row of the note.
Load(i) ==
    /\ \E r \in Rows :
         answer' = [row |-> r, by |-> i,
                    fields |-> [f \in Fields[r] |-> Decrypted(i, <<r, f>>, cells[<<r, f>>])]]
    /\ UNCHANGED <<configuration, keyring, cells, written, entity, saves, configured, damages>>

\* A field is damaged, or gets the ciphertext of another field.
Damage(c) ==
    /\ damages < MaxDamages /\ damages' = damages + 1 /\ cells[c].form # "plain"
    /\ \/ cells' = [cells EXCEPT ![c].intact = FALSE]
       \/ \E d \in Used \ {c} : cells[d].form = "versioned" /\ cells' = [cells EXCEPT ![c] = cells[d]]
    /\ answer' = NoAnswer
    /\ UNCHANGED <<configuration, keyring, written, entity, saves, configured>>

-----------------------------------------------------------------------------
\* The keys are changed, and every key that was configured is kept.
Configure ==
    /\ configured < MaxKeyChanges /\ configured' = configured + 1
    /\ \E c \in Configurations :
         /\ ValidConfiguration(c) /\ c # configuration
         /\ c.ring # {} /\ configuration.ring \subseteq c.ring /\ c.single = configuration.single
         /\ configuration' = c
    /\ UNCHANGED <<keyring, cells, written, entity, answer, saves, damages>>

\* A rolling restart: what the instance was saving is lost.
Restart(i) ==
    /\ keyring[i] # KeyringOf(configuration)
    /\ keyring' = [keyring EXCEPT ![i] = KeyringOf(configuration)]
    /\ entity' = [entity EXCEPT ![i] = NoEntity]
    /\ UNCHANGED <<configuration, cells, written, answer, saves, configured, damages>>

CryptNext ==
    \/ \E i \in Backends : BeginSave(i) \/ StoreEntity(i) \/ SaveFails(i) \/ Load(i) \/ Restart(i)
    \/ \E c \in Used : Damage(c)
    \/ Configure

CryptSpec == CryptInit /\ [][CryptNext]_cryptVars

-----------------------------------------------------------------------------
\* When at most one field is damaged or moved, nothing but the text that was saved last is ever read,
\* whatever keys were rotated and saves repeated: another answer is an error, or a blank field of the
\* search projection.  A blank or an error means that the field is damaged, moved or of a key the
\* instance does not know, or that the text looks like an envelope: it was stored in clear and is never
\* read again.  (The additional data names the row and the field, not the version: a ciphertext that was
\* moved away and back over a later save would be read as the older text.)
ReadsBack ==
    [][\A i \in Backends : answer' # answer /\ answer'.row # "none" /\ answer'.by = i =>
         \A f \in DOMAIN answer'.fields :
           LET c == <<answer'.row, f>>
               value == cells[c]
           IN \/ answer'.fields[f] = written[c]
              \/ /\ answer'.fields[f] = IF answer'.row = "document" THEN "empty" ELSE "error"
                 /\ \/ value = Plain("lookalike")
                    \/ value.form # "plain" /\ ~value.intact
                    \/ value.form = "versioned" /\ (value.aad # c \/ value.kid \notin keyring[i].keys)
                    \/ value.form = "legacy" /\ value.key \notin keyring[i].legacyKeys]_cryptVars
=============================================================================
