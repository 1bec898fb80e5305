-------------------------------- MODULE MCTexts --------------------------------
(***************************************************************************)
(* The texts of a meeting and the session of its user, for TLC: the tokens  *)
(* of the session, the prompts, the source of the minutes and how it is cut *)
(* and read, the minutes and how they are written and exported, the texts   *)
(* at rest and the search over them.  One run checks the nine beside each   *)
(* other: a behaviour moves one of them, its part.                          *)
(***************************************************************************)
EXTENDS SessionTokens, PromptSettings, SourceText, TranscriptText, MinutesGeneration, MinutesContent,
        DocumentOutput, FieldEncryption, MeetingSearch

VARIABLE part

textsVars == <<part, tokenVars, promptVars, sourceVars, transcriptVars, generationVars,
               contentVars, documentVars, cryptVars, searchVars>>

\* A part starts in any of its initial states, the others in one of theirs.
TextsInit ==
    /\ part \in {"tokens", "prompts", "source", "transcript", "generation", "content", "document", "crypt", "search"}
    /\ TokenInit /\ DocumentInit
    /\ PromptInit /\ (part # "prompts" => promptRows = {Seeded} /\ settingsRow = NoRow /\ legacy = NoLegacy)
    /\ CryptInit /\ (part # "crypt" => configuration = [single |-> TRUE, ring |-> {}, active |-> "legacy"]
                                       /\ cells = [c \in Used |-> Plain("empty")])
    /\ GenerationInit /\ (part # "generation" => session = [note |-> <<>>, text |-> <<>>])
    /\ SearchInit
    /\ IF part = "source" THEN SourceInit
       ELSE source = [note |-> <<>>, text |-> <<>>] /\ chunkSize = 2 /\ chunks = <<>>
    /\ IF part = "transcript" THEN TranscriptInit
       ELSE /\ items = <<>> /\ job = NoOffset /\ table = {}
            /\ collected = 0 /\ prepared = FALSE /\ lines = <<>>
    /\ IF part = "content" THEN ContentInit
       ELSE /\ AnySummary /\ minutes = NoMinutes /\ answers[1].summary = PlainSummary
            /\ expectation = [hasTranscript |-> FALSE, script |-> "none"]

Tokens == /\ part = "tokens"
          /\ UNCHANGED <<part, promptVars, sourceVars, transcriptVars, generationVars, contentVars,
                         documentVars, cryptVars, searchVars>>
Prompting == /\ part = "prompts"
             /\ UNCHANGED <<part, tokenVars, sourceVars, transcriptVars, generationVars, contentVars,
                            documentVars, cryptVars, searchVars>>
Splitting == /\ part = "source"
             /\ UNCHANGED <<part, tokenVars, promptVars, transcriptVars, generationVars, contentVars,
                            documentVars, cryptVars, searchVars>>
Transcribing == /\ part = "transcript"
                /\ UNCHANGED <<part, tokenVars, promptVars, sourceVars, generationVars, contentVars,
                               documentVars, cryptVars, searchVars>>
Generating == /\ part = "generation"
              /\ UNCHANGED <<part, tokenVars, promptVars, sourceVars, transcriptVars, contentVars,
                             documentVars, cryptVars, searchVars>>
Writing == /\ part = "content"
           /\ UNCHANGED <<part, tokenVars, promptVars, sourceVars, transcriptVars, generationVars,
                          documentVars, cryptVars, searchVars>>
Exporting == /\ part = "document"
             /\ UNCHANGED <<part, tokenVars, promptVars, sourceVars, transcriptVars, generationVars,
                            contentVars, cryptVars, searchVars>>
Encrypting == /\ part = "crypt"
              /\ UNCHANGED <<part, tokenVars, promptVars, sourceVars, transcriptVars, generationVars,
                             contentVars, documentVars, searchVars>>
Searching == /\ part = "search"
             /\ UNCHANGED <<part, tokenVars, promptVars, sourceVars, transcriptVars, generationVars,
                            contentVars, documentVars, cryptVars>>

TextsNext ==
    \/ Tokens /\ NearsExpiry
    \/ Tokens /\ Expires
    \/ \E n \in Pairs :
         \/ Tokens /\ pruneRotatedRefreshResults(n)
         \/ Tokens /\ ProviderRotates(n)
         \/ Tokens /\ RefreshEnds(n)
         \/ Tokens /\ RefreshTimesOut(n)
    \/ \E t \in Tabs :
         \/ Tokens /\ PollSession(t)
         \/ Tokens /\ Call(t)
         \/ Tokens /\ CallSucceeds(t)
         \/ Tokens /\ CallRejected(t)
    \/ \E t \in Tabs, r \in Readers :
         \/ Tokens /\ JwtCallback(t, r)
         \/ Tokens /\ TakeRotated(t, r)
         \/ Tokens /\ SessionArrives(t, r)
         \/ Tokens /\ SessionFails(t, r)
    \/ Tokens /\ StartDiscovery
    \/ Tokens /\ DiscoveryEnds
    \/ Tokens /\ DiscoveryFails
    \/ Tokens /\ CoolDownEnds
    \/ \E t \in SettingsTabs :
         \/ Prompting /\ fetchPrompts(t)
         \/ Prompting /\ fetchSettings(t)
         \/ Prompting /\ EditPrompt(t)
         \/ Prompting /\ updateSettings(t)
         \/ Prompting /\ startMeeting(t)
         \/ Prompting /\ Create(t)
         \/ Prompting /\ SavePrompt(t)
         \/ Prompting /\ DeletePrompt(t)
         \/ Prompting /\ CreateMeeting(t)
         \/ Prompting /\ SettingsArrive(t)
         \/ Prompting /\ Migrated(t)
         \/ Prompting /\ SettingsSaved(t)
         \/ Prompting /\ PromptSaved(t)
         \/ Prompting /\ DeletedAtHome(t)
         \/ Prompting /\ handleDelete(t)
         \/ Prompting /\ MeetingStarted(t)
    \/ \E t \in SettingsTabs, o \in Ops :
         \/ Prompting /\ Serve(t, o)
         \/ Prompting /\ Checks(t, o)
         \/ Prompting /\ SaveSettings(t, o)
         \/ Prompting /\ ListArrives(t, o)
         \/ Prompting /\ Refused(t, o)
         \/ Prompting /\ Lost(t, o)
    \/ Splitting /\ SplitSource
    \/ Transcribing /\ mergeBatchSegments
    \/ Transcribing /\ buildTranscriptTextForAI
    \/ Generating /\ generateResultPayload
    \/ Generating /\ extractStructuredNotes
    \/ \E i \in DOMAIN workers : Generating /\ extractChunk(i)
    \/ Generating /\ SettleBatch
    \/ Generating /\ synthesizeOverview
    \/ Generating /\ SaveSuggestedTitle
    \/ Generating /\ FailTitle
    \/ Generating /\ AcceptExtraction
    \/ Generating /\ RejectExtraction
    \/ Generating /\ generateMeetingResult
    \/ \E i \in DOMAIN workers : Generating /\ generateLegacyChunk(i)
    \/ Generating /\ PushChunk
    \/ Generating /\ AcceptLegacy
    \/ Generating /\ buildFallbackContent
    \/ Generating /\ UserNamesMeeting
    \/ Writing /\ WriteMinutes
    \/ Exporting /\ ReadLine
    \/ Exporting /\ EndDocument
    \/ \E i \in Backends :
         \/ Encrypting /\ BeginSave(i)
         \/ Encrypting /\ StoreEntity(i)
         \/ Encrypting /\ SaveFails(i)
         \/ Encrypting /\ Load(i)
         \/ Encrypting /\ Restart(i)
    \/ \E c \in Used : Encrypting /\ Damage(c)
    \/ Encrypting /\ Configure
    \/ \E m \in Meetings : \E f \in Scopes : Searching /\ SaveText(m, f)
    \/ \E m \in Meetings : Searching /\ SaveSegments(m)
    \/ \E m \in Meetings : Searching /\ TrashOrRestore(m)
    \/ \E i \in DOMAIN refreshes :
         \/ Searching /\ RefreshReadsMeeting(i)
         \/ \E f \in Scopes : Searching /\ RefreshReadsText(i, f)
         \/ Searching /\ RefreshSaves(i)
         \/ Searching /\ RefreshDeletes(i)
         \/ Searching /\ RefreshFails(i)
         \/ Searching /\ RefreshInvalidates(i)
    \/ Searching /\ beginSearch
    \/ Searching /\ ensureCoverage
    \/ Searching /\ checkCoverage
    \/ Searching /\ searchProjection
    \/ Searching /\ searchLegacy
    \/ Searching /\ endSearch

TextsSpec == TextsInit /\ [][TextsNext]_textsVars
=============================================================================
