----------------------------- MODULE Attachments -----------------------------
(* The attachments of the selected entry: prefetching, previewing, saving    *)
(* and deleting them. Every handler goes on, after its call, with what it    *)
(* captured before; the preview dialog shows whichever attachment was asked  *)
(* for last.                                                                 *)
(*                                                                           *)
(* A buffer is named by the attachment it holds; that a buffer is            *)
(* overwritten when the cache is wiped is left out, that it leaves the cache *)
(* is not.                                                                   *)
EXTENDS Integers

CONSTANTS Atts,       \* attachments
          EntryOf,    \* the entry of each
          SmallAtts,  \* those small enough to be prefetched
          MaxReads,   \* reads under way at a time
          MaxPicks    \* changes of the selected entry

VARIABLES picked,      \* the selected entry, or NoAtt
          kept,        \* attachments in the vault
          showing,     \* attachments listed for the selected entry
          cache,       \* previewCacheRef: the attachments it holds
          wantedAtt,   \* activePreviewReqIdRef
          previewAtt,  \* the attachment in the preview
          previewData, \* the attachment whose data it has
          loadingAtt,  \* loadingPreviewId
          downloadAtt, \* downloadingAttId
          reads,       \* calls under way: [n, op, att, entry, result]
          picks        \* changes of the selected entry

attVars == <<picked, kept, showing, cache, wantedAtt, previewAtt, previewData, loadingAtt,
             downloadAtt, reads, picks>>
previewVars == <<wantedAtt, previewAtt, previewData, loadingAtt>>

NoAtt == "none"
AttsOf(e) == {a \in Atts : EntryOf[a] = e}

Read(op, a) ==
  /\ \E n \in 1 .. MaxReads :
       /\ \A r \in reads : r.n # n
       /\ \A m \in 1 .. n - 1 : \E r \in reads : r.n = m
       /\ reads' = reads \cup {[n |-> n, op |-> op, att |-> a, 
                                entry |-> picked, result |-> "sent"]}

\* The list can be used while the preview is closed.
Usable(a) == a \in showing /\ previewAtt = NoAtt

-----------------------------------------------------------------------------
(* The handlers.                                                             *)

HandlePrefetchAttachment(a) ==
  /\ Usable(a) /\ a \in SmallAtts /\ a \notin cache /\ Read("prefetch", a)
  /\ UNCHANGED <<picked, kept, showing, cache, previewVars, downloadAtt, picks>>

\* a cached attachment is shown at once, another after it was read
HandlePreviewAttachment(a) ==
  /\ Usable(a) /\ wantedAtt' = a /\ previewAtt' = a /\ previewData' = IF a \in cache THEN a ELSE NoAtt
  /\ IF a \in cache THEN UNCHANGED <<loadingAtt, reads>>
     ELSE loadingAtt' = a /\ Read("preview", a)
  /\ UNCHANGED <<picked, kept, showing, cache, downloadAtt, picks>>

HandleClosePreview ==
  /\ previewAtt # NoAtt /\ wantedAtt' = NoAtt /\ loadingAtt' = NoAtt
  /\ previewAtt' = NoAtt /\ previewData' = NoAtt
  /\ UNCHANGED <<picked, kept, showing, cache, downloadAtt, reads, picks>>

\* from the list or from the preview, of the entry that is selected by now
HandleDownloadAttachment(a) ==
  /\ (Usable(a) /\ downloadAtt # a /\ loadingAtt # a) \/ a = previewAtt
  /\ picked # NoAtt /\ downloadAtt' = a /\ Read("download", a)
  /\ UNCHANGED <<picked, kept, showing, cache, previewVars, picks>>

HandleDeleteAttachment(a) ==
  /\ Usable(a) /\ Read("delete", a)
  /\ UNCHANGED <<picked, kept, showing, cache, previewVars, downloadAtt, picks>>

-----------------------------------------------------------------------------
(* The host, and the answers.                                                *)

RunRead(r) ==
  /\ r.result = "sent"
  /\ \/ /\ r.att \in kept /\ EntryOf[r.att] = r.entry
        /\ reads' = (reads \ {r}) \cup {[r EXCEPT !.result = "done"]}
        /\ kept' = IF r.op = "delete" THEN kept \ {r.att} ELSE kept
     \/ reads' = (reads \ {r}) \cup {[r EXCEPT !.result = "failed"]} /\ UNCHANGED kept
  /\ UNCHANGED <<picked, showing, cache, previewVars, downloadAtt, picks>>

Returned(op, r) == r.op = op /\ r.result # "sent" /\ reads' = reads \ {r}

PrefetchReturns(r) ==
  /\ Returned("prefetch", r)
  /\ cache' = IF r.result = "done" THEN cache \cup {r.att} ELSE cache
  /\ UNCHANGED <<picked, kept, showing, previewVars, downloadAtt, picks>>

\* an answer counts if its attachment is the one that was asked for last
AnyAnswer(r) == TRUE
StillWanted(r) == wantedAtt = r.att

PreviewReturns(r) ==
  /\ Returned("preview", r)
  /\ IF ~StillWanted(r) THEN UNCHANGED <<cache, previewVars>>
     ELSE /\ loadingAtt' = NoAtt /\ UNCHANGED wantedAtt
          /\ IF r.result = "done"
             THEN /\ cache' = cache \cup {r.att}
                  /\ previewData' = r.att /\ UNCHANGED previewAtt
             ELSE previewAtt' = NoAtt /\ UNCHANGED <<cache, previewData>>
  /\ UNCHANGED <<picked, kept, showing, downloadAtt, picks>>

DownloadReturns(r) ==
  /\ Returned("download", r) /\ downloadAtt' = NoAtt
  /\ UNCHANGED <<picked, kept, showing, cache, previewVars, picks>>

\* deleteAttachment reports its failure itself: the buffer is wiped either way
DeleteReturns(r) ==
  /\ Returned("delete", r)
  /\ showing' = IF r.result = "done" /\ r.entry = picked THEN showing \ {r.att} ELSE showing
  /\ cache' = cache \ {r.att}
  /\ UNCHANGED <<picked, kept, previewVars, downloadAtt, picks>>

\* Another entry is selected, or none (its removal arrived): the cache is wiped,
\* a preview that is open stays.
PickEntry ==
  /\ picks < MaxPicks /\ picks' = picks + 1
  /\ picked' \in ({EntryOf[a] : a \in Atts} \cup {NoAtt}) \ {picked}
  /\ previewAtt # NoAtt => picked' = NoAtt
  /\ showing' = AttsOf(picked') \cap kept
  /\ cache' = {}
  /\ UNCHANGED <<kept, previewVars, downloadAtt, reads>>

AttInit ==
  /\ picked = EntryOf[CHOOSE a \in SmallAtts : TRUE] /\ kept = Atts /\ showing = AttsOf(picked)
  /\ cache = {} /\ wantedAtt = NoAtt /\ previewAtt = NoAtt
  /\ previewData = NoAtt /\ loadingAtt = NoAtt /\ downloadAtt = NoAtt
  /\ reads = {} /\ picks = 0

AttNext ==
  \/ \E a \in Atts : \/ HandlePrefetchAttachment(a) \/ HandlePreviewAttachment(a)
                     \/ HandleDownloadAttachment(a) \/ HandleDeleteAttachment(a)
  \/ HandleClosePreview \/ PickEntry
  \/ \E r \in reads : \/ RunRead(r) \/ PrefetchReturns(r) \/ PreviewReturns(r)
                      \/ DownloadReturns(r) \/ DeleteReturns(r)

AttSpec == AttInit /\ [][AttNext]_attVars

-----------------------------------------------------------------------------
(* Properties.                                                               *)

\* The preview shows the attachment whose name it bears, or a loader for which
\* an answer is on its way, whatever was opened, closed and opened again before.
PreviewMatches ==
  previewAtt # NoAtt =>
    IF previewData = NoAtt
    THEN \E r \in reads : r.op = "preview" /\ r.att = previewAtt
    ELSE previewData = previewAtt

-----------------------------------------------------------------------------
(* What every step keeps, for the proofs: a preview is of the attachment     *)
(* asked for last, until its reading fails.                                  *)

AttInv ==
  /\ \A r \in reads : r \in [n : {r.n}, op : {r.op}, att : {r.att}, entry : {r.entry},
                             result : {"sent", "done", "failed"}]
  /\ previewAtt # NoAtt => wantedAtt = previewAtt
  /\ PreviewMatches

=============================================================================
