------------------------------ MODULE QrScanner ------------------------------
(* The scanner dialog that reads a pairing code or a one-time-password code  *)
(* from the camera or from a picture. Opening a camera, starting its         *)
(* picture, listing the cameras, the hardware detector and the decoding of a *)
(* file all answer later, to a dialog that may have been closed or           *)
(* restarted.                                                                *)
EXTENDS Integers

CONSTANTS Cameras,     \* number of cameras the system lists
          MaxStarts,   \* times the camera is started or stopped
          MaxOpenings, \* times the dialog is opened
          MaxFiles     \* pictures given to the dialog

VARIABLES shown,     \* isOpen
          opening,   \* times it was opened
          request,   \* cameraRequest
          stream,    \* streamRef: the request whose stream it is, 0 for none
          live,      \* streams whose tracks run
          asked,     \* getUserMedia under way
          playing,   \* video.play() under way
          frame,     \* a frame callback is scheduled
          detecting, \* detector.detect() under way: the request of its frame
          selected,  \* selectedCameraId, 0 for none
          listed,    \* cameras: they are known
          listing,   \* enumerateDevices under way: a camera was selected when it was asked
          decoding,  \* pictures being decoded: [request, opening, n]
          files,     \* pictures given so far
          scanned,   \* hasScannedRef
          timer,     \* successTimer: the opening the code was read in, 0 for none
          error,     \* a message covers the picture
          handed     \* codes given to onScan: [read, at], the openings

scanVars == <<shown, opening, request, stream, live, asked, playing, frame, detecting,
              selected, listed, listing, decoding, files, scanned, timer, error,
              handed>>

\* stopCamera: answers to an earlier request no longer count
StopCamera ==
  /\ timer' = 0 /\ frame' = FALSE /\ live' = live \ {stream} /\ stream' = 0

\* startCamera: what runs is stopped and the system is asked for the camera
StartCamera ==
  /\ request < MaxStarts /\ request' = request + 1 /\ StopCamera
  /\ scanned' = FALSE /\ asked' = asked \cup {request'}

\* the effect on [isOpen, selectedCameraId, startCamera]
Restart ==
  IF shown' THEN StartCamera
            ELSE StopCamera /\ request' = request + 1 /\ UNCHANGED <<scanned, asked>>

OpenScanner ==
  /\ ~shown /\ opening < MaxOpenings /\ shown' = TRUE /\ opening' = opening + 1 /\ Restart
  /\ UNCHANGED <<playing, detecting, selected, listed, listing, decoding, files,
                 error, handed>>

\* the backdrop, the cross, or the form that holds the dialog
CloseScanner ==
  /\ shown /\ shown' = FALSE /\ Restart
  /\ UNCHANGED <<opening, playing, detecting, selected, listed, listing, decoding, files,
                 error, handed>>

\* the form renders with another onScan: the effect runs again
ParentRenders ==
  /\ shown /\ UNCHANGED shown /\ Restart
  /\ UNCHANGED <<opening, playing, detecting, selected, listed, listing, decoding, files,
                 error, handed>>

\* the answer of getUserMedia belongs to the request that is current
AnyStreamCounts(r) == TRUE
StreamCounts(r) == r = request

StreamArrives(r) ==
  /\ r \in asked /\ asked' = asked \ {r}
  /\ IF StreamCounts(r)
     THEN stream' = r /\ live' = live \cup {r} /\ playing' = playing \cup {r} /\ error' = FALSE
     ELSE UNCHANGED <<stream, live, playing, error>>     \* its tracks are stopped at once
  /\ UNCHANGED <<shown, opening, request, frame, detecting, selected, listed, listing,
                 decoding, files, scanned, timer, handed>>

\* the camera is refused or missing, or its picture does not start
CameraFails(r) ==
  /\ r \in asked \cup playing /\ asked' = asked \ {r} /\ playing' = playing \ {r}
  /\ IF r = request THEN StopCamera /\ request' = request + 1 /\ error' = TRUE
                    ELSE UNCHANGED <<timer, frame, live, stream, request, error>>
  /\ UNCHANGED <<shown, opening, detecting, selected, listed, listing, decoding, files,
                 scanned, handed>>

\* the picture runs: the cameras are listed and the first frame is scheduled
Plays(r) ==
  /\ r \in playing /\ playing' = playing \ {r}
  /\ IF r = request
     THEN frame' = TRUE /\ listing' = listing \cup {selected # 0}
     ELSE UNCHANGED <<frame, listing>>
  /\ UNCHANGED <<shown, opening, request, stream, live, asked, detecting, selected, listed,
                 decoding, files, scanned, timer, error, handed>>

\* detectCameras: the first camera is selected, unless one was when it was asked;
\* another camera restarts the effect
CamerasListed(had) ==
  /\ had \in listing /\ listing' = listing \ {had} /\ listed' = TRUE
  /\ selected' = (IF had THEN selected ELSE 1)
  /\ UNCHANGED shown
  /\ IF selected' # selected THEN Restart
     ELSE UNCHANGED <<request, stream, live, asked, frame, scanned, timer>>
  /\ UNCHANGED <<opening, playing, detecting, decoding, files, error, handed>>

HandleSwitchCamera ==
  /\ shown /\ listed /\ Cameras > 1 /\ selected' = (selected % Cameras) + 1
  /\ UNCHANGED shown /\ Restart
  /\ UNCHANGED <<opening, playing, detecting, listed, listing, decoding, files,
                 error, handed>>

\* the button of the error message
Retry ==
  /\ shown /\ error /\ StartCamera
  /\ UNCHANGED <<shown, opening, playing, detecting, selected, listed, listing, decoding,
                 files, error, handed>>

\* handleSuccess: the camera stops, and the code is handed over 280 ms later
HandleSuccess(read) ==
  /\ scanned' = TRUE /\ request' = request + 1 /\ frame' = FALSE
  /\ live' = live \ {stream} /\ stream' = 0 /\ timer' = read

\* a frame of the loop: jsQR reads a code, or the detector is asked and the next
\* frame scheduled
ScanLoop ==
  /\ frame
  /\ \/ ~scanned /\ HandleSuccess(opening) /\ UNCHANGED detecting
     \/ /\ ~scanned /\ detecting' = detecting \cup {[request |-> request, opening |-> opening]}
        /\ UNCHANGED <<scanned, request, frame, live, stream, timer>>
  /\ UNCHANGED <<shown, opening, asked, playing, selected, listed, listing, decoding, files,
                 error, handed>>

Detected(d) ==
  /\ d \in detecting /\ detecting' = detecting \ {d}
  /\ IF d.request = request /\ ~scanned THEN HandleSuccess(d.opening)
     ELSE UNCHANGED <<scanned, request, frame, live, stream, timer>>
  /\ UNCHANGED <<shown, opening, asked, playing, selected, listed, listing, decoding, files,
                 error, handed>>

\* handleProcessFile: a picture is chosen, dropped on the dialog or pasted
HandleProcessFile ==
  /\ shown /\ files < MaxFiles /\ files' = files + 1 /\ error' = FALSE
  /\ decoding' = decoding \cup {[request |-> request, opening |-> opening, n |-> files']}
  /\ UNCHANGED <<shown, opening, request, stream, live, asked, playing, frame, detecting,
                 selected, listed, listing, scanned, timer, handed>>
HandleFileChange == HandleProcessFile
HandleDrop == HandleProcessFile
HandlePaste == HandleProcessFile

\* decodeQrFromImage finds a code or none, and isValidPayload takes it or not
DecodeQrFromImage == {"code", "none"}
IsValidPayload(text) == text = "code"

\* the answer counts if the camera was neither stopped nor restarted since; a
\* picture without a valid code is an error message
SameRequest(d) == d.request = request

Decoded(d) ==
  /\ d \in decoding /\ decoding' = decoding \ {d}
  /\ \E text \in DecodeQrFromImage :
       IF SameRequest(d) /\ IsValidPayload(text)
       THEN /\ IF scanned THEN UNCHANGED <<scanned, request, frame, live, stream, timer>>
                          ELSE HandleSuccess(d.opening)
            /\ UNCHANGED error
       ELSE /\ error' = (error \/ SameRequest(d))
            /\ UNCHANGED <<scanned, request, frame, live, stream, timer>>
  /\ UNCHANGED <<shown, opening, asked, playing, detecting, selected, listed, listing, files,
                 handed>>

\* onScan: the form takes the code and closes the dialog
HandOver ==
  /\ timer # 0 /\ timer' = 0 /\ shown' = FALSE
  /\ handed' = handed \cup {[read |-> timer, at |-> IF shown THEN opening ELSE 0]}
  /\ request' = request + 1 /\ frame' = FALSE /\ live' = live \ {stream} /\ stream' = 0
  /\ UNCHANGED <<opening, asked, playing, detecting, selected, listed, listing, decoding,
                 files, scanned, error>>

ScanInit ==
  /\ shown = FALSE /\ opening = 0 /\ request = 0 /\ stream = 0 /\ live = {} /\ asked = {}
  /\ playing = {} /\ frame = FALSE /\ detecting = {} /\ selected = 0 /\ listed = FALSE
  /\ listing = {} /\ decoding = {} /\ files = 0 /\ scanned = FALSE /\ timer = 0
  /\ error = FALSE /\ handed = {}

ScanNext ==
  \/ OpenScanner \/ CloseScanner \/ ParentRenders \/ HandleSwitchCamera \/ Retry \/ ScanLoop
  \/ HandleFileChange \/ HandleDrop \/ HandlePaste \/ HandOver
  \/ \E r \in 1..MaxStarts : StreamArrives(r) \/ CameraFails(r) \/ Plays(r)
  \/ \E had \in BOOLEAN : CamerasListed(had)
  \/ \E d \in detecting : Detected(d)
  \/ \E d \in decoding : Decoded(d)

ScanSpec == ScanInit /\ [][ScanNext]_scanVars

-----------------------------------------------------------------------------
(* Properties.                                                               *)

\* No camera runs that the dialog does not show: whatever was closed, restarted or
\* switched while the system was still opening one, every live stream is the
\* current one and a closed dialog has none (QrScannerModal.tsx 48-61, 159-162).
\* And a code is handed over only in the opening it was read in.
ScannerStops ==
  /\ live \subseteq {stream} /\ (~shown => live = {})
  /\ \A h \in handed : h.read = h.at

-----------------------------------------------------------------------------
(* What every step keeps, for the proofs: what is under way for the current  *)
(* request belongs to the dialog as it is open now.                          *)

Underway ==
  /\ request \in Nat /\ shown \in BOOLEAN
  /\ \A r \in asked \cup playing : r \in Nat /\ r <= request
  /\ \A d \in detecting \cup decoding :
       /\ d.request \in Nat /\ d.request <= request
       /\ d.request = request => shown /\ d.opening = opening

Current ==
  /\ request \in asked => shown /\ live = {}
  /\ request \in playing => shown
  /\ frame => shown
  /\ timer # 0 => shown /\ timer = opening

ScanInv == Underway /\ Current /\ ScannerStops

=============================================================================
