------------------------------- MODULE Config -------------------------------
(***************************************************************************)
(* Configuring the devices of a controller.  A configuration tool shows    *)
(* the entries of one kind of device at a time, loads the file Device.json *)
(* whole, keeps a copy, and sends the whole copy back; the service answers *)
(* from the file system.  Another tool may be connected, of which only its *)
(* updates are modelled; the tool's receiver takes the first piece of an   *)
(* answer for all of it.                                                   *)
(***************************************************************************)
EXTENDS Integers, Sequences

CONSTANTS
  DeviceKind, \* the kinds of devices: the keys of Device.json
  MaxEdits,   \* bound: changes made in a form
  MaxSent,    \* bound: requests sent
  MaxFaults   \* bound: power failures, failing writes, answers in pieces and
              \* updates by another tool

ASSUME ConfigAssumption ==
  DeviceKind # {} /\ {MaxEdits, MaxSent, MaxFaults} \subseteq Nat

VARIABLES
  file,     \* Device.json: the entries of each kind; Empty also if it is cut off
  disk,     \* what of it a power failure leaves
  running,  \* what InitEMS() has read
  rev,      \* history: how often the file has changed
  ui,       \* what the tool shows and keeps
  link,     \* its connection
  up, down, \* the messages on their way to the service and back
  edits, sent, faults

served == <<file, disk, running, rev>>
configVars == <<served, ui, link, up, down, edits, sent, faults>>

(* Entries are numbered by the change that made them, and have the kind    *)
(* that was selected then.                                                 *)
None == [kind |-> "none", edit |-> 0]
Empty == [k \in DeviceKind |-> None]
Installed == [k \in DeviceKind |-> [kind |-> k, edit |-> 0]]

(* A tool that was just started; base and saved are history: the revision  *)
(* of the file it has loaded, and the kinds it has changed since.          *)
FreshTool == [page |-> "connect", known |-> FALSE, cfg |-> Empty, form |-> None,
          kind |-> CHOOSE k \in DeviceKind : TRUE, base |-> -1, saved |-> {}]

(* ... or one that has been connected before, to look at the product. *)
ConfigInit ==
  /\ file = Installed /\ disk = Installed /\ running = Installed /\ rev = 0
  /\ \E known \in BOOLEAN : ui = [FreshTool EXCEPT !.known = known]
  /\ link = "off"
  /\ up = <<>> /\ down = <<>>
  /\ edits = 0 /\ sent = 0 /\ faults = 0
-----------------------------------------------------------------------------
(* DeviceCfgData::SendData(): nothing is sent without a connection. *)
Send(msg) ==
  IF link = "off" THEN UNCHANGED <<up, sent>>
  ELSE /\ sent < MaxSent /\ sent' = sent + 1
       /\ up' = Append(up, msg)

Shown == ui.page = "devices"

Connect ==
  /\ ui.page = "connect" /\ link = "off"
  /\ link' = "on"
  /\ UNCHANGED <<served, ui, up, down, edits, sent, faults>>

(* Dialog: a page asks for its data when it is opened; the one of the      *)
(* devices is for those who have seen which product it is.                 *)
OpenPage(page) ==
  /\ page # ui.page /\ (page = "devices" => ui.known)
  /\ ui' = [ui EXCEPT !.page = page]
  /\ IF page = "connect" THEN UNCHANGED <<up, sent>> ELSE Send([get |-> page])
  /\ UNCHANGED <<served, link, down, edits, faults>>

(* DeviceCfg, on_btn_add_clicked(), on_del_device() *)
Edit ==
  /\ Shown /\ edits < MaxEdits /\ edits' = edits + 1
  /\ ui' = [ui EXCEPT !.form = [kind |-> ui.kind, edit |-> edits']]
  /\ UNCHANGED <<served, link, up, down, sent, faults>>

(* Mutant: the form is kept. *)
ShowsKept(u, k) == [u EXCEPT !.kind = k]
(* on_combo_type_currentIndexChanged(): the form is built from the copy. *)
Shows(u, k) == [u EXCEPT !.kind = k, !.form = u.cfg[k]]

SelectKind(k) ==
  /\ Shown /\ k # ui.kind
  /\ ui' = Shows(ui, k)
  /\ UNCHANGED <<served, link, up, down, edits, sent, faults>>

(* on_btn_save_clicked() *)
Save ==
  /\ Shown
  /\ ui' = [ui EXCEPT !.cfg[ui.kind] = ui.form,
                      !.saved = @ \cup {ui.kind}]
  /\ UNCHANGED <<served, link, up, down, edits, sent, faults>>

(* on_btn_update_clicked() *)
Update ==
  /\ Shown
  /\ Send([set |-> ui.cfg, base |-> ui.base, saved |-> ui.saved])
  /\ UNCHANGED <<served, ui, link, down, edits, faults>>
-----------------------------------------------------------------------------
Answer(answer) ==
  /\ up # <<>> /\ up' = Tail(up)
  /\ down' = Append(down, answer)
  /\ UNCHANGED <<ui, link, edits, sent>>

(* Mutant: the answer is what the service has read at its start. *)
GetRunning ==
  /\ up # <<>> /\ "get" \in DOMAIN Head(up)
  /\ Answer([page |-> Head(up).get, cfg |-> running, rev |-> rev])
  /\ UNCHANGED <<served, faults>>
(* HandSysCfgMsg(): the file is read again for each request. *)
Get ==
  /\ up # <<>> /\ "get" \in DOMAIN Head(up)
  /\ Answer([page |-> Head(up).get, cfg |-> file, rev |-> rev])
  /\ UNCHANGED <<served, faults>>

(* WriteFile() truncates and writes; the result of writing is not looked   *)
(* at.  On a full disk the file is cut off and cannot be parsed.           *)
Done == Answer([page |-> "none"])
Set ==
  /\ up # <<>> /\ "set" \in DOMAIN Head(up)
  /\ file' = Head(up).set /\ rev' = rev + 1
  /\ Done /\ UNCHANGED <<disk, running, faults>>
SetFails ==
  /\ up # <<>> /\ "set" \in DOMAIN Head(up)
  /\ faults < MaxFaults /\ faults' = faults + 1
  /\ \/ file' = Empty /\ rev' = rev + 1
     \/ UNCHANGED <<file, rev>>
  /\ Done /\ UNCHANGED <<disk, running>>

(* The page cache writes back the truncation, then the content. *)
Truncated   == disk # file /\ disk' = Empty /\ UNCHANGED <<file, running, rev>>
WrittenBack == disk # file /\ disk' = file /\ UNCHANGED <<file, running, rev>>
WriteBack ==
  /\ Truncated \/ WrittenBack
  /\ UNCHANGED <<ui, link, up, down, edits, sent, faults>>

(* Power fails, and the service is started again. *)
ServiceRestart ==
  /\ faults < MaxFaults /\ faults' = faults + 1
  /\ file' = disk /\ running' = disk
  /\ rev' = IF file' = file THEN rev ELSE rev + 1
  /\ link' = "off"
  /\ up' = <<>> /\ down' = <<>>
  /\ UNCHANGED <<disk, ui, edits, sent>>
-----------------------------------------------------------------------------
(* HandNetMsg() of the page that is open: others' answers are dropped. *)
Loaded(u, cfg, r) == Shows([u EXCEPT !.cfg = cfg, !.base = r, !.saved = {}], u.kind)
Handled(u, answer) ==
  IF answer.page # u.page THEN u
  ELSE IF u.page = "devices" THEN Loaded(u, answer.cfg, answer.rev)
  ELSE [u EXCEPT !.known = TRUE]

(* CompleteRecv() with one answer in the buffer. *)
Receive ==
  /\ link = "on" /\ down # <<>>
  /\ down' = Tail(down)
  /\ ui' = Handled(ui, Head(down))
  /\ UNCHANGED <<served, link, up, edits, sent, faults>>

(* With two, it waits for ever. *)
ReceiveTwo ==
  /\ link = "on" /\ Len(down) > 1
  /\ link' = "deaf"
  /\ UNCHANGED <<served, ui, up, down, edits, sent, faults>>

(* With the first piece, it reads on behind the buffer, and what it has    *)
(* read is no JSON.                                                        *)
ReceivePiece ==
  /\ link = "on" /\ down # <<>> /\ faults < MaxFaults /\ faults' = faults + 1
  /\ link' = "piece"
  /\ down' = Tail(down)
  /\ ui' = IF Head(down).page = "devices" /\ Shown
           THEN Loaded(ui, Empty, -1) ELSE ui
  /\ UNCHANGED <<served, up, edits, sent>>

(* The rest begins with what is taken for a length: the tool ends, and is  *)
(* started again.                                                          *)
ReceiveRest ==
  /\ link = "piece"
  /\ ui' = FreshTool /\ link' = "off"
  /\ up' = <<>> /\ down' = <<>>
  /\ UNCHANGED <<served, edits, sent, faults>>

(* Another tool, which loaded the file and changed one kind. *)
OtherUpdates(k) ==
  /\ faults < MaxFaults /\ faults' = faults + 1
  /\ file' = [file EXCEPT ![k] = [kind |-> k, edit |-> MaxEdits + 1]]
  /\ rev' = rev + 1
  /\ UNCHANGED <<disk, running, ui, link, up, down, edits, sent>>

ConfigNext ==
  \/ Connect
  \/ \E page \in {"connect", "product", "devices"} : OpenPage(page)
  \/ Edit \/ Save \/ Update
  \/ \E k \in DeviceKind : SelectKind(k)
  \/ Get \/ Set \/ SetFails
  \/ Receive \/ ReceiveTwo \/ ReceivePiece \/ ReceiveRest
  \/ WriteBack \/ ServiceRestart
  \/ \E k \in DeviceKind : OtherUpdates(k)

ConfigSpec == ConfigInit /\ [][ConfigNext]_configVars
-----------------------------------------------------------------------------
(* The entries of one kind of device never get under the key of another,   *)
(* in the file, in what the service runs with, in the tool's copy.         *)
OfItsKind(cfg) == \A k \in DeviceKind : cfg[k].kind \in {k, "none"}
KindsDoNotMix ==
  OfItsKind(file) /\ OfItsKind(running) /\ OfItsKind(ui.cfg)

(* A tool that loaded the file as it is now, whole, changes with its       *)
(* update no kind but those it has saved since.                            *)
UpdateKeepsTheRest ==
  [][Set /\ Head(up).base = rev =>
       \A k \in DeviceKind \ Head(up).saved : file'[k] = file[k]]_configVars
=============================================================================
