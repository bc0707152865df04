------------------------------ MODULE Gateway -------------------------------
(***************************************************************************)
(* The gateway program (test/test.c, test/util.c): a single loop that      *)
(* receives one datagram, copies the sender's record from my_device into   *)
(* node_alt, handles the frame, answers, and copies node_alt back.  One    *)
(* turn of that loop is one action.                                        *)
(***************************************************************************)
EXTENDS Network

CONSTANT Device  \* the nodes listed in device.txt

ASSUME GatewayAssumption == Device \subseteq Node

VARIABLES
  my_device,    \* one record for each listed node
  send_device,  \* the static frame every answer is built in
  addrlen,      \* what recvfrom finds as the length of its address buffer
  issued        \* history: <<device, key>> of each "Generate key16 to" line

gatewayVars == <<my_device, send_device, addrlen, issued>>

DeviceRecord ==
  [authenticated : {"N", "Y"}, num_receive : Count, num_send : Count,
   last_seq : Count, challenge_code : Challenge, key : Key,
   last_data_send : Frame]

GatewayTypeOK ==
  /\ my_device \in [Device -> DeviceRecord]
  /\ send_device \in Frame
  /\ addrlen \in {0, 28}
  /\ issued \in SUBSET (Device \X Key)

\* A record after memset to zero; its fields nobody reads are left out.
NewDevice ==
  [authenticated |-> "N", num_receive |-> 0, num_send |-> 0, last_seq |-> 0,
   challenge_code |-> ZeroChallenge, key |-> ZeroKey, last_data_send |-> Blank]

init_main == [d \in Device |-> NewDevice]

GatewayInit ==
  /\ my_device = init_main
  /\ send_device = Blank
  /\ addrlen = 0
  /\ issued = {}

-----------------------------------------------------------------------------
\* recvfrom is handed the address buffer as its own length.  That word is 0
\* before the first datagram, whose sender is therefore lost, and holds the
\* 28 recvfrom wrote from then on.
checklist_my_device(m) == addrlen = 28 /\ m.from \in Device

check_statedata_rev(m) == m.mode = "ecb"

\* The sender is known and the frame opens with the key its marker calls for.
Parses(m) ==
  /\ m.to = Gw
  /\ checklist_my_device(m)
  /\ IF check_statedata_rev(m) THEN Opens(m, "ecb", KeyBegin)
                               ELSE Opens(m, "cbc", my_device[m.from].key)

IsBegin(m, cmd) == m.frame.state = STATE_BEGIN /\ m.frame.cmd = cmd

IsNormal(m) == m.frame.state = STATE_NORMAL

\* Mutant: the answer goes out to every node in reach.
AnswerToAll(m, f) ==
  /\ send_device' = f
  /\ addrlen' = 28
  /\ \E base \in Delivered(m) : net' = base \cup {ecb_encrypt(Gw, n, f) : n \in Node}

\* sendto back to where the datagram came from.
Answer(m, f) ==
  /\ send_device' = f
  /\ addrlen' = 28
  /\ \E base \in Delivered(m) : net' = Post(base, ecb_encrypt(Gw, m.from, f))

\* The handled copy r goes back into the table.
copy_node2node(d, r) == my_device' = [my_device EXCEPT ![d] = r]

\* The record after its session was forgotten and challenge c sent in f.
Challenged(c, f) ==
  [authenticated |-> "N", num_receive |-> 1, num_send |-> 1, last_seq |-> 0,
   challenge_code |-> c, key |-> ZeroKey, last_data_send |-> f]

\* Mutant: an authenticated device that asks again gets its last answer.
JoinAnswersAgain(m) ==
  /\ Parses(m) /\ IsBegin(m, REQUEST_JOIN)
  /\ IF my_device[m.from].authenticated = "Y"
     THEN Answer(m, my_device[m.from].last_data_send) /\ UNCHANGED my_device
     ELSE \E c \in Challenge :
            LET f == prepare2send(m.from, 0, STATE_BEGIN, REQUEST_HASH, c)
            IN  copy_node2node(m.from, Challenged(c, f)) /\ Answer(m, f)
  /\ UNCHANGED issued

\* REQUEST_JOIN
Join(m) ==
  /\ Parses(m) /\ IsBegin(m, REQUEST_JOIN)
  /\ \E c \in Challenge :
       LET f == prepare2send(m.from, 0, STATE_BEGIN, REQUEST_HASH, c)
       IN  /\ copy_node2node(m.from, Challenged(c, f))
           /\ Answer(m, f)
  /\ UNCHANGED issued

\* Mutant: the frames received are counted on instead of taken from the number.
RepliedCounting(r, seq, f, k) ==
  [authenticated |-> "Y", num_receive |-> Tick(r.num_receive),
   num_send |-> Tick(r.num_send), last_seq |-> seq,
   challenge_code |-> r.challenge_code, key |-> k, last_data_send |-> f]

\* Mutant: the new key stays in node_alt and is not copied back.
RepliedWithOldKey(r, seq, f, k) ==
  [authenticated |-> "Y", num_receive |-> seq, num_send |-> Tick(r.num_send),
   last_seq |-> seq, challenge_code |-> r.challenge_code, key |-> r.key,
   last_data_send |-> f]

\* What every REPLY_HASH ends with, whichever branch chose the answer f.
Replied(r, seq, f, k) ==
  [authenticated |-> "Y", num_receive |-> seq, num_send |-> Tick(r.num_send),
   last_seq |-> seq, challenge_code |-> r.challenge_code, key |-> k,
   last_data_send |-> f]

ReplyWith(m, f, k) ==
  /\ copy_node2node(m.from, Replied(my_device[m.from], m.frame.seq, f, k))
  /\ Answer(m, f)

IsMatch(m) == m.frame.data = Hash[my_device[m.from].challenge_code]

\* Mutant: the key goes out under the command of the challenge.
ReplyMatchAsChallenge(m) ==
  /\ Parses(m) /\ IsBegin(m, REPLY_HASH)
  /\ my_device[m.from].authenticated = "N"
  /\ IsMatch(m)
  /\ \E k \in Key :
       /\ ReplyWith(m, prepare2send(m.from, my_device[m.from].num_send,
                                    STATE_BEGIN, REQUEST_HASH, k), k)
       /\ issued' = issued \cup {<<m.from, k>>}

ReplyMatch(m) ==
  /\ Parses(m) /\ IsBegin(m, REPLY_HASH)
  /\ my_device[m.from].authenticated = "N"
  /\ IsMatch(m)
  /\ \E k \in Key :
       /\ ReplyWith(m, prepare2send(m.from, my_device[m.from].num_send,
                                    STATE_BEGIN, JOIN_SUCCESS, k), k)
       /\ issued' = issued \cup {<<m.from, k>>}

\* A wrong hash skips the key and goes on: the answer is whatever frame
\* send_device still holds, and the device counts as authenticated.
ReplyMismatch(m) ==
  /\ Parses(m) /\ IsBegin(m, REPLY_HASH)
  /\ my_device[m.from].authenticated = "N"
  /\ ~IsMatch(m)
  /\ ReplyWith(m, send_device, my_device[m.from].key)
  /\ UNCHANGED issued

\* The last answer again, under a new sequence number and the old CRC.
Renumbered(d) ==
  [my_device[d].last_data_send EXCEPT !.seq = my_device[d].num_send]

\* Mutant: a duplicate is answered with the last answer to anyone.
ReplyDuplicateStatic(m) ==
  /\ Parses(m) /\ IsBegin(m, REPLY_HASH)
  /\ my_device[m.from].authenticated = "Y"
  /\ ReplyWith(m, send_device, my_device[m.from].key)
  /\ UNCHANGED issued

ReplyDuplicate(m) ==
  /\ Parses(m) /\ IsBegin(m, REPLY_HASH)
  /\ my_device[m.from].authenticated = "Y"
  /\ ReplyWith(m, Renumbered(m.from), my_device[m.from].key)
  /\ UNCHANGED issued

\* A report: the record counts it and remembers its number.
Counted(r, seq) ==
  [authenticated |-> r.authenticated, num_receive |-> Tick(r.num_receive),
   num_send |-> r.num_send, last_seq |-> seq,
   challenge_code |-> r.challenge_code, key |-> r.key,
   last_data_send |-> r.last_data_send]

process_normal(m) ==
  /\ Parses(m) /\ IsNormal(m)
  /\ copy_node2node(m.from, Counted(my_device[m.from], m.frame.seq))
  /\ net' \in Delivered(m)
  /\ UNCHANGED <<send_device, addrlen, issued>>

\* Unknown sender, a frame that does not open, or no case for its command:
\* the loop goes on, with the length recvfrom left behind.
Ignore(m) ==
  /\ m.to = Gw
  /\ ~(Parses(m) /\ (IsNormal(m) \/ IsBegin(m, REQUEST_JOIN)
                                 \/ IsBegin(m, REPLY_HASH)))
  /\ addrlen' = 28
  /\ net' \in Delivered(m)
  /\ UNCHANGED <<my_device, send_device, issued>>

GatewayReceive(m) ==
  \/ Join(m)
  \/ ReplyMatch(m)
  \/ ReplyMismatch(m)
  \/ ReplyDuplicate(m)
  \/ process_normal(m)
  \/ Ignore(m)

\* Nothing is stored: a new run of the program starts from init_main.
Restart ==
  /\ "restart" \in Faults
  /\ my_device' = init_main
  /\ send_device' = Blank
  /\ addrlen' = 0
  /\ UNCHANGED <<issued, net>>
=============================================================================
