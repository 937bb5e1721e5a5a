------------------------- MODULE DaemonSessionsProofs -------------------------
(***************************************************************************)
(* Theorems about DaemonSessions.                                          *)
(***************************************************************************)
EXTENDS DaemonSessions, TLAPS

(* The scripts. *)
Checks == {"free", "path", "moved", "identity", "whole", "same"}
Whats == Checks \cup {"existing", "provided", "new", "connect", "begin", "copy", "bind",
                      "bound", "listen", "chmod", "endpoint", "handshake"}
Steps == [what : Whats, on : Handles]

(* Every entry of s outside the set I is in S. *)
OnlyBut(s, S, I) == \A i \in (1..Len(s)) \ I : s[i] \in S

(* The entries that only look at the files. *)
CheckSteps == {x \in Steps : x.what \in Checks}

(* An entry is a record of a step and a handle. *)
LEMMA DoIs ==
    ASSUME NEW w \in Whats, NEW h \in Handles
    PROVE Do(w, h) \in Steps /\ Do(w, h).what = w /\ Do(w, h).on = h
BY DEF Do, Steps

LEMMA EntryOfScript == ASSUME NEW s \in Seq(Steps), NEW i \in 1..Len(s) PROVE s[i] \in Steps
OBVIOUS

(* u is s and then t. *)
Joined(u, s, t) ==
    /\ u \in Seq(Steps) /\ Len(u) = Len(s) + Len(t)
    /\ \A i \in 1..Len(s) : u[i] = s[i]
    /\ \A i \in 1..Len(t) : u[Len(s) + i] = t[i]

LEMMA Join ==
    ASSUME NEW s \in Seq(Steps), NEW t \in Seq(Steps)
    PROVE Joined(s \o t, s, t)
BY DEF Joined

LEMMA VerifyTargetIs ==
    ASSUME NEW h \in Handles
    PROVE /\ VerifyTarget(h) \in Seq(Steps) /\ Len(VerifyTarget(h)) = 4
          /\ VerifyTarget(h)[1] = Do("path", h) /\ VerifyTarget(h)[2] = Do("moved", h)
          /\ VerifyTarget(h)[3] = Do("path", h) /\ VerifyTarget(h)[4] = Do("moved", h)
          /\ OnlyBut(VerifyTarget(h), CheckSteps, {})
<1>1. /\ Do("path", h) \in Steps /\ Do("moved", h) \in Steps
      /\ Do("path", h).what = "path" /\ Do("moved", h).what = "moved"
    BY DoIs DEF Whats, Checks
<1>2. /\ VerifyTarget(h) \in Seq(Steps) /\ Len(VerifyTarget(h)) = 4
      /\ VerifyTarget(h)[1] = Do("path", h) /\ VerifyTarget(h)[2] = Do("moved", h)
      /\ VerifyTarget(h)[3] = Do("path", h) /\ VerifyTarget(h)[4] = Do("moved", h)
    BY <1>1 DEF VerifyTarget
<1>3. \A i \in 1..4 : i = 1 \/ i = 2 \/ i = 3 \/ i = 4
    OBVIOUS
<1> QED BY <1>1, <1>2, <1>3 DEF OnlyBut, CheckSteps, Checks

LEMMA OpeningIs ==
    ASSUME NEW how \in Whats, NEW h \in Handles
    PROVE /\ Opening(how, h) \in Seq(Steps) /\ Len(Opening(how, h)) = 7
          /\ Opening(how, h)[1] = Do(how, h) /\ Opening(how, h)[2] = Do("path", h)
          /\ Opening(how, h)[3] = Do("connect", h)
          /\ Opening(how, h)[4] = Do("path", h) /\ Opening(how, h)[5] = Do("moved", h)
          /\ Opening(how, h)[6] = Do("path", h) /\ Opening(how, h)[7] = Do("moved", h)
          /\ OnlyBut(Opening(how, h), CheckSteps, {1, 3})
<1> DEFINE a == <<Do(how, h), Do("path", h), Do("connect", h)>>
           b == VerifyTarget(h)
<1>1. /\ Do("path", h) \in Steps /\ Do(how, h) \in Steps /\ Do("connect", h) \in Steps
      /\ Do("path", h).what = "path" /\ Do("moved", h).what = "moved"
    BY DoIs DEF Whats, Checks
<1>2. /\ a \in Seq(Steps) /\ Len(a) = 3
      /\ a[1] = Do(how, h) /\ a[2] = Do("path", h) /\ a[3] = Do("connect", h)
    BY <1>1
<1>3. /\ b \in Seq(Steps) /\ Len(b) = 4
      /\ b[1] = Do("path", h) /\ b[2] = Do("moved", h)
      /\ b[3] = Do("path", h) /\ b[4] = Do("moved", h)
    BY VerifyTargetIs
<1>4. Opening(how, h) = a \o b
    BY DEF Opening
<1>5. Joined(Opening(how, h), a, b)
    BY <1>2, <1>3, <1>4, Join
<1> DEFINE u == Opening(how, h)
<1> HIDE DEF a, b, u
<1>6. /\ u \in Seq(Steps) /\ Len(u) = 7
      /\ u[1] = a[1] /\ u[2] = a[2] /\ u[3] = a[3]
      /\ u[4] = b[1] /\ u[5] = b[2] /\ u[6] = b[3] /\ u[7] = b[4]
    BY <1>2, <1>3, <1>5 DEF Joined, u
<1>7. \A i \in (1..7) \ {1, 3} : i = 2 \/ i = 4 \/ i = 5 \/ i = 6 \/ i = 7
    OBVIOUS
<1>8. OnlyBut(u, CheckSteps, {1, 3})
  <2>1. Do("path", h) \in CheckSteps /\ Do("moved", h) \in CheckSteps
      BY <1>1, DoIs DEF CheckSteps, Checks, Whats
  <2>2. /\ u[2] = Do("path", h) /\ u[4] = Do("path", h) /\ u[5] = Do("moved", h)
        /\ u[6] = Do("path", h) /\ u[7] = Do("moved", h)
      BY <1>2, <1>3, <1>6
  <2>3. \A i \in (1..7) \ {1, 3} : u[i] \in CheckSteps
      BY <1>7, <2>1, <2>2
  <2> QED BY <1>6, <2>3 DEF OnlyBut
<1> QED BY <1>2, <1>3, <1>6, <1>8 DEF u

(* The entries J of a script are entries of K when n entries precede it. *)
Shifted(J, n, K) == \A j \in J : j \in Nat => n + j \in K

LEMMA NothingShifts == \A n, K : Shifted({}, n, K)
BY DEF Shifted

(* Two scripts in a row only look at the files, but for what each does. *)
LEMMA JoinBut ==
    ASSUME NEW s \in Seq(Steps), NEW t \in Seq(Steps), NEW u, Joined(u, s, t),
           NEW I, NEW J, NEW K, NEW S, OnlyBut(s, S, I), OnlyBut(t, S, J),
           I \subseteq K, Shifted(J, Len(s), K)
    PROVE OnlyBut(u, S, K)
<1> SUFFICES ASSUME NEW i \in 1..Len(u), i \notin K PROVE u[i] \in S
    BY DEF OnlyBut
<1>1. CASE i \in 1..Len(s)
    BY <1>1 DEF OnlyBut, Joined
<1>2. CASE i \notin 1..Len(s)
  <2> DEFINE j == i - Len(s)
  <2>1. j \in 1..Len(t) /\ i = Len(s) + j
      BY <1>2 DEF Joined
  <2>2. j \notin J
      BY <2>1 DEF Shifted
  <2> HIDE DEF j
  <2> QED BY <2>1, <2>2 DEF OnlyBut, Joined
<1> QED BY <1>1, <1>2

LEMMA VerifiedIs ==
    ASSUME NEW h \in Handles
    PROVE /\ Verified(h) \in Seq(Steps) /\ Len(Verified(h)) = 11
          /\ Verified(h)[1] = Do("existing", h) /\ Verified(h)[3] = Do("connect", h)
          /\ Verified(h)[8] = Do("identity", h)
          /\ OnlyBut(Verified(h), CheckSteps, {1, 3})
<1> DEFINE a == Opening("existing", h)
           b == <<Do("identity", h), Do("moved", h), Do("whole", h), Do("moved", h)>>
<1>1. /\ Do("identity", h) \in Steps /\ Do("moved", h) \in Steps /\ Do("whole", h) \in Steps
      /\ Do("identity", h).what = "identity" /\ Do("moved", h).what = "moved"
      /\ Do("whole", h).what = "whole"
    BY DoIs DEF Whats, Checks
<1>2. /\ a \in Seq(Steps) /\ Len(a) = 7 /\ a[1] = Do("existing", h)
      /\ a[3] = Do("connect", h) /\ OnlyBut(a, CheckSteps, {1, 3})
    BY OpeningIs DEF Whats
<1>3. /\ b \in Seq(Steps) /\ Len(b) = 4 /\ b[1] = Do("identity", h)
      /\ b[2] = Do("moved", h) /\ b[3] = Do("whole", h) /\ b[4] = Do("moved", h)
    BY <1>1
<1>4. OnlyBut(b, CheckSteps, {})
  <2>1. \A i \in 1..4 : i = 1 \/ i = 2 \/ i = 3 \/ i = 4
      OBVIOUS
  <2> HIDE DEF b
  <2> QED BY <1>1, <1>3, <2>1 DEF OnlyBut, CheckSteps, Checks
<1>5. Joined(Verified(h), a, b)
    BY <1>2, <1>3, Join DEF Verified
<1> DEFINE u == Verified(h)
<1> HIDE DEF a, b, u
<1>6. u \in Seq(Steps) /\ Len(u) = 11 /\ u[1] = a[1] /\ u[3] = a[3] /\ u[8] = b[1]
    BY <1>2, <1>3, <1>5 DEF Joined, u
<1>7. OnlyBut(u, CheckSteps, {1, 3})
    BY <1>2, <1>3, <1>4, <1>5, JoinBut, NothingShifts DEF u
<1> QED BY <1>2, <1>3, <1>6, <1>7 DEF u

LEMMA BackupToIs ==
    /\ BackupTo \in Seq(Steps) /\ Len(BackupTo) = 20
    /\ BackupTo[1] = Do("new", "target") /\ BackupTo[3] = Do("connect", "target")
    /\ BackupTo[4] = Do("path", "target") /\ BackupTo[5] = Do("moved", "target")
    /\ BackupTo[6] = Do("path", "target") /\ BackupTo[7] = Do("moved", "target")
    /\ BackupTo[9] = Do("begin", "target") /\ BackupTo[10] = Do("copy", "target")
    /\ OnlyBut(BackupTo, CheckSteps, {1, 3, 9, 10})
<1> DEFINE a == Opening("new", "target")
           b == <<Do("moved", "source"), Do("begin", "target"), Do("copy", "target"),
                  Do("whole", "target")>>
           c == VerifyTarget("target")
           d == <<Do("same", "target")>>
           ab == a \o b
           abc == ab \o c
           abcd == abc \o d
<1>1. "new" \in Whats /\ "target" \in Handles /\ "source" \in Handles
    BY DEF Whats, Handles
<1>2. /\ Do("moved", "source") \in Steps /\ Do("begin", "target") \in Steps
      /\ Do("copy", "target") \in Steps /\ Do("whole", "target") \in Steps
      /\ Do("same", "target") \in Steps
      /\ Do("moved", "source").what = "moved" /\ Do("whole", "target").what = "whole"
      /\ Do("same", "target").what = "same"
    BY <1>1, DoIs DEF Whats, Checks
<1>3. /\ a \in Seq(Steps) /\ Len(a) = 7 /\ OnlyBut(a, CheckSteps, {1, 3})
      /\ a[1] = Do("new", "target") /\ a[3] = Do("connect", "target")
      /\ a[4] = Do("path", "target") /\ a[5] = Do("moved", "target")
      /\ a[6] = Do("path", "target") /\ a[7] = Do("moved", "target")
    BY <1>1, OpeningIs
<1>4. /\ b \in Seq(Steps) /\ Len(b) = 4 /\ b[1] = Do("moved", "source")
      /\ b[2] = Do("begin", "target") /\ b[3] = Do("copy", "target")
      /\ b[4] = Do("whole", "target")
    BY <1>2
<1>5. c \in Seq(Steps) /\ Len(c) = 4 /\ OnlyBut(c, CheckSteps, {})
    BY <1>1, VerifyTargetIs
<1>6. d \in Seq(Steps) /\ Len(d) = 1 /\ d[1] = Do("same", "target")
    BY <1>2
<1>7. Joined(ab, a, b) /\ ab \in Seq(Steps)
    BY <1>3, <1>4, Join DEF Joined
<1>8. Joined(abc, ab, c) /\ abc \in Seq(Steps)
    BY <1>5, <1>7, Join DEF Joined
<1>9. Joined(abcd, abc, d) /\ abcd \in Seq(Steps)
    BY <1>6, <1>8, Join DEF Joined
<1>10. Joined(BackupTo, abcd, c)
    BY <1>5, <1>9, Join DEF BackupTo
<1> HIDE DEF a, b, c, d, ab, abc, abcd
<1>11. OnlyBut(b, CheckSteps, {2, 3}) /\ OnlyBut(d, CheckSteps, {})
  <2>1. \A i \in (1..4) \ {2, 3} : i = 1 \/ i = 4
      OBVIOUS
  <2> QED BY <1>2, <1>4, <1>6, <2>1 DEF OnlyBut, CheckSteps, Checks
<1>12. /\ Len(ab) = 11 /\ OnlyBut(ab, CheckSteps, {1, 3, 9, 10})
       /\ ab[1] = a[1] /\ ab[3] = a[3] /\ ab[4] = a[4] /\ ab[5] = a[5] /\ ab[6] = a[6]
       /\ ab[7] = a[7] /\ ab[9] = b[2] /\ ab[10] = b[3]
  <2>1. OnlyBut(ab, CheckSteps, {1, 3, 9, 10})
    <3>1. /\ {1, 3} \subseteq {1, 3, 9, 10}
          /\ Shifted({2, 3}, Len(a), {1, 3, 9, 10})
        BY <1>3 DEF Shifted
    <3>2. /\ a \in Seq(Steps) /\ b \in Seq(Steps) /\ Joined(ab, a, b)
          /\ OnlyBut(a, CheckSteps, {1, 3}) /\ OnlyBut(b, CheckSteps, {2, 3})
        BY <1>3, <1>4, <1>7, <1>11
    <3> QED BY <3>1, <3>2, JoinBut
  <2> QED BY <1>3, <1>4, <1>7, <2>1 DEF Joined
<1>13. /\ Len(abc) = 15 /\ OnlyBut(abc, CheckSteps, {1, 3, 9, 10})
       /\ \A i \in 1..11 : abc[i] = ab[i]
  <2>1. OnlyBut(abc, CheckSteps, {1, 3, 9, 10})
      BY <1>5, <1>7, <1>8, <1>12, JoinBut, NothingShifts
  <2> QED BY <1>5, <1>8, <1>12, <2>1 DEF Joined
<1>14. /\ Len(abcd) = 16 /\ OnlyBut(abcd, CheckSteps, {1, 3, 9, 10})
       /\ \A i \in 1..11 : abcd[i] = abc[i]
  <2>1. OnlyBut(abcd, CheckSteps, {1, 3, 9, 10})
      BY <1>6, <1>8, <1>9, <1>11, <1>13, JoinBut, NothingShifts
  <2> QED BY <1>6, <1>9, <1>13, <2>1 DEF Joined
<1>15. /\ BackupTo \in Seq(Steps) /\ Len(BackupTo) = 20
       /\ OnlyBut(BackupTo, CheckSteps, {1, 3, 9, 10})
       /\ \A i \in 1..11 : BackupTo[i] = abcd[i]
  <2>1. OnlyBut(BackupTo, CheckSteps, {1, 3, 9, 10})
      BY <1>5, <1>9, <1>10, <1>14, JoinBut, NothingShifts
  <2> QED BY <1>5, <1>10, <1>14, <2>1 DEF Joined
<1>16. \A i \in 1..11 : BackupTo[i] = ab[i]
    BY <1>13, <1>14, <1>15
<1> QED BY <1>3, <1>4, <1>12, <1>15, <1>16

(* The entries of the copying command that change something, and the       *)
(* checks of the new connection before the first page is copied.           *)
Effects == {2, 4, 13, 15, 21, 22, 33, 35}

LEMMA CopyCommandIs ==
    /\ CopyCommand \in Seq(Steps) /\ Len(CopyCommand) = 43
    /\ OnlyBut(CopyCommand, CheckSteps, Effects)
    /\ CopyCommand[2] = Do("existing", "source") /\ CopyCommand[4] = Do("connect", "source")
    /\ CopyCommand[13] = Do("new", "target") /\ CopyCommand[15] = Do("connect", "target")
    /\ CopyCommand[16] = Do("path", "target") /\ CopyCommand[17] = Do("moved", "target")
    /\ CopyCommand[18] = Do("path", "target") /\ CopyCommand[19] = Do("moved", "target")
    /\ CopyCommand[21] = Do("begin", "target") /\ CopyCommand[22] = Do("copy", "target")
    /\ CopyCommand[33] = Do("existing", "result") /\ CopyCommand[35] = Do("connect", "result")
    /\ CopyCommand[40] = Do("identity", "result")
<1> DEFINE a == <<Do("free", "target")>>
           b == Verified("source")
           c == BackupTo
           d == Verified("result")
           ab == a \o b
           abc == ab \o c
<1>1. "target" \in Handles /\ "source" \in Handles /\ "result" \in Handles
    BY DEF Handles
<1>2. Do("free", "target") \in Steps /\ Do("free", "target").what = "free"
    BY <1>1, DoIs DEF Whats, Checks
<1>3. a \in Seq(Steps) /\ Len(a) = 1 /\ a[1] = Do("free", "target")
    BY <1>2
<1>4. /\ b \in Seq(Steps) /\ Len(b) = 11 /\ OnlyBut(b, CheckSteps, {1, 3})
      /\ b[1] = Do("existing", "source") /\ b[3] = Do("connect", "source")
      /\ d \in Seq(Steps) /\ Len(d) = 11 /\ OnlyBut(d, CheckSteps, {1, 3})
      /\ d[1] = Do("existing", "result") /\ d[3] = Do("connect", "result")
      /\ d[8] = Do("identity", "result")
    BY <1>1, VerifiedIs
<1>5. /\ c \in Seq(Steps) /\ Len(c) = 20 /\ OnlyBut(c, CheckSteps, {1, 3, 9, 10})
      /\ c[1] = Do("new", "target") /\ c[3] = Do("connect", "target")
      /\ c[4] = Do("path", "target") /\ c[5] = Do("moved", "target")
      /\ c[6] = Do("path", "target") /\ c[7] = Do("moved", "target")
      /\ c[9] = Do("begin", "target") /\ c[10] = Do("copy", "target")
    BY BackupToIs
<1>6. Joined(ab, a, b) /\ ab \in Seq(Steps)
    BY <1>3, <1>4, Join DEF Joined
<1>7. Joined(abc, ab, c) /\ abc \in Seq(Steps)
    BY <1>5, <1>6, Join DEF Joined
<1>8. Joined(CopyCommand, abc, d)
    BY <1>4, <1>7, Join DEF CopyCommand
<1> HIDE DEF a, b, c, d, ab, abc
<1>9. OnlyBut(a, CheckSteps, {})
    BY <1>2, <1>3 DEF OnlyBut, CheckSteps, Checks
<1>10. /\ Len(ab) = 12 /\ OnlyBut(ab, CheckSteps, {2, 4})
       /\ ab[2] = b[1] /\ ab[4] = b[3]
  <2>1. OnlyBut(ab, CheckSteps, {2, 4})
    <3>1. Shifted({1, 3}, Len(a), {2, 4})
        BY <1>3 DEF Shifted
    <3>2. /\ a \in Seq(Steps) /\ b \in Seq(Steps) /\ Joined(ab, a, b)
          /\ OnlyBut(a, CheckSteps, {}) /\ OnlyBut(b, CheckSteps, {1, 3})
        BY <1>3, <1>4, <1>6, <1>9
    <3> QED BY <3>1, <3>2, JoinBut
  <2> QED BY <1>3, <1>4, <1>6, <2>1 DEF Joined
<1>11. /\ Len(abc) = 32 /\ OnlyBut(abc, CheckSteps, {2, 4, 13, 15, 21, 22})
       /\ abc[2] = ab[2] /\ abc[4] = ab[4] /\ abc[13] = c[1] /\ abc[15] = c[3]
       /\ abc[16] = c[4] /\ abc[17] = c[5] /\ abc[18] = c[6] /\ abc[19] = c[7]
       /\ abc[21] = c[9] /\ abc[22] = c[10]
  <2>1. OnlyBut(abc, CheckSteps, {2, 4, 13, 15, 21, 22})
    <3>1. /\ {2, 4} \subseteq {2, 4, 13, 15, 21, 22}
          /\ Shifted({1, 3, 9, 10}, Len(ab), {2, 4, 13, 15, 21, 22})
        BY <1>10 DEF Shifted
    <3>2. /\ ab \in Seq(Steps) /\ c \in Seq(Steps) /\ Joined(abc, ab, c)
          /\ OnlyBut(ab, CheckSteps, {2, 4}) /\ OnlyBut(c, CheckSteps, {1, 3, 9, 10})
        BY <1>5, <1>6, <1>7, <1>10
    <3> QED BY <3>1, <3>2, JoinBut
  <2>2. Len(abc) = 32 /\ abc[2] = ab[2] /\ abc[4] = ab[4]
    <3>1. Joined(abc, ab, c) /\ Len(ab) = 12 /\ Len(c) = 20
        BY <1>5, <1>7, <1>10
    <3> QED BY <3>1 DEF Joined
  <2>3. /\ abc[13] = c[1] /\ abc[15] = c[3] /\ abc[16] = c[4] /\ abc[17] = c[5]
        /\ abc[18] = c[6]
      BY <1>5, <1>7, <1>10 DEF Joined
  <2>4. abc[19] = c[7] /\ abc[21] = c[9] /\ abc[22] = c[10]
      BY <1>5, <1>7, <1>10 DEF Joined
  <2> QED BY <2>1, <2>2, <2>3, <2>4
<1>12. /\ CopyCommand \in Seq(Steps) /\ Len(CopyCommand) = 43
       /\ OnlyBut(CopyCommand, CheckSteps, Effects)
       /\ \A i \in 1..32 : CopyCommand[i] = abc[i]
       /\ CopyCommand[33] = d[1] /\ CopyCommand[35] = d[3] /\ CopyCommand[40] = d[8]
  <2>1. OnlyBut(CopyCommand, CheckSteps, Effects)
    <3>1. /\ {2, 4, 13, 15, 21, 22} \subseteq Effects
          /\ Shifted({1, 3}, Len(abc), Effects)
        BY <1>11 DEF Shifted, Effects
    <3>2. /\ abc \in Seq(Steps) /\ d \in Seq(Steps) /\ Joined(CopyCommand, abc, d)
          /\ OnlyBut(abc, CheckSteps, {2, 4, 13, 15, 21, 22}) /\ OnlyBut(d, CheckSteps, {1, 3})
        BY <1>4, <1>7, <1>8, <1>11
    <3> QED BY <3>1, <3>2, JoinBut
  <2> QED BY <1>4, <1>8, <1>11, <2>1 DEF Joined
<1> QED BY <1>4, <1>5, <1>10, <1>11, <1>12

(* What a server does at any place of its script: on the store's name, and *)
(* without a change of its binding, of the connection it serves or of its  *)
(* way to the store.                                                       *)
ServerSteps ==
    {x \in Steps : /\ x.on \in {"lexical", "serving"}
                   /\ \/ x.what \in {"provided", "path", "moved", "identity", "bound"}
                      \/ x.what = "connect" /\ x.on = "lexical"}

LEMMA ServingHandles == "lexical" \in Handles /\ "serving" \in Handles
BY DEF Handles

(* The opening of a server's store. *)
LEMMA OpeningServes ==
    ASSUME NEW h \in {"lexical", "serving"}
    PROVE /\ Opening("provided", h) \in Seq(Steps) /\ Len(Opening("provided", h)) = 7
          /\ Opening("provided", h)[3] = Do("connect", h)
          /\ OnlyBut(Opening("provided", h), ServerSteps, {3})
          /\ h = "lexical" => OnlyBut(Opening("provided", h), ServerSteps, {})
<1> DEFINE u == Opening("provided", h)
<1>1. h \in Handles /\ "provided" \in Whats
    BY ServingHandles DEF Whats
<1>2. /\ u \in Seq(Steps) /\ Len(u) = 7 /\ u[1] = Do("provided", h) /\ u[2] = Do("path", h)
      /\ u[3] = Do("connect", h) /\ u[4] = Do("path", h) /\ u[5] = Do("moved", h)
      /\ u[6] = Do("path", h) /\ u[7] = Do("moved", h)
    BY <1>1, OpeningIs
<1>3. /\ Do("provided", h) \in ServerSteps /\ Do("path", h) \in ServerSteps
      /\ Do("moved", h) \in ServerSteps
      /\ h = "lexical" => Do("connect", h) \in ServerSteps
    BY <1>1, DoIs DEF ServerSteps, Whats, Checks
<1> HIDE DEF u
<1>4. \A i \in 1..7 : i = 1 \/ i = 2 \/ i = 3 \/ i = 4 \/ i = 5 \/ i = 6 \/ i = 7
    OBVIOUS
<1>5. OnlyBut(u, ServerSteps, {3})
    BY <1>2, <1>3, <1>4 DEF OnlyBut
<1>6. h = "lexical" => OnlyBut(u, ServerSteps, {})
    BY <1>2, <1>3, <1>4 DEF OnlyBut
<1> QED BY <1>2, <1>5, <1>6 DEF u

LEMMA BindingVerifyIs ==
    ASSUME NEW h \in {"lexical", "serving"}
    PROVE /\ BindingVerify(h) \in Seq(Steps) /\ Len(BindingVerify(h)) = 2
          /\ OnlyBut(BindingVerify(h), ServerSteps, {})
<1>1. /\ Do("moved", h) \in Steps /\ Do("bound", h) \in Steps
      /\ Do("moved", h) \in ServerSteps /\ Do("bound", h) \in ServerSteps
    BY ServingHandles, DoIs DEF ServerSteps, Whats, Checks
<1>2. /\ BindingVerify(h) \in Seq(Steps) /\ Len(BindingVerify(h)) = 2
      /\ BindingVerify(h)[1] = Do("moved", h) /\ BindingVerify(h)[2] = Do("bound", h)
    BY <1>1 DEF BindingVerify
<1>3. \A i \in 1..2 : i = 1 \/ i = 2
    OBVIOUS
<1> QED BY <1>1, <1>2, <1>3 DEF OnlyBut

LEMMA ConfiguringIs ==
    /\ Configuring \in Seq(Steps) /\ Len(Configuring) = 12
    /\ Configuring[9] = Do("bind", "lexical")
    /\ OnlyBut(Configuring, ServerSteps, {9})
<1> DEFINE a == Opening("provided", "lexical")
           b == <<Do("identity", "lexical"), Do("bind", "lexical"), Do("moved", "lexical")>>
           c == BindingVerify("lexical")
           ab == a \o b
<1>1. /\ Do("identity", "lexical") \in Steps /\ Do("bind", "lexical") \in Steps
      /\ Do("moved", "lexical") \in Steps
      /\ Do("identity", "lexical") \in ServerSteps /\ Do("moved", "lexical") \in ServerSteps
    BY ServingHandles, DoIs DEF ServerSteps, Whats, Checks
<1>2. /\ a \in Seq(Steps) /\ Len(a) = 7 /\ OnlyBut(a, ServerSteps, {})
      /\ c \in Seq(Steps) /\ Len(c) = 2 /\ OnlyBut(c, ServerSteps, {})
    BY OpeningServes, BindingVerifyIs
<1>3. /\ b \in Seq(Steps) /\ Len(b) = 3 /\ b[1] = Do("identity", "lexical")
      /\ b[2] = Do("bind", "lexical") /\ b[3] = Do("moved", "lexical")
    BY <1>1
<1>4. Joined(ab, a, b) /\ ab \in Seq(Steps)
    BY <1>2, <1>3, Join DEF Joined
<1>5. Joined(Configuring, ab, c)
    BY <1>2, <1>4, Join DEF Configuring
<1> HIDE DEF a, b, c, ab
<1>6. OnlyBut(b, ServerSteps, {2})
  <2>1. \A i \in (1..3) \ {2} : i = 1 \/ i = 3
      OBVIOUS
  <2> QED BY <1>1, <1>3, <2>1 DEF OnlyBut
<1>7. Len(ab) = 10 /\ ab[9] = b[2] /\ OnlyBut(ab, ServerSteps, {9})
  <2>1. Shifted({2}, Len(a), {9})
      BY <1>2 DEF Shifted
  <2>2. /\ a \in Seq(Steps) /\ b \in Seq(Steps) /\ Joined(ab, a, b)
        /\ OnlyBut(a, ServerSteps, {}) /\ OnlyBut(b, ServerSteps, {2})
      BY <1>2, <1>3, <1>4, <1>6
  <2>3. OnlyBut(ab, ServerSteps, {9})
      BY <2>1, <2>2, JoinBut
  <2> QED BY <1>2, <1>3, <1>4, <2>3 DEF Joined
<1>8. /\ Configuring \in Seq(Steps) /\ Len(Configuring) = 12 /\ Configuring[9] = ab[9]
      /\ OnlyBut(Configuring, ServerSteps, {9})
  <2>1. OnlyBut(Configuring, ServerSteps, {9})
      BY <1>2, <1>4, <1>5, <1>7, JoinBut, NothingShifts
  <2> QED BY <1>2, <1>5, <1>7, <2>1 DEF Joined
<1> QED BY <1>3, <1>7, <1>8

LEMMA ServingIs ==
    /\ Serving \in Seq(Steps) /\ Len(Serving) = 10
    /\ Serving[3] = Do("connect", "serving")
    /\ OnlyBut(Serving, ServerSteps, {3})
<1> DEFINE a == Opening("provided", "serving")
           b == <<Do("identity", "serving")>>
           c == BindingVerify("serving")
           ab == a \o b
<1>1. Do("identity", "serving") \in Steps /\ Do("identity", "serving") \in ServerSteps
    BY ServingHandles, DoIs DEF ServerSteps, Whats, Checks
<1>2. /\ a \in Seq(Steps) /\ Len(a) = 7 /\ OnlyBut(a, ServerSteps, {3})
      /\ a[3] = Do("connect", "serving")
      /\ c \in Seq(Steps) /\ Len(c) = 2 /\ OnlyBut(c, ServerSteps, {})
    BY OpeningServes, BindingVerifyIs
<1>3. b \in Seq(Steps) /\ Len(b) = 1 /\ b[1] = Do("identity", "serving")
    BY <1>1
<1>4. Joined(ab, a, b) /\ ab \in Seq(Steps)
    BY <1>2, <1>3, Join DEF Joined
<1>5. Joined(Serving, ab, c)
    BY <1>2, <1>4, Join DEF Serving
<1> HIDE DEF a, b, c, ab
<1>6. OnlyBut(b, ServerSteps, {})
    BY <1>1, <1>3 DEF OnlyBut
<1>7. Len(ab) = 8 /\ ab[3] = a[3] /\ OnlyBut(ab, ServerSteps, {3})
  <2>1. OnlyBut(ab, ServerSteps, {3})
      BY <1>2, <1>3, <1>4, <1>6, JoinBut, NothingShifts
  <2> QED BY <1>2, <1>3, <1>4, <2>1 DEF Joined
<1>8. /\ Serving \in Seq(Steps) /\ Len(Serving) = 10 /\ Serving[3] = ab[3]
      /\ OnlyBut(Serving, ServerSteps, {3})
  <2>1. OnlyBut(Serving, ServerSteps, {3})
      BY <1>2, <1>4, <1>5, <1>7, JoinBut, NothingShifts
  <2> QED BY <1>2, <1>5, <1>7, <2>1 DEF Joined
<1> QED BY <1>2, <1>7, <1>8

LEMMA DaemonScriptIs ==
    /\ DaemonScript \in Seq(Steps) /\ Len(DaemonScript) = 24
    /\ DaemonScript[9] = Do("bind", "lexical") /\ DaemonScript[15] = Do("connect", "serving")
    /\ DaemonScript[23] = Do("listen", "serving") /\ DaemonScript[24] = Do("chmod", "serving")
    /\ OnlyBut(DaemonScript, ServerSteps, {9, 15, 23, 24})
<1> DEFINE a == Configuring
           b == Serving
           c == <<Do("listen", "serving"), Do("chmod", "serving")>>
           ab == a \o b
<1>1. Do("listen", "serving") \in Steps /\ Do("chmod", "serving") \in Steps
    BY ServingHandles, DoIs DEF Whats, Checks
<1>2. /\ a \in Seq(Steps) /\ Len(a) = 12 /\ OnlyBut(a, ServerSteps, {9})
      /\ a[9] = Do("bind", "lexical")
      /\ b \in Seq(Steps) /\ Len(b) = 10 /\ OnlyBut(b, ServerSteps, {3})
      /\ b[3] = Do("connect", "serving")
    BY ConfiguringIs, ServingIs
<1>3. /\ c \in Seq(Steps) /\ Len(c) = 2 /\ c[1] = Do("listen", "serving")
      /\ c[2] = Do("chmod", "serving")
    BY <1>1
<1>4. Joined(ab, a, b) /\ ab \in Seq(Steps)
    BY <1>2, Join DEF Joined
<1>5. Joined(DaemonScript, ab, c)
    BY <1>3, <1>4, Join DEF DaemonScript
<1> HIDE DEF a, b, c, ab
<1>6. OnlyBut(c, ServerSteps, {1, 2})
  <2>1. \A i \in (1..2) \ {1, 2} : FALSE
      OBVIOUS
  <2> QED BY <1>3, <2>1 DEF OnlyBut
<1>7. /\ Len(ab) = 22 /\ ab[9] = a[9] /\ ab[15] = b[3]
      /\ OnlyBut(ab, ServerSteps, {9, 15})
  <2>1. {9} \subseteq {9, 15} /\ Shifted({3}, Len(a), {9, 15})
      BY <1>2 DEF Shifted
  <2>2. /\ a \in Seq(Steps) /\ b \in Seq(Steps) /\ Joined(ab, a, b)
        /\ OnlyBut(a, ServerSteps, {9}) /\ OnlyBut(b, ServerSteps, {3})
      BY <1>2, <1>4
  <2>3. OnlyBut(ab, ServerSteps, {9, 15})
      BY <2>1, <2>2, JoinBut
  <2> QED BY <1>2, <1>4, <2>3 DEF Joined
<1>8. /\ DaemonScript \in Seq(Steps) /\ Len(DaemonScript) = 24
      /\ DaemonScript[9] = ab[9] /\ DaemonScript[15] = ab[15]
      /\ DaemonScript[23] = c[1] /\ DaemonScript[24] = c[2]
      /\ OnlyBut(DaemonScript, ServerSteps, {9, 15, 23, 24})
  <2>1. {9, 15} \subseteq {9, 15, 23, 24} /\ Shifted({1, 2}, Len(ab), {9, 15, 23, 24})
      BY <1>7 DEF Shifted
  <2>2. /\ ab \in Seq(Steps) /\ c \in Seq(Steps) /\ Joined(DaemonScript, ab, c)
        /\ OnlyBut(ab, ServerSteps, {9, 15}) /\ OnlyBut(c, ServerSteps, {1, 2})
      BY <1>3, <1>4, <1>5, <1>6, <1>7
  <2>3. OnlyBut(DaemonScript, ServerSteps, {9, 15, 23, 24})
      BY <2>1, <2>2, JoinBut
  <2> QED BY <1>3, <1>5, <1>7, <2>3 DEF Joined
<1> QED BY <1>2, <1>3, <1>7, <1>8

(* The scripts of a client that serves its own session, and of one that    *)
(* found the daemon (or has not looked yet).                               *)
Looking == Configuring \o <<Do("endpoint", "lexical")>>
DirectScript == Looking \o Serving
ProxyScript == Looking \o (<<Do("handshake", "lexical")>> \o BindingVerify("lexical"))

LEMMA LookingIs ==
    /\ Looking \in Seq(Steps) /\ Len(Looking) = 13
    /\ Looking[9] = Do("bind", "lexical") /\ Looking[13] = Do("endpoint", "lexical")
    /\ OnlyBut(Looking, ServerSteps, {9, 13})
<1> DEFINE a == Configuring
           b == <<Do("endpoint", "lexical")>>
<1>1. Do("endpoint", "lexical") \in Steps
    BY ServingHandles, DoIs DEF Whats, Checks
<1>2. /\ a \in Seq(Steps) /\ Len(a) = 12 /\ OnlyBut(a, ServerSteps, {9})
      /\ a[9] = Do("bind", "lexical")
    BY ConfiguringIs
<1>3. b \in Seq(Steps) /\ Len(b) = 1 /\ b[1] = Do("endpoint", "lexical")
    BY <1>1
<1>4. Joined(Looking, a, b)
    BY <1>2, <1>3, Join DEF Looking
<1> HIDE DEF a, b
<1>5. OnlyBut(b, ServerSteps, {1})
    BY <1>3 DEF OnlyBut
<1>6. {9} \subseteq {9, 13} /\ Shifted({1}, Len(a), {9, 13})
    BY <1>2 DEF Shifted
<1>7. /\ a \in Seq(Steps) /\ b \in Seq(Steps) /\ Joined(Looking, a, b)
      /\ OnlyBut(a, ServerSteps, {9}) /\ OnlyBut(b, ServerSteps, {1})
    BY <1>2, <1>3, <1>4, <1>5
<1>8. OnlyBut(Looking, ServerSteps, {9, 13})
    BY <1>6, <1>7, JoinBut
<1> QED BY <1>2, <1>3, <1>4, <1>8 DEF Joined

LEMMA DirectScriptIs ==
    /\ DirectScript \in Seq(Steps) /\ Len(DirectScript) = 23
    /\ DirectScript[9] = Do("bind", "lexical") /\ DirectScript[13] = Do("endpoint", "lexical")
    /\ DirectScript[16] = Do("connect", "serving")
    /\ OnlyBut(DirectScript, ServerSteps, {9, 13, 16})
<1>1. Joined(DirectScript, Looking, Serving)
    BY LookingIs, ServingIs, Join DEF DirectScript
<1>2. {9, 13} \subseteq {9, 13, 16} /\ Shifted({3}, Len(Looking), {9, 13, 16})
    BY LookingIs DEF Shifted
<1>3. /\ Looking \in Seq(Steps) /\ Serving \in Seq(Steps)
      /\ OnlyBut(Looking, ServerSteps, {9, 13}) /\ OnlyBut(Serving, ServerSteps, {3})
    BY LookingIs, ServingIs
<1>4. OnlyBut(DirectScript, ServerSteps, {9, 13, 16})
    BY <1>1, <1>2, <1>3, JoinBut
<1> QED BY <1>1, <1>4, LookingIs, ServingIs DEF Joined

LEMMA ProxyScriptIs ==
    /\ ProxyScript \in Seq(Steps) /\ Len(ProxyScript) = 16
    /\ ProxyScript[9] = Do("bind", "lexical") /\ ProxyScript[13] = Do("endpoint", "lexical")
    /\ ProxyScript[14] = Do("handshake", "lexical")
    /\ OnlyBut(ProxyScript, ServerSteps, {9, 13, 14})
<1> DEFINE a == <<Do("handshake", "lexical")>>
           b == BindingVerify("lexical")
           ab == a \o b
<1>1. Do("handshake", "lexical") \in Steps
    BY ServingHandles, DoIs DEF Whats, Checks
<1>2. a \in Seq(Steps) /\ Len(a) = 1 /\ a[1] = Do("handshake", "lexical")
    BY <1>1
<1>3. b \in Seq(Steps) /\ Len(b) = 2 /\ OnlyBut(b, ServerSteps, {})
    BY BindingVerifyIs
<1>4. Joined(ab, a, b) /\ ab \in Seq(Steps)
    BY <1>2, <1>3, Join DEF Joined
<1>5. Joined(ProxyScript, Looking, ab)
    BY <1>4, LookingIs, Join DEF ProxyScript
<1> HIDE DEF a, b, ab
<1>6. OnlyBut(a, ServerSteps, {1})
    BY <1>2 DEF OnlyBut
<1>7. Len(ab) = 3 /\ ab[1] = a[1] /\ OnlyBut(ab, ServerSteps, {1})
  <2>1. OnlyBut(ab, ServerSteps, {1})
      BY <1>2, <1>3, <1>4, <1>6, JoinBut, NothingShifts
  <2> QED BY <1>2, <1>3, <1>4, <2>1 DEF Joined
<1>8. {9, 13} \subseteq {9, 13, 14} /\ Shifted({1}, Len(Looking), {9, 13, 14})
    BY LookingIs DEF Shifted
<1>9. /\ Looking \in Seq(Steps) /\ ab \in Seq(Steps)
      /\ OnlyBut(Looking, ServerSteps, {9, 13}) /\ OnlyBut(ab, ServerSteps, {1})
    BY <1>4, <1>7, LookingIs
<1>10. OnlyBut(ProxyScript, ServerSteps, {9, 13, 14})
    BY <1>5, <1>8, <1>9, JoinBut
<1> QED BY <1>2, <1>5, <1>7, <1>10, LookingIs DEF Joined

LEMMA ScriptOfIs ==
    ASSUME NEW p \in Servers
    PROVE ScriptOf(p) = IF p = Daemon THEN DaemonScript
                        ELSE IF link[p] = "direct" THEN DirectScript ELSE ProxyScript
BY DEF ScriptOf, DirectScript, ProxyScript, Looking

LEMMA LengthIs ==
    ASSUME NEW p \in Servers
    PROVE Len(ScriptOf(p)) = IF p = Daemon THEN 24 ELSE IF link[p] = "direct" THEN 23 ELSE 16
<1>1. CASE p = Daemon
  <2>1. ScriptOf(p) = DaemonScript
      BY <1>1, ScriptOfIs
  <2> QED BY <1>1, <2>1, DaemonScriptIs
<1>2. CASE p # Daemon /\ link[p] = "direct"
  <2>1. ScriptOf(p) = DirectScript
      BY <1>2, ScriptOfIs
  <2> QED BY <1>2, <2>1, DirectScriptIs
<1>3. CASE p # Daemon /\ link[p] # "direct"
  <2>1. ScriptOf(p) = ProxyScript
      BY <1>3, ScriptOfIs
  <2> QED BY <1>3, <2>1, ProxyScriptIs
<1> QED BY <1>1, <1>2, <1>3
-----------------------------------------------------------------------------
(* What a step does to the files and to the handles. *)
Same == UNCHANGED <<entry, content, opened, conn>>

Opens(p, h) ==
    /\ opened' = [opened EXCEPT ![p][h] = entry[NameOf(h)]]
    /\ UNCHANGED <<entry, content, conn>>

Makes(p, h, v) ==
    /\ entry[NameOf(h)] = Null
    /\ \E f \in Unused :
          /\ entry' = [entry EXCEPT ![NameOf(h)] = f]
          /\ content' = [content EXCEPT ![f] = v]
          /\ opened' = [opened EXCEPT ![p][h] = f]
    /\ UNCHANGED conn

Connects(p, h) ==
    /\ entry[NameOf(h)] # Null
    /\ conn' = [conn EXCEPT ![p][h] = entry[NameOf(h)]]
    /\ UNCHANGED <<entry, content, opened>>

Begins(p, h) ==
    /\ content' = [content EXCEPT ![conn[p][h]] = [@ EXCEPT !.whole = FALSE]]
    /\ UNCHANGED <<entry, opened, conn>>

Copies(p, h) ==
    /\ content' = [content EXCEPT ![conn[p][h]] = content[conn[p]["source"]]]
    /\ UNCHANGED <<entry, opened, conn>>

LEMMA TouchIs ==
    ASSUME NEW p \in Processes, NEW do \in Steps, Passes(p, do), Touch(p, do)
    PROVE /\ do.what \in Checks => Same
          /\ do.what = "existing" => Opens(p, do.on) /\ entry[NameOf(do.on)] # Null
          /\ do.what = "provided" =>
                 Opens(p, do.on) \/ Makes(p, do.on, Fresh(Configured))
          /\ do.what = "new" => Makes(p, do.on, Blank)
          /\ do.what = "connect" => Connects(p, do.on)
          /\ do.what = "begin" => Begins(p, do.on)
          /\ do.what = "copy" => Copies(p, do.on)
<1>1. do.what \in Checks => Same
    BY DEF Touch, Creates, Checks, Same
<1>2. do.what = "existing" => Opens(p, do.on) /\ entry[NameOf(do.on)] # Null
    BY DEF Touch, Creates, Opens, Named, Passes
<1>3. do.what = "provided" => Opens(p, do.on) \/ Makes(p, do.on, Fresh(Configured))
  <2> SUFFICES ASSUME do.what = "provided"
               PROVE Opens(p, do.on) \/ Makes(p, do.on, Fresh(Configured))
      OBVIOUS
  <2>1. CASE Creates(do)
      BY <2>1 DEF Touch, Creates, Makes, Named, NewContent
  <2>2. CASE ~Creates(do)
      BY <2>2 DEF Touch, Creates, Opens, Named
  <2> QED BY <2>1, <2>2
<1>4. do.what = "new" => Makes(p, do.on, Blank)
    BY DEF Touch, Creates, Makes, Named, NewContent, Passes
<1>5. do.what = "connect" => Connects(p, do.on)
    BY DEF Touch, Creates, Connects, Named, Passes
<1>6. do.what = "begin" => Begins(p, do.on)
    BY DEF Touch, Creates, Begins
<1>7. do.what = "copy" => Copies(p, do.on)
    BY DEF Touch, Creates, Copies
<1> QED BY <1>1, <1>2, <1>3, <1>4, <1>5, <1>6, <1>7

(* What a step of the copying command does, by its place. *)
CopyEffect(i) ==
    \/ i = 2 /\ Opens(Maintenance, "source")
    \/ i = 4 /\ Connects(Maintenance, "source")
    \/ i = 13 /\ Makes(Maintenance, "target", Blank)
    \/ i = 15 /\ Connects(Maintenance, "target")
    \/ i = 21 /\ Begins(Maintenance, "target")
    \/ i = 22 /\ Copies(Maintenance, "target")
    \/ i = 33 /\ Opens(Maintenance, "result") /\ entry["copy"] # Null
    \/ i = 35 /\ Connects(Maintenance, "result")
    \/ /\ i \notin Effects /\ Same
       /\ i \in {16, 18} => entry["copy"] = opened[Maintenance]["target"]
       /\ i \in {17, 19} => entry["copy"] = conn[Maintenance]["target"]
       /\ i = 40 => /\ content[conn[Maintenance]["result"]].whole
                    /\ content[conn[Maintenance]["result"]].identity = Configured

CopyGoesOn ==
    /\ Maintenance \notin failed /\ at[Maintenance] \in 1..43
    /\ CopyEffect(at[Maintenance])
    /\ at' = [at EXCEPT ![Maintenance] = @ + 1]
    /\ UNCHANGED <<endpoint, failed, moves, writes>>

CopyFails ==
    /\ Maintenance \notin failed /\ at[Maintenance] \in 1..43
    /\ at[Maintenance] = 33 => entry["copy"] = Null
    /\ failed' = failed \cup {Maintenance}
    /\ entry' = IF at[Maintenance] \in 13..32 /\ opened[Maintenance]["target"] # Null
                  THEN [entry EXCEPT !["copy"] = Null] ELSE entry
    /\ UNCHANGED <<endpoint, content, at, opened, conn, moves, writes>>

LEMMA CopyStepIs ==
    ASSUME at[Maintenance] \in Nat, at[Maintenance] >= 1, CopyStep
    PROVE CopyGoesOn \/ CopyFails
<1> DEFINE m == Maintenance
           i == at[m]
           do == CopyCommand[i]
<1>1. i \in 1..43 /\ m \notin failed /\ m \in Processes
  <2>1. Len(CopyCommand) = 43
      BY CopyCommandIs
  <2> QED BY <2>1 DEF CopyStep, Finished, Processes
<1>2. do \in Steps
  <2>1. CopyCommand \in Seq(Steps) /\ Len(CopyCommand) = 43
      BY CopyCommandIs
  <2> QED BY <1>1, <2>1, EntryOfScript
<1>3. do = StepOf(m)
    BY DEF StepOf
<1>4. /\ "target" \in Handles /\ "source" \in Handles /\ "result" \in Handles
      /\ NameOf("target") = "copy" /\ NameOf("result") = "copy"
    BY DEF Handles, NameOf
<1>5. ASSUME Advance(m, do) PROVE CopyGoesOn
  <2>1. Passes(m, do) /\ Touch(m, do)
      BY <1>5 DEF Advance
  <2>2. CASE i \in Effects
    <3>1. i = 2 => Opens(m, "source")
      <4>1. i = 2 => do = Do("existing", "source")
          BY CopyCommandIs
      <4>2. Do("existing", "source").what = "existing" /\ Do("existing", "source").on = "source"
          BY <1>4, DoIs DEF Whats, Checks
      <4> QED BY <1>1, <1>2, <2>1, <4>1, <4>2, TouchIs
    <3>2. i = 4 => Connects(m, "source")
      <4>1. i = 4 => do = Do("connect", "source")
          BY CopyCommandIs
      <4>2. Do("connect", "source").what = "connect" /\ Do("connect", "source").on = "source"
          BY <1>4, DoIs DEF Whats, Checks
      <4> QED BY <1>1, <1>2, <2>1, <4>1, <4>2, TouchIs
    <3>3. i = 13 => Makes(m, "target", Blank)
      <4>1. i = 13 => do = Do("new", "target")
          BY CopyCommandIs
      <4>2. Do("new", "target").what = "new" /\ Do("new", "target").on = "target"
          BY <1>4, DoIs DEF Whats, Checks
      <4> QED BY <1>1, <1>2, <2>1, <4>1, <4>2, TouchIs
    <3>4. i = 15 => Connects(m, "target")
      <4>1. i = 15 => do = Do("connect", "target")
          BY CopyCommandIs
      <4>2. Do("connect", "target").what = "connect" /\ Do("connect", "target").on = "target"
          BY <1>4, DoIs DEF Whats, Checks
      <4> QED BY <1>1, <1>2, <2>1, <4>1, <4>2, TouchIs
    <3>5. i = 21 => Begins(m, "target")
      <4>1. i = 21 => do = Do("begin", "target")
          BY CopyCommandIs
      <4>2. Do("begin", "target").what = "begin" /\ Do("begin", "target").on = "target"
          BY <1>4, DoIs DEF Whats, Checks
      <4> QED BY <1>1, <1>2, <2>1, <4>1, <4>2, TouchIs
    <3>6. i = 22 => Copies(m, "target")
      <4>1. i = 22 => do = Do("copy", "target")
          BY CopyCommandIs
      <4>2. Do("copy", "target").what = "copy" /\ Do("copy", "target").on = "target"
          BY <1>4, DoIs DEF Whats, Checks
      <4> QED BY <1>1, <1>2, <2>1, <4>1, <4>2, TouchIs
    <3>7. i = 33 => Opens(m, "result") /\ entry["copy"] # Null
      <4>1. i = 33 => do = Do("existing", "result")
          BY CopyCommandIs
      <4>2. Do("existing", "result").what = "existing" /\ Do("existing", "result").on = "result"
          BY <1>4, DoIs DEF Whats, Checks
      <4> QED BY <1>1, <1>2, <1>4, <2>1, <4>1, <4>2, TouchIs
    <3>8. i = 35 => Connects(m, "result")
      <4>1. i = 35 => do = Do("connect", "result")
          BY CopyCommandIs
      <4>2. Do("connect", "result").what = "connect" /\ Do("connect", "result").on = "result"
          BY <1>4, DoIs DEF Whats, Checks
      <4> QED BY <1>1, <1>2, <2>1, <4>1, <4>2, TouchIs
    <3>9. CopyEffect(i)
        BY <2>2, <3>1, <3>2, <3>3, <3>4, <3>5, <3>6, <3>7, <3>8 DEF Effects, CopyEffect
    <3> QED BY <1>1, <1>5, <3>9 DEF CopyGoesOn, Advance
  <2>3. CASE i \notin Effects
    <3>1. do.what \in Checks
        BY <1>1, <2>3, CopyCommandIs DEF OnlyBut, CheckSteps
    <3>2. Same
        BY <1>1, <1>2, <2>1, <3>1, TouchIs
    <3>3. i \in {16, 18} => entry["copy"] = opened[m]["target"]
      <4> SUFFICES ASSUME i \in {16, 18} PROVE entry["copy"] = opened[m]["target"]
          OBVIOUS
      <4>1. do.what = "path" /\ do.on = "target"
          BY <1>4, CopyCommandIs, DoIs DEF Whats, Checks
      <4> QED BY <1>4, <2>1, <4>1 DEF Passes, Named
    <3>4. i \in {17, 19} => entry["copy"] = conn[m]["target"]
      <4> SUFFICES ASSUME i \in {17, 19} PROVE entry["copy"] = conn[m]["target"]
          OBVIOUS
      <4>1. do.what = "moved" /\ do.on = "target"
          BY <1>4, CopyCommandIs, DoIs DEF Whats, Checks
      <4> QED BY <1>4, <2>1, <4>1 DEF Passes, Named
    <3>5. i = 40 => /\ content[conn[m]["result"]].whole
                    /\ content[conn[m]["result"]].identity = Configured
      <4> SUFFICES ASSUME i = 40
                   PROVE /\ content[conn[m]["result"]].whole
                         /\ content[conn[m]["result"]].identity = Configured
          OBVIOUS
      <4>1. do.what = "identity" /\ do.on = "result"
          BY <1>4, CopyCommandIs, DoIs DEF Whats, Checks
      <4> QED BY <2>1, <4>1 DEF Passes
    <3>6. CopyEffect(i)
        BY <2>3, <3>2, <3>3, <3>4, <3>5 DEF CopyEffect
    <3> QED BY <1>1, <1>5, <3>6 DEF CopyGoesOn, Advance
  <2> QED BY <2>2, <2>3
<1>6. ASSUME \/ ~Passes(m, do)
             \/ do.what \in {"begin", "copy"},
             Fail(m), Cleanup(m),
             UNCHANGED <<endpoint, content, at, opened, conn, moves, writes>>
      PROVE CopyFails
  <2>1. i = 33 => entry["copy"] = Null
    <3> SUFFICES ASSUME i = 33 PROVE entry["copy"] = Null
        OBVIOUS
    <3>1. do.what = "existing" /\ do.on = "result"
        BY <1>4, CopyCommandIs, DoIs DEF Whats, Checks
    <3> QED BY <1>4, <1>6, <3>1 DEF Passes, Named
  <2>2. InBackup(m) <=> i \in 13..32
    <3> DEFINE n == Len(Verified("source"))
               k == Len(BackupTo)
    <3>1. n = 11
        BY <1>4, VerifiedIs
    <3>2. k = 20
        BY BackupToIs
    <3>3. InBackup(m) <=> i > 1 + n /\ i <= 1 + n + k
        BY DEF InBackup
    <3> HIDE DEF i, n, k
    <3> QED BY <1>1, <3>1, <3>2, <3>3
  <2> QED BY <1>1, <1>6, <2>1, <2>2 DEF CopyFails, Fail, Cleanup
<1> QED BY <1>3, <1>5, <1>6 DEF CopyStep

(* The places of a server's script that do more than ServerSteps. *)
Special(p) ==
    IF p = Daemon THEN {9, 15, 23, 24}
    ELSE IF link[p] = "direct" THEN {9, 13, 16} ELSE {9, 13, 14}

EntryAt(p, i, do) ==
    \/ i \notin Special(p) /\ do \in ServerSteps
    \/ i = 9 /\ do = Do("bind", "lexical")
    \/ /\ do = Do("connect", "serving")
       /\ IF p = Daemon THEN i = 15 ELSE i = 16 /\ link[p] = "direct"
    \/ p = Daemon /\ i = 23 /\ do = Do("listen", "serving")
    \/ p = Daemon /\ i = 24 /\ do = Do("chmod", "serving")
    \/ p \in Clients /\ i = 13 /\ do = Do("endpoint", "lexical")
    \/ p \in Clients /\ i = 14 /\ link[p] # "direct" /\ do = Do("handshake", "lexical")

LEMMA EntryIs ==
    ASSUME NEW p \in Servers, NEW i \in 1..Len(ScriptOf(p))
    PROVE EntryAt(p, i, ScriptOf(p)[i])
<1>1. CASE p = Daemon
  <2>1. ScriptOf(p) = DaemonScript
      BY <1>1, ScriptOfIs
  <2>2. i \in {9, 15, 23, 24} => EntryAt(p, i, DaemonScript[i])
      BY <1>1, DaemonScriptIs DEF EntryAt
  <2>3. i \notin {9, 15, 23, 24} => DaemonScript[i] \in ServerSteps
      BY <2>1, DaemonScriptIs DEF OnlyBut
  <2> QED BY <1>1, <2>1, <2>2, <2>3 DEF EntryAt, Special
<1>2. CASE p # Daemon /\ link[p] = "direct"
  <2>1. ScriptOf(p) = DirectScript /\ p \in Clients
      BY <1>2, ScriptOfIs DEF Clients
  <2>2. i \in {9, 13, 16} => EntryAt(p, i, DirectScript[i])
      BY <1>2, <2>1, DirectScriptIs DEF EntryAt
  <2>3. i \notin {9, 13, 16} => DirectScript[i] \in ServerSteps
      BY <2>1, DirectScriptIs DEF OnlyBut
  <2> QED BY <1>2, <2>1, <2>2, <2>3 DEF EntryAt, Special
<1>3. CASE p # Daemon /\ link[p] # "direct"
  <2>1. ScriptOf(p) = ProxyScript /\ p \in Clients
      BY <1>3, ScriptOfIs DEF Clients
  <2>2. i \in {9, 13, 14} => EntryAt(p, i, ProxyScript[i])
      BY <1>3, <2>1, ProxyScriptIs DEF EntryAt
  <2>3. i \notin {9, 13, 14} => ProxyScript[i] \in ServerSteps
      BY <2>1, ProxyScriptIs DEF OnlyBut
  <2> QED BY <1>3, <2>1, <2>2, <2>3 DEF EntryAt, Special
<1> QED BY <1>1, <1>2, <1>3

(* What a step of a server's start does, by its place. *)
ServerEffect(p) ==
    \/ /\ at[p] \notin Special(p)
       /\ \/ Same
          \/ \E h \in {"lexical", "serving"} : Opens(p, h) \/ Makes(p, h, Fresh(Configured))
          \/ Connects(p, "lexical")
       /\ UNCHANGED <<endpoint, binding, sessions>>
    \/ /\ at[p] = 9
       /\ binding' = [binding EXCEPT ![p] = entry["store"]]
       /\ Same /\ UNCHANGED <<endpoint, sessions>>
    \/ /\ IF p = Daemon THEN at[p] = 15 ELSE at[p] = 16 /\ link[p] = "direct"
       /\ Connects(p, "serving")
       /\ UNCHANGED <<endpoint, binding, sessions>>
    \/ /\ p = Daemon /\ at[p] = 23
       /\ endpoint' = [endpoint EXCEPT !["store"] = "wide"]
       /\ Same /\ UNCHANGED <<binding, sessions>>
    \/ /\ p = Daemon /\ at[p] = 24
       /\ endpoint' = [endpoint EXCEPT !["store"] = "private"]
       /\ Same /\ UNCHANGED <<binding, sessions>>
    \/ /\ p \in Clients /\ at[p] = 13
       /\ \/ /\ link' = [link EXCEPT ![p] = "direct"]
             /\ session' = [session EXCEPT ![p] = "idle"]
          \/ /\ endpoint["store"] = "private"
             /\ link' = [link EXCEPT ![p] = "proxy"]
             /\ session' = [session EXCEPT ![p] = "asked"]
       /\ Same /\ UNCHANGED <<endpoint, binding, sent, answered, eof, since, lock>>
    \/ /\ p \in Clients /\ at[p] = 14 /\ link[p] # "direct" /\ session[p] = "idle"
       /\ Same /\ UNCHANGED <<endpoint, binding, sessions>>

ServerGoesOn(p) ==
    /\ p \in cast \ failed /\ at[p] \in 1..Len(ScriptOf(p))
    /\ ServerEffect(p)
    /\ at' = [at EXCEPT ![p] = @ + 1]
    /\ UNCHANGED <<failed, moves, writes, cast>>

LEMMA StartStepIs ==
    ASSUME NEW p \in Servers, at[p] \in Nat, at[p] >= 1, StartStep(p)
    PROVE ServerGoesOn(p) \/ (p \in cast \ failed /\ GiveUp(p) /\ UNCHANGED cast)
<1> DEFINE do == ScriptOf(p)[at[p]]
<1>1. /\ p \in cast \ failed /\ at[p] \in 1..Len(ScriptOf(p)) /\ p \in Processes
      /\ UNCHANGED cast
  <2>1. Len(ScriptOf(p)) \in Nat
      BY ScriptOfIs, DaemonScriptIs, DirectScriptIs, ProxyScriptIs
  <2> QED BY <2>1 DEF StartStep, Running, Ready, Processes
<1>2. \/ Allowed(p, do) /\ Perform(p, do)
      \/ GiveUp(p)
    BY DEF StartStep
<1>3. EntryAt(p, at[p], do)
    BY <1>1, EntryIs
<1>4. ASSUME Allowed(p, do), Perform(p, do) PROVE ServerGoesOn(p)
  <2> HIDE DEF do
  <2> USE <1>4
  <2>1. CASE at[p] \notin Special(p) /\ do \in ServerSteps
    <3>1. do \in Steps /\ do.on \in {"lexical", "serving"}
        BY <2>1 DEF ServerSteps
    <3>2. CASE do.what = "bound"
        BY <1>1, <2>1, <3>2 DEF Perform, Here, FileStep, ServerGoesOn, ServerEffect, Same
    <3>3. CASE do.what # "bound"
      <4>1. \/ do.what \in {"provided", "path", "moved", "identity"}
            \/ do.what = "connect" /\ do.on = "lexical"
          BY <2>1, <3>3 DEF ServerSteps
      <4>2. Advance(p, do) /\ UNCHANGED <<binding, sessions>>
        <5>1. do.what \notin {"bind", "bound", "listen", "chmod", "endpoint", "handshake"}
            BY <4>1
        <5> QED BY <5>1 DEF Perform
      <4>3. Passes(p, do) /\ Touch(p, do)
          BY <4>2 DEF Advance
      <4>4. \/ Same
            \/ \E h \in {"lexical", "serving"} : Opens(p, h) \/ Makes(p, h, Fresh(Configured))
            \/ Connects(p, "lexical")
          BY <1>1, <3>1, <4>1, <4>3, TouchIs DEF Checks
      <4> QED BY <1>1, <2>1, <4>2, <4>4 DEF Advance, ServerGoesOn, ServerEffect
    <3> QED BY <3>2, <3>3
  <2>2. CASE at[p] = 9 /\ do = Do("bind", "lexical")
    <3>1. do.what = "bind"
        BY <2>2 DEF Do
    <3> QED BY <1>1, <2>2, <3>1 DEF Perform, Here, FileStep, ServerGoesOn, ServerEffect, Same
  <2>3. CASE /\ do = Do("connect", "serving")
             /\ IF p = Daemon THEN at[p] = 15 ELSE at[p] = 16 /\ link[p] = "direct"
    <3>1. do \in Steps /\ do.what = "connect" /\ do.on = "serving"
        BY <2>3, DoIs, ServingHandles DEF Whats
    <3>2. Advance(p, do) /\ UNCHANGED <<binding, sessions>>
        BY <3>1 DEF Perform
    <3>3. Passes(p, do) /\ Touch(p, do)
        BY <3>2 DEF Advance
    <3>4. Connects(p, "serving")
        BY <1>1, <3>1, <3>3, TouchIs
    <3> QED BY <1>1, <2>3, <3>2, <3>4 DEF Advance, ServerGoesOn, ServerEffect
  <2>4. CASE p = Daemon /\ at[p] = 23 /\ do = Do("listen", "serving")
    <3>1. do.what = "listen"
        BY <2>4 DEF Do
    <3> QED BY <1>1, <2>4, <3>1 DEF Perform, Here, FileStep, ServerGoesOn, ServerEffect, Same
  <2>5. CASE p = Daemon /\ at[p] = 24 /\ do = Do("chmod", "serving")
    <3>1. do.what = "chmod"
        BY <2>5 DEF Do
    <3> QED BY <1>1, <2>5, <3>1 DEF Perform, Here, FileStep, ServerGoesOn, ServerEffect, Same
  <2>6. CASE p \in Clients /\ at[p] = 13 /\ do = Do("endpoint", "lexical")
    <3>1. do.what = "endpoint"
        BY <2>6 DEF Do
    <3> QED BY <1>1, <2>6, <3>1 DEF Perform, Here, FileStep, ServerGoesOn, ServerEffect, Same
  <2>7. CASE /\ p \in Clients /\ at[p] = 14 /\ link[p] # "direct"
             /\ do = Do("handshake", "lexical")
    <3>1. do.what = "handshake"
        BY <2>7 DEF Do
    <3> QED BY <1>1, <2>7, <3>1 DEF Perform, Here, FileStep, ServerGoesOn, ServerEffect, Same
  <2> QED BY <1>3, <2>1, <2>2, <2>3, <2>4, <2>5, <2>6, <2>7 DEF EntryAt
<1> QED BY <1>1, <1>2, <1>4
-----------------------------------------------------------------------------
(* Type correctness.  Every file that has a name, or that somebody has     *)
(* open, was made by somebody, and its content counts no write that nobody *)
(* made.                                                                   *)
EntryOK ==
    /\ entry \in [Names -> Files \cup {Null}]
    /\ \A a, b \in Names : a # b /\ entry[a] # Null => entry[a] # entry[b]

ContentOK ==
    /\ content \in [Files -> Content \cup {Null}]
    /\ \A n \in Names : entry[n] # Null => content[entry[n]] # Null
    /\ \A f \in Files : content[f] # Null => content[f].writes <= writes
    /\ writes \in 0..MaxWrites

HandlesOK ==
    /\ opened \in [Processes -> [Handles -> Files \cup {Null}]]
    /\ conn \in [Processes -> [Handles -> Files \cup {Null}]]
    /\ \A p \in Processes, h \in Handles :
          /\ opened[p][h] # Null => content[opened[p][h]] # Null
          /\ conn[p][h] # Null => content[conn[p][h]] # Null

FilesOK == EntryOK /\ ContentOK /\ HandlesOK

LEMMA NamesAre ==
    /\ "store" \in Names /\ "copy" \in Names /\ "aside" \in Names
    /\ \A h \in Handles : NameOf(h) \in Names
    /\ NameOf("target") = "copy" /\ NameOf("result") = "copy"
    /\ \A h \in {"source", "lexical", "serving"} : NameOf(h) = "store"
    /\ \A h \in {"source", "target", "result", "lexical", "serving"} : h \in Handles
BY DEF Names, NameOf, Handles

LEMMA ContentsAre ==
    /\ Blank \in Content /\ Blank.writes = 0
    /\ \A i \in Identities : Fresh(i) \in Content /\ Fresh(i).writes = 0
    /\ Null \notin Content /\ Configured \in Identities /\ Null \notin Files
BY FilesAssumption, ContentAssumption DEF Blank, Fresh, Content

LEMMA OpensKeepsFiles ==
    ASSUME FilesOK, NEW p \in Processes, NEW h \in Handles, Opens(p, h), UNCHANGED writes
    PROVE FilesOK'
<1>1. NameOf(h) \in Names
    BY NamesAre
<1>2. entry[NameOf(h)] \in Files \cup {Null}
    BY <1>1 DEF FilesOK, EntryOK
<1>3. EntryOK' /\ ContentOK'
    BY DEF Opens, FilesOK, EntryOK, ContentOK
<1>4. /\ opened' \in [Processes -> [Handles -> Files \cup {Null}]]
      /\ conn' \in [Processes -> [Handles -> Files \cup {Null}]]
    BY <1>2 DEF Opens, FilesOK, HandlesOK
<1>5. \A q \in Processes, k \in Handles :
          opened'[q][k] = opened[q][k] \/ opened'[q][k] = entry[NameOf(h)]
    BY DEF Opens, FilesOK, HandlesOK
<1> QED BY <1>1, <1>3, <1>4, <1>5 DEF Opens, FilesOK, HandlesOK, ContentOK

LEMMA ConnectsKeepsFiles ==
    ASSUME FilesOK, NEW p \in Processes, NEW h \in Handles, Connects(p, h), UNCHANGED writes
    PROVE FilesOK'
<1>1. NameOf(h) \in Names
    BY NamesAre
<1>2. entry[NameOf(h)] \in Files \cup {Null}
    BY <1>1 DEF FilesOK, EntryOK
<1>3. EntryOK' /\ ContentOK'
    BY DEF Connects, FilesOK, EntryOK, ContentOK
<1>4. /\ opened' \in [Processes -> [Handles -> Files \cup {Null}]]
      /\ conn' \in [Processes -> [Handles -> Files \cup {Null}]]
    BY <1>2 DEF Connects, FilesOK, HandlesOK
<1>5. \A q \in Processes, k \in Handles :
          conn'[q][k] = conn[q][k] \/ conn'[q][k] = entry[NameOf(h)]
    BY DEF Connects, FilesOK, HandlesOK
<1> QED BY <1>1, <1>3, <1>4, <1>5 DEF Connects, FilesOK, HandlesOK, ContentOK

(* Nobody forgets what a file holds: a content changes, or a file gets one,*)
(* and then no content is Null that was none before.                       *)
LEMMA ContentsKeepHandles ==
    ASSUME HandlesOK, UNCHANGED <<opened, conn>>,
           \A f \in Files : content[f] # Null => content'[f] # Null
    PROVE HandlesOK'
BY DEF HandlesOK

LEMMA MakesKeepsFiles ==
    ASSUME FilesOK, NEW p \in Processes, NEW h \in Handles, NEW v \in Content, v.writes = 0,
           Makes(p, h, v), UNCHANGED writes
    PROVE FilesOK'
<1>1. NameOf(h) \in Names
    BY NamesAre
<1>2. PICK f \in Unused : /\ entry' = [entry EXCEPT ![NameOf(h)] = f]
                          /\ content' = [content EXCEPT ![f] = v]
                          /\ opened' = [opened EXCEPT ![p][h] = f]
    BY DEF Makes
<1>3. f \in Files /\ content[f] = Null /\ v # Null /\ f # Null
    BY ContentsAre DEF Unused
<1>4. EntryOK'
  <2>1. \A n \in Names : entry[n] # f
      BY <1>3 DEF FilesOK, ContentOK
  <2> QED BY <1>1, <1>2, <1>3, <2>1 DEF FilesOK, EntryOK
<1>5. ContentOK'
  <2>1. content' \in [Files -> Content \cup {Null}]
      BY <1>2 DEF FilesOK, ContentOK
  <2>2. \A n \in Names : entry'[n] # Null => content'[entry'[n]] # Null
      BY <1>1, <1>2, <1>3 DEF FilesOK, EntryOK, ContentOK
  <2>3. \A g \in Files : content'[g] # Null => content'[g].writes <= writes
      BY <1>2 DEF FilesOK, ContentOK
  <2> QED BY <2>1, <2>2, <2>3 DEF FilesOK, ContentOK
<1>6. HandlesOK'
  <2>1. /\ opened' \in [Processes -> [Handles -> Files \cup {Null}]]
        /\ conn' = conn
      BY <1>2, <1>3 DEF Makes, FilesOK, HandlesOK
  <2>2. \A q \in Processes, k \in Handles : opened'[q][k] = opened[q][k] \/ opened'[q][k] = f
      BY <1>2 DEF FilesOK, HandlesOK
  <2>3. \A g \in Files : content'[g] = IF g = f THEN v ELSE content[g]
      BY <1>2 DEF FilesOK, ContentOK
  <2> QED BY <1>3, <2>1, <2>2, <2>3 DEF FilesOK, HandlesOK
<1> QED BY <1>4, <1>5, <1>6 DEF FilesOK

LEMMA BeginsKeepsFiles ==
    ASSUME FilesOK, NEW p \in Processes, NEW h \in Handles, Begins(p, h), UNCHANGED writes
    PROVE FilesOK'
<1> DEFINE c == conn[p][h]
<1>1. c \in Files \cup {Null} /\ (c # Null => content[c] # Null)
    BY DEF FilesOK, HandlesOK
<1>2. c \in Files => /\ content[c] \in Content
                     /\ [content[c] EXCEPT !.whole = FALSE] \in Content
                     /\ [content[c] EXCEPT !.whole = FALSE].writes = content[c].writes
    BY <1>1, ContentsAre DEF FilesOK, ContentOK, Content
<1>3. content' = [content EXCEPT ![c] = [content[c] EXCEPT !.whole = FALSE]]
    BY DEF Begins
<1> HIDE DEF c
<1>4. \A f \in Files : /\ f # c => content'[f] = content[f]
                       /\ f = c => content'[f] = [content[c] EXCEPT !.whole = FALSE]
    BY <1>3 DEF FilesOK, ContentOK
<1>5. content' \in [Files -> Content \cup {Null}]
    BY <1>2, <1>3 DEF FilesOK, ContentOK
<1>6. \A f \in Files : content[f] # Null => content'[f] # Null
    BY <1>2, <1>4, ContentsAre
<1>7. \A f \in Files : content'[f] # Null => content'[f].writes <= writes
    BY <1>1, <1>2, <1>4, ContentsAre DEF FilesOK, ContentOK
<1>8. ContentOK' /\ EntryOK'
    BY <1>5, <1>6, <1>7 DEF Begins, FilesOK, ContentOK, EntryOK
<1>9. HandlesOK'
    BY <1>6, ContentsKeepHandles DEF Begins, FilesOK
<1> QED BY <1>8, <1>9 DEF FilesOK

LEMMA CopiesKeepsFiles ==
    ASSUME FilesOK, NEW p \in Processes, NEW h \in Handles, Copies(p, h), UNCHANGED writes,
           conn[p]["source"] # Null
    PROVE FilesOK'
<1> DEFINE c == conn[p][h]
           s == conn[p]["source"]
<1>1. s \in Files /\ content[s] \in Content
    BY NamesAre DEF FilesOK, HandlesOK, ContentOK
<1>2. content' = [content EXCEPT ![c] = content[s]]
    BY DEF Copies
<1> HIDE DEF c, s
<1>3. \A f \in Files : content'[f] = content[f] \/ content'[f] = content[s]
    BY <1>2 DEF FilesOK, ContentOK
<1>4. content' \in [Files -> Content \cup {Null}]
    BY <1>1, <1>2 DEF FilesOK, ContentOK
<1>5. \A f \in Files : content[f] # Null => content'[f] # Null
    BY <1>1, <1>3, ContentsAre
<1>6. \A f \in Files : content'[f] # Null => content'[f].writes <= writes
    BY <1>1, <1>3, ContentsAre DEF FilesOK, ContentOK
<1>7. ContentOK' /\ EntryOK'
    BY <1>4, <1>5, <1>6 DEF Copies, FilesOK, ContentOK, EntryOK
<1>8. HandlesOK'
    BY <1>5, ContentsKeepHandles DEF Copies, FilesOK
<1> QED BY <1>7, <1>8 DEF FilesOK

LEMMA ExchangeKeepsFiles ==
    ASSUME FilesOK, NEW a \in Names, NEW b \in Names, Exchange(a, b)
    PROVE FilesOK'
<1>1. \A n \in Names : entry'[n] = IF n = b THEN entry[a] ELSE IF n = a THEN entry[b] ELSE entry[n]
    BY DEF Exchange, FilesOK, EntryOK
<1>2. entry' \in [Names -> Files \cup {Null}]
    BY DEF Exchange, FilesOK, EntryOK
<1>3. EntryOK'
    BY <1>1, <1>2 DEF FilesOK, EntryOK
<1>4. ContentOK' /\ HandlesOK'
    BY <1>1 DEF Exchange, FilesOK, ContentOK, HandlesOK
<1> QED BY <1>3, <1>4 DEF FilesOK

LEMMA WriteKeepsFiles ==
    ASSUME FilesOK, Write
    PROVE FilesOK'
<1> DEFINE f == entry["store"]
<1>1. f \in Files /\ content[f] \in Content /\ content[f].writes <= writes
    BY NamesAre DEF Write, FilesOK, EntryOK, ContentOK
<1>2. writes \in Nat /\ MaxWrites \in Nat /\ writes < MaxWrites /\ writes' = writes + 1
    BY FilesAssumption DEF Write, FilesOK, ContentOK
<1>3. content' = [content EXCEPT ![f].writes = content[f].writes + 1]
    BY DEF Write
<1>4. UNCHANGED <<entry, opened, conn>>
    BY DEF Write
<1> HIDE DEF f
<1> DEFINE v == [content[f] EXCEPT !.writes = content[f].writes + 1]
<1>5. v \in Content /\ v.writes <= writes'
    BY <1>1, <1>2 DEF Content
<1>6. \A g \in Files : content'[g] = IF g = f THEN v ELSE content[g]
    BY <1>3 DEF FilesOK, ContentOK
<1>7. content' \in [Files -> Content \cup {Null}]
    BY <1>1, <1>3, <1>5 DEF FilesOK, ContentOK
<1> HIDE DEF v
<1>8. \A g \in Files : content[g] # Null => content'[g] # Null
    BY <1>5, <1>6, ContentsAre
<1>9. \A g \in Files : content'[g] # Null => content'[g].writes <= writes'
  <2> SUFFICES ASSUME NEW g \in Files, content'[g] # Null PROVE content'[g].writes <= writes'
      OBVIOUS
  <2>1. CASE g = f
      BY <1>5, <1>6, <2>1
  <2>2. CASE g # f
    <3>1. content[g] \in Content /\ content[g].writes <= writes /\ content'[g] = content[g]
        BY <1>6, <2>2 DEF FilesOK, ContentOK
    <3>2. content[g].writes \in Nat
        BY <3>1 DEF Content
    <3> QED BY <1>2, <3>1, <3>2
  <2> QED BY <2>1, <2>2
<1>10. ContentOK' /\ EntryOK'
    BY <1>2, <1>4, <1>7, <1>8, <1>9 DEF FilesOK, ContentOK, EntryOK
<1>11. HandlesOK'
    BY <1>4, <1>8, ContentsKeepHandles DEF FilesOK
<1> QED BY <1>10, <1>11 DEF FilesOK

(* The copy's destination is unlinked, or nothing happens to the files. *)
LEMMA UnlinkKeepsFiles ==
    ASSUME FilesOK, UNCHANGED <<content, opened, conn, writes>>,
           entry' = entry \/ entry' = [entry EXCEPT !["copy"] = Null]
    PROVE FilesOK'
<1>1. entry' \in [Names -> Files \cup {Null}]
    BY DEF FilesOK, EntryOK
<1>2. \A n \in Names : entry'[n] = entry[n] \/ entry'[n] = Null
    BY DEF FilesOK, EntryOK
<1> QED BY <1>1, <1>2 DEF FilesOK, EntryOK, ContentOK, HandlesOK

(* Where every process is in its script.  A client decides about its way   *)
(* to the store at the 13th entry.                                         *)
PlacesOK ==
    /\ at \in [Processes -> Nat] /\ \A p \in Processes : at[p] >= 1
    /\ at[Maintenance] <= 44 /\ at[Daemon] <= 25
    /\ link \in [Clients -> {"none", "direct", "proxy"}]
    /\ \A c \in Clients : /\ link[c] = "none" => at[c] <= 13
                          /\ link[c] # "none" => at[c] >= 14
                          /\ link[c] = "direct" => at[c] <= 24
                          /\ link[c] = "proxy" => at[c] <= 17

Waiting == {"none", "asked", "greeting", "greeted", "verified", "idle", "answering",
            "ended", "closed"}

(* A request that is being checked was written. *)
SessionsOK ==
    /\ endpoint \in [{"store", "copy"} -> {"none", "wide", "private", "stale"}]
    /\ binding \in [Servers -> Files \cup {Null}]
    /\ session \in [Clients -> Checking \cup Waiting]
    /\ sent \in [Clients -> Nat] /\ answered \in [Clients -> Nat]
    /\ since \in [Clients -> Nat] /\ moves \in Nat
    /\ lock \in [Servers -> Clients \cup {Null}]
    /\ \A c \in Clients : /\ answered[c] <= sent[c] /\ since[c] <= moves
                          /\ session[c] \in Checking \cup {"answering"} => answered[c] < sent[c]

SourceOpen == at[Maintenance] >= 5 => conn[Maintenance]["source"] # Null

TypeInv == FilesOK /\ PlacesOK /\ SessionsOK /\ SourceOpen

(* The steps of the system, each with what it does. *)
Elsewhere == UNCHANGED <<cast, binding, sessions>>
GivesUp(p) == p \in cast \ failed /\ GiveUp(p) /\ UNCHANGED cast

LEMMA NextIs ==
    ASSUME PlacesOK, Next
    PROVE \/ \E p \in Servers : ServerGoesOn(p) \/ GivesUp(p)
          \/ \E c \in Clients : Greet(c) \/ Serve(c) \/ Send(c)
          \/ (CopyGoesOn \/ CopyFails) /\ Elsewhere
          \/ Die
          \/ (\E a, b \in Names : Exchange(a, b)) /\ Elsewhere
          \/ Write /\ Elsewhere
<1>1. ASSUME NEW p \in Servers, StartStep(p) PROVE ServerGoesOn(p) \/ GivesUp(p)
  <2>1. at[p] \in Nat /\ at[p] >= 1
      BY DEF PlacesOK, Processes
  <2> QED BY <1>1, <2>1, StartStepIs DEF GivesUp
<1>2. ASSUME CopyStep PROVE CopyGoesOn \/ CopyFails
  <2>1. at[Maintenance] \in Nat /\ at[Maintenance] >= 1
      BY DEF PlacesOK, Processes
  <2> QED BY <1>2, <2>1, CopyStepIs
<1>3. {"store", "copy"} \subseteq Names /\ {"copy", "aside"} \subseteq Names
    BY DEF Names
<1> QED BY <1>1, <1>2, <1>3 DEF Next, Work, World, Elsewhere

LEMMA InitIs ==
    ASSUME Init
    PROVE \E f \in Files \cup {Null} :
             /\ f # Null => content[f] # Null
             /\ at \in [Processes -> Nat] /\ at[Daemon] = IF f = Null THEN 1 ELSE 25
             /\ \A p \in Processes \ {Daemon} : at[p] = 1
             /\ opened \in [Processes -> [Handles -> {f, Null}]] /\ conn = opened
             /\ \A p \in Processes \ {Daemon}, h \in Handles : opened[p][h] = Null
             /\ opened[Daemon]["serving"] = f
             /\ binding \in [Servers -> {f, Null}]
             /\ endpoint \in [{"store", "copy"} -> {"none", "wide", "private", "stale"}]
             /\ endpoint["store"] = "private" => f # Null
<1>0. Daemon \in Processes /\ Daemon \in Servers /\ "serving" \in Handles /\ "lexical" \in Handles
    BY SessionsAssumption, ServingHandles DEF Processes
<1>1. PICK s \in Situations :
          /\ cast = s.cast /\ entry = s.entry /\ content = s.content /\ moves = s.moves
          /\ IF s.serving # Null THEN Started(s.serving) ELSE Unstarted
    BY DEF Init
<1>2. /\ s.serving \in Files \cup {Null}
      /\ s.serving # Null => s.content[s.serving] = Fresh(Configured)
    BY SessionsAssumption
<1>3. CASE s.serving # Null
  <2> DEFINE f == s.serving
  <2>0. Fresh(Configured) # Null
      BY ContentsAre
  <2>1. Started(f) /\ f \in Files \cup {Null} /\ f # Null /\ content[f] # Null
      BY <1>1, <1>2, <1>3, <2>0
  <2> HIDE DEF f
  <2>2. /\ at \in [Processes -> Nat] /\ at[Daemon] = 25
        /\ \A p \in Processes \ {Daemon} : at[p] = 1
      BY <1>0, <2>1, DaemonScriptIs DEF Started
  <2>3. /\ opened \in [Processes -> [Handles -> {f, Null}]] /\ conn = opened
        /\ \A p \in Processes \ {Daemon}, h \in Handles : opened[p][h] = Null
        /\ opened[Daemon]["serving"] = f
      BY <1>0, <2>1 DEF Started, NoHandles
  <2>4. /\ binding \in [Servers -> {f, Null}]
        /\ endpoint \in [{"store", "copy"} -> {"none", "wide", "private", "stale"}]
      BY <1>0, <2>1 DEF Started
  <2> QED BY <2>1, <2>2, <2>3, <2>4
<1>4. CASE s.serving = Null
  <2>1. Unstarted
      BY <1>1, <1>4
  <2>2. /\ at \in [Processes -> Nat] /\ \A p \in Processes : at[p] = 1
        /\ opened \in [Processes -> [Handles -> {Null}]] /\ conn = opened
        /\ \A p \in Processes, h \in Handles : opened[p][h] = Null
        /\ binding \in [Servers -> {Null}]
      BY <2>1 DEF Unstarted, NoHandles
  <2>3. /\ endpoint \in [{"store", "copy"} -> {"none", "wide", "private", "stale"}]
        /\ endpoint["store"] # "private"
      BY <2>1 DEF Unstarted
  <2> QED BY <1>0, <2>2, <2>3
<1> QED BY <1>2, <1>3, <1>4

LEMMA InitTypeInv == Init => TypeInv
<1> SUFFICES ASSUME Init PROVE TypeInv
    OBVIOUS
<1>0. PICK f \in Files \cup {Null} :
          /\ f # Null => content[f] # Null
          /\ at \in [Processes -> Nat] /\ at[Daemon] = IF f = Null THEN 1 ELSE 25
          /\ \A p \in Processes \ {Daemon} : at[p] = 1
          /\ opened \in [Processes -> [Handles -> {f, Null}]] /\ conn = opened
          /\ \A p \in Processes \ {Daemon}, h \in Handles : opened[p][h] = Null
          /\ opened[Daemon]["serving"] = f
          /\ binding \in [Servers -> {f, Null}]
          /\ endpoint \in [{"store", "copy"} -> {"none", "wide", "private", "stale"}]
          /\ endpoint["store"] = "private" => f # Null
    BY InitIs
<1>1. PICK s \in Situations :
          cast = s.cast /\ entry = s.entry /\ content = s.content /\ moves = s.moves
    BY DEF Init
<1>2. /\ s.cast \subseteq Processes /\ s.moves \in Nat
      /\ s.entry \in [Names -> Files \cup {Null}]
      /\ s.content \in [Files -> {v \in Content : v.writes = 0} \cup {Null}]
      /\ \A n \in Names : s.entry[n] # Null => s.content[s.entry[n]] # Null
      /\ \A m, n \in Names : m # n /\ s.entry[m] # Null => s.entry[m] # s.entry[n]
    BY SessionsAssumption, FilesAssumption
<1>3. EntryOK
    BY <1>1, <1>2 DEF EntryOK
<1>4. ContentOK
  <2>1. writes = 0 /\ MaxWrites \in Nat
      BY FilesAssumption DEF Init
  <2> QED BY <1>1, <1>2, <2>1 DEF ContentOK
<1>5. HandlesOK
  <2>1. f # Null => content[f] # Null
      BY <1>0
  <2>2. /\ opened \in [Processes -> [Handles -> {f, Null}]]
        /\ conn \in [Processes -> [Handles -> {f, Null}]]
      BY <1>0
  <2> QED BY <2>1, <2>2 DEF HandlesOK
<1>6. PlacesOK
  <2>1. /\ Daemon \in Processes /\ Maintenance \in Processes /\ Clients \subseteq Processes
        /\ Maintenance # Daemon /\ Daemon \notin Clients
      BY SessionsAssumption, FilesAssumption DEF Processes, Clients
  <2>2. link = [c \in Clients |-> "none"]
      BY DEF Init
  <2> QED BY <1>0, <2>1, <2>2 DEF PlacesOK
<1>7. SessionsOK
  <2>1. endpoint \in [{"store", "copy"} -> {"none", "wide", "private", "stale"}]
        /\ binding \in [Servers -> Files \cup {Null}]
      BY <1>0
  <2>2. "none" \notin Checking \cup {"answering"} /\ "none" \in Waiting
      BY DEF Checking, Waiting
  <2> QED BY <1>1, <1>2, <2>1, <2>2 DEF Init, SessionsOK
<1>8. SourceOpen
  <2>1. at[Maintenance] = 1
      BY <1>0, SessionsAssumption, FilesAssumption DEF Processes
  <2> QED BY <2>1 DEF SourceOpen
<1> QED BY <1>3, <1>4, <1>5, <1>6, <1>7, <1>8 DEF TypeInv, FilesOK

(* Sessions and requests leave the files alone. *)
LEMMA SessionStepsLeaveFiles ==
    ASSUME NEW c \in Clients, Greet(c) \/ Serve(c) \/ Send(c)
    PROVE UNCHANGED <<files, cast, binding, link>>
BY DEF Greet, Serve, Send, Quiet

LEMMA StepKeepsFiles ==
    ASSUME TypeInv, Next
    PROVE FilesOK'
<1> USE DEF TypeInv
<1>1. ASSUME NEW p \in Servers, ServerGoesOn(p) PROVE FilesOK'
  <2>1. UNCHANGED writes /\ p \in Processes
      BY <1>1 DEF ServerGoesOn, Processes
  <2>2. Fresh(Configured) \in Content /\ Fresh(Configured).writes = 0
      BY ContentsAre
  <2>3. CASE Same
      BY <2>1, <2>3 DEF Same, FilesOK, EntryOK, ContentOK, HandlesOK
  <2>4. CASE \E h \in {"lexical", "serving"} : Opens(p, h) \/ Makes(p, h, Fresh(Configured))
      BY <2>1, <2>2, <2>4, ServingHandles, OpensKeepsFiles, MakesKeepsFiles
  <2>5. CASE Connects(p, "lexical") \/ Connects(p, "serving")
      BY <2>1, <2>5, ServingHandles, ConnectsKeepsFiles
  <2> QED BY <1>1, <2>3, <2>4, <2>5 DEF ServerGoesOn, ServerEffect
<1>2. ASSUME NEW p \in Servers, GivesUp(p) PROVE FilesOK'
    BY <1>2, UnlinkKeepsFiles DEF GivesUp, GiveUp
<1>3. ASSUME NEW c \in Clients, Greet(c) \/ Serve(c) \/ Send(c) PROVE FilesOK'
    BY <1>3, SessionStepsLeaveFiles, UnlinkKeepsFiles DEF files
<1>4. ASSUME CopyGoesOn PROVE FilesOK'
  <2>1. UNCHANGED writes /\ Maintenance \in Processes
      BY <1>4 DEF CopyGoesOn, Processes
  <2>2. Blank \in Content /\ Blank.writes = 0
      BY ContentsAre
  <2>3. "source" \in Handles /\ "target" \in Handles /\ "result" \in Handles
      BY NamesAre
  <2>4. at[Maintenance] = 22 => conn[Maintenance]["source"] # Null
      BY DEF SourceOpen
  <2>5. CASE Same
      BY <2>1, <2>5 DEF Same, FilesOK, EntryOK, ContentOK, HandlesOK
  <2>6. CASE Opens(Maintenance, "source") \/ Opens(Maintenance, "result")
      BY <2>1, <2>3, <2>6, OpensKeepsFiles
  <2>7. CASE Makes(Maintenance, "target", Blank)
      BY <2>1, <2>2, <2>3, <2>7, MakesKeepsFiles
  <2>8. CASE \E h \in {"source", "target", "result"} : Connects(Maintenance, h)
      BY <2>1, <2>3, <2>8, ConnectsKeepsFiles
  <2>9. CASE Begins(Maintenance, "target")
      BY <2>1, <2>3, <2>9, BeginsKeepsFiles
  <2>10. CASE at[Maintenance] = 22 /\ Copies(Maintenance, "target")
      BY <2>1, <2>3, <2>4, <2>10, CopiesKeepsFiles
  <2> QED BY <1>4, <2>5, <2>6, <2>7, <2>8, <2>9, <2>10 DEF CopyGoesOn, CopyEffect
<1>5. ASSUME CopyFails PROVE FilesOK'
    BY <1>5, UnlinkKeepsFiles DEF CopyFails
<1>6. ASSUME Die PROVE FilesOK'
    BY <1>6, UnlinkKeepsFiles DEF Die
<1>7. ASSUME NEW a \in Names, NEW b \in Names, Exchange(a, b) PROVE FilesOK'
    BY <1>7, ExchangeKeepsFiles
<1>8. ASSUME Write PROVE FilesOK'
    BY <1>8, WriteKeepsFiles
<1> QED BY <1>1, <1>2, <1>3, <1>4, <1>5, <1>6, <1>7, <1>8, NextIs

LEMMA StepKeepsPlaces ==
    ASSUME TypeInv, Next
    PROVE PlacesOK'
<1> USE DEF TypeInv
<1>0. /\ Daemon \in Processes /\ Maintenance \in Processes /\ Clients \subseteq Processes
      /\ Daemon \notin Clients /\ Maintenance \notin Clients /\ Maintenance # Daemon
      /\ Maintenance \notin Servers /\ Servers \subseteq Processes
    BY SessionsAssumption, FilesAssumption DEF Processes, Clients
<1>1. ASSUME NEW p \in Servers, ServerGoesOn(p) PROVE PlacesOK'
  <2>1. at' \in [Processes -> Nat] /\ \A q \in Processes : at'[q] >= 1
      BY <1>0, <1>1 DEF ServerGoesOn, PlacesOK
  <2>2. at'[p] = at[p] + 1 /\ \A q \in Processes \ {p} : at'[q] = at[q]
      BY <1>0, <1>1 DEF ServerGoesOn, PlacesOK
  <2>3. CASE p = Daemon
    <3>1. at[p] <= 24
      <4>1. at[p] \in 1..24
          BY <1>1, <2>3, LengthIs DEF ServerGoesOn
      <4> QED BY <4>1
    <3>2. link' = link
        BY <1>0, <1>1, <2>3 DEF ServerGoesOn, ServerEffect, sessions
    <3> QED BY <1>0, <2>1, <2>2, <2>3, <3>1, <3>2 DEF PlacesOK
  <2>4. CASE p \in Clients /\ at[p] = 13
    <3>1. link' = [link EXCEPT ![p] = "direct"] \/ link' = [link EXCEPT ![p] = "proxy"]
        BY <1>0, <1>1, <2>4 DEF ServerGoesOn, ServerEffect, Special
    <3> QED BY <1>0, <2>1, <2>2, <2>4, <3>1 DEF PlacesOK
  <2>5. CASE p \in Clients /\ at[p] # 13
    <3>1. link' = link
        BY <1>0, <1>1, <2>5 DEF ServerGoesOn, ServerEffect, sessions
    <3>2. /\ link[p] = "direct" => at[p] <= 23
          /\ link[p] = "proxy" => at[p] <= 16
      <4>1. link[p] = "direct" => at[p] \in 1..23
          BY <1>0, <1>1, <2>5, LengthIs DEF ServerGoesOn
      <4>2. link[p] = "proxy" => at[p] \in 1..16
          BY <1>0, <1>1, <2>5, LengthIs DEF ServerGoesOn
      <4> QED BY <4>1, <4>2
    <3> QED BY <1>0, <2>1, <2>2, <2>5, <3>1, <3>2 DEF PlacesOK
  <2> QED BY <2>3, <2>4, <2>5 DEF Clients
<1>2. ASSUME NEW p \in Servers, GivesUp(p) PROVE PlacesOK'
    BY <1>2 DEF GivesUp, GiveUp, PlacesOK
<1>3. ASSUME NEW c \in Clients, Greet(c) \/ Serve(c) \/ Send(c) PROVE PlacesOK'
    BY <1>3, SessionStepsLeaveFiles DEF files, PlacesOK
<1>4. ASSUME CopyGoesOn, Elsewhere PROVE PlacesOK'
  <2>1. at'[Maintenance] <= 44 /\ \A q \in Processes \ {Maintenance} : at'[q] = at[q]
      BY <1>0, <1>4 DEF CopyGoesOn, PlacesOK
  <2>2. at' \in [Processes -> Nat] /\ \A q \in Processes : at'[q] >= 1
      BY <1>0, <1>4 DEF CopyGoesOn, PlacesOK
  <2> QED BY <1>0, <1>4, <2>1, <2>2 DEF Elsewhere, sessions, PlacesOK
<1>5. ASSUME CopyFails, Elsewhere PROVE PlacesOK'
    BY <1>5 DEF CopyFails, Elsewhere, sessions, PlacesOK
<1>6. ASSUME Die PROVE PlacesOK'
    BY <1>6 DEF Die, PlacesOK
<1>7. ASSUME NEW a \in Names, NEW b \in Names, Exchange(a, b), Elsewhere PROVE PlacesOK'
    BY <1>7 DEF Exchange, Elsewhere, sessions, PlacesOK
<1>8. ASSUME Write, Elsewhere PROVE PlacesOK'
    BY <1>8 DEF Write, Elsewhere, sessions, PlacesOK
<1> QED BY <1>1, <1>2, <1>3, <1>4, <1>5, <1>6, <1>7, <1>8, NextIs

(* What a step of a session, or of the world around it, does to one        *)
(* client: its session, its counters, and nothing of another client.       *)
LEMMA SessionStepIs ==
    ASSUME SessionsOK, NEW c \in Clients, Greet(c) \/ Serve(c) \/ Send(c)
    PROVE /\ UNCHANGED <<files, cast, binding, link>>
          /\ \A d \in Clients \ {c} : /\ session'[d] = session[d] /\ since'[d] = since[d]
                                      /\ sent'[d] = sent[d] /\ answered'[d] = answered[d]
          /\ session' \in [Clients -> Checking \cup Waiting]
          /\ sent' \in [Clients -> Nat] /\ answered' \in [Clients -> Nat]
          /\ since' \in [Clients -> Nat]
          /\ answered'[c] <= sent'[c] /\ since'[c] <= moves
          /\ session'[c] \in Checking \cup {"answering"} => answered'[c] < sent'[c]
<1>1. ASSUME Greet(c)
      PROVE /\ UNCHANGED <<files, cast, binding, link, sent, answered, since>>
            /\ \E w \in Waiting \ {"answering"} : session' = [session EXCEPT ![c] = w]
    BY <1>1 DEF Greet, Quiet, At, Refuse, Close, Waiting
<1>2. ASSUME Send(c)
      PROVE /\ UNCHANGED <<files, cast, binding, link, session, answered, since>>
            /\ sent' = sent \/ sent' = [sent EXCEPT ![c] = @ + 1]
    BY <1>2 DEF Send, Quiet
<1>3. ASSUME Serve(c)
      PROVE /\ UNCHANGED <<files, cast, binding, link, sent>>
            /\ \/ /\ since' = [since EXCEPT ![c] = moves] /\ answered[c] < sent[c]
                  /\ session' = [session EXCEPT ![c] = "moved"] /\ UNCHANGED answered
               \/ /\ session[c] \in Checking /\ UNCHANGED <<since, answered>>
                  /\ \E w \in {"bound", "handled", "answering", "closed"} :
                        session' = [session EXCEPT ![c] = w]
               \/ /\ session[c] = "answering" /\ session' = [session EXCEPT ![c] = "idle"]
                  /\ answered' = [answered EXCEPT ![c] = @ + 1] /\ UNCHANGED since
               \/ session' = [session EXCEPT ![c] = "ended"] /\ UNCHANGED <<since, answered>>
  <2>1. ASSUME Check(c), UNCHANGED answered
        PROVE \/ /\ since' = [since EXCEPT ![c] = moves] /\ answered[c] < sent[c]
                 /\ session' = [session EXCEPT ![c] = "moved"] /\ UNCHANGED answered
              \/ /\ session[c] \in Checking /\ UNCHANGED <<since, answered>>
                 /\ \E w \in {"bound", "handled", "closed"} : session' = [session EXCEPT ![c] = w]
      BY <2>1 DEF Check, Begin, At, Refuse, Close, Checking
  <2>2. Handle(c) => /\ session[c] \in Checking
                     /\ \E w \in {"answering", "closed"} : session' = [session EXCEPT ![c] = w]
      BY DEF Handle, At, Close, Checking
  <2> QED BY <1>3, <2>1, <2>2 DEF Serve, Answer, At, Quiet
<1>4. \A w \in Waiting : w \notin Checking
    BY DEF Waiting, Checking
<1>5. /\ {"moved", "bound", "handled"} \subseteq Checking
      /\ {"closed", "idle", "ended", "answering"} \subseteq Waiting
    BY DEF Waiting, Checking
<1>6. CASE Greet(c)
    BY <1>1, <1>4, <1>6 DEF SessionsOK
<1>7. CASE Send(c)
    BY <1>2, <1>7 DEF SessionsOK
<1>8. CASE Serve(c)
  <2>1. session' \in [Clients -> Checking \cup Waiting]
      BY <1>3, <1>5, <1>8 DEF SessionsOK
  <2>2. /\ sent' \in [Clients -> Nat] /\ answered' \in [Clients -> Nat]
        /\ since' \in [Clients -> Nat]
      BY <1>3, <1>8 DEF SessionsOK
  <2>3. \A d \in Clients \ {c} : /\ session'[d] = session[d] /\ since'[d] = since[d]
                                 /\ sent'[d] = sent[d] /\ answered'[d] = answered[d]
      BY <1>3, <1>8 DEF SessionsOK
  <2>4. /\ answered'[c] <= sent'[c] /\ since'[c] <= moves
        /\ session'[c] \in Checking \cup {"answering"} => answered'[c] < sent'[c]
      BY <1>3, <1>4, <1>5, <1>8 DEF SessionsOK
  <2> QED BY <1>3, <1>8, <2>1, <2>2, <2>3, <2>4
<1> QED BY <1>6, <1>7, <1>8

(* A step of a session takes the lock when it is free and begins to use    *)
(* it, drops it and ends to use it, or does neither.                       *)
LEMMA LockStepIs ==
    ASSUME SessionsOK, NEW c \in Clients, Greet(c) \/ Serve(c) \/ Send(c)
    PROVE \/ lock' = lock /\ (session'[c] \in Guarded <=> session[c] \in Guarded)
          \/ /\ Free(Owner(c)) /\ Take(c) /\ session'[c] \in Guarded
             /\ Greet(c) \/ Serve(c)
          \/ Drop(c) /\ session[c] \in Guarded /\ session'[c] \notin Guarded
<1>1. CASE Greet(c)
  <2>1. link[c] = "proxy" => Owner(c) = Daemon
      BY DEF Owner
  <2> QED BY <1>1, <2>1 DEF Greet, At, Refuse, Close, Guarded, Checking, SessionsOK
<1>2. CASE Send(c)
    BY <1>2 DEF Send
<1>3. CASE Serve(c)
  <2>1. CASE Check(c)
      BY <1>3, <2>1 DEF Check, Begin, At, Refuse, Close, Guarded, Checking, SessionsOK
  <2>2. CASE Handle(c)
      BY <2>2 DEF Handle, At, Close, Guarded, Checking, SessionsOK
  <2>3. CASE ~Check(c) /\ ~Handle(c)
      BY <1>3, <2>3 DEF Serve, Answer, At, Guarded, Checking, SessionsOK
  <2> QED BY <2>1, <2>2, <2>3
<1> QED BY <1>1, <1>2, <1>3

LEMMA SessionStepKeepsLock ==
    ASSUME SessionsOK, NEW c \in Clients, Greet(c) \/ Serve(c) \/ Send(c)
    PROVE lock' \in [Servers -> Clients \cup {Null}]
BY LockStepIs DEF Take, Drop, SessionsOK

LEMMA StepKeepsSessions ==
    ASSUME TypeInv, Next
    PROVE SessionsOK'
<1> USE DEF TypeInv
<1>0. \A w \in Waiting : w \notin Checking
    BY DEF Waiting, Checking
<1>1. ASSUME NEW p \in Servers, ServerGoesOn(p) PROVE SessionsOK'
  <2>1. moves' = moves /\ UNCHANGED <<sent, answered, since, lock>>
      BY <1>1 DEF ServerGoesOn, ServerEffect, sessions
  <2>2. endpoint' \in [{"store", "copy"} -> {"none", "wide", "private", "stale"}]
      BY <1>1 DEF ServerGoesOn, ServerEffect, SessionsOK
  <2>3. binding' \in [Servers -> Files \cup {Null}]
    <3>1. entry["store"] \in Files \cup {Null}
        BY NamesAre DEF FilesOK, EntryOK
    <3> QED BY <1>1, <3>1 DEF ServerGoesOn, ServerEffect, SessionsOK
  <2>4. \/ session' = session
        \/ \E w \in Waiting \ {"answering"} : p \in Clients /\ session' = [session EXCEPT ![p] = w]
      BY <1>1 DEF ServerGoesOn, ServerEffect, sessions, Waiting
  <2> QED BY <1>0, <2>1, <2>2, <2>3, <2>4 DEF SessionsOK
<1>2. ASSUME NEW p \in Servers, GivesUp(p) PROVE SessionsOK'
  <2>1. /\ UNCHANGED <<endpoint, binding, sent, answered, since, moves, lock>>
        /\ session' = session \/ session' = [session EXCEPT ![p] = "closed"]
      BY <1>2 DEF GivesUp, GiveUp, Close
  <2>2. "closed" \in Waiting
      BY DEF Waiting
  <2> QED BY <1>0, <2>1, <2>2 DEF SessionsOK
<1>3. ASSUME NEW c \in Clients, Greet(c) \/ Serve(c) \/ Send(c) PROVE SessionsOK'
    BY <1>3, SessionStepIs, SessionStepKeepsLock DEF files, SessionsOK
<1>4. ASSUME CopyGoesOn \/ CopyFails, Elsewhere PROVE SessionsOK'
    BY <1>4 DEF CopyGoesOn, CopyFails, Elsewhere, sessions, SessionsOK
<1>5. ASSUME Die PROVE SessionsOK'
  <2>1. /\ UNCHANGED <<binding, sent, answered, since, moves>>
        /\ lock' \in [Servers -> Clients \cup {Null}]
      BY <1>5 DEF Die, SessionsOK
  <2>2. endpoint' \in [{"store", "copy"} -> {"none", "wide", "private", "stale"}]
      BY <1>5 DEF Die, SessionsOK
  <2>3. "closed" \in Waiting
      BY DEF Waiting
  <2>4. /\ session' \in [Clients -> Checking \cup Waiting]
        /\ \A c \in Clients : session'[c] = session[c] \/ session'[c] = "closed"
      BY <1>5, <2>3 DEF Die, SessionsOK
  <2> QED BY <1>0, <2>1, <2>2, <2>3, <2>4 DEF SessionsOK
<1>6. ASSUME NEW a \in Names, NEW b \in Names, Exchange(a, b), Elsewhere PROVE SessionsOK'
    BY <1>6 DEF Exchange, Elsewhere, sessions, SessionsOK
<1>7. ASSUME Write, Elsewhere PROVE SessionsOK'
    BY <1>7 DEF Write, Elsewhere, sessions, SessionsOK
<1> QED BY <1>1, <1>2, <1>3, <1>4, <1>5, <1>6, <1>7, NextIs

(* A step of anybody but the copying command: the command stays where it   *)
(* is, with what it has open; the copy's name keeps its file, or an        *)
(* exchange is counted; and no file loses anything, but what its users     *)
(* write to the store is added.                                            *)
OthersMove ==
    /\ at'[Maintenance] = at[Maintenance]
    /\ opened'[Maintenance] = opened[Maintenance]
    /\ conn'[Maintenance] = conn[Maintenance]
    /\ Maintenance \in failed' <=> Maintenance \in failed
    /\ \A f \in Files : content[f] # Null =>
          \/ content'[f] = content[f]
          \/ /\ f = entry["store"]
             /\ content'[f] = [content[f] EXCEPT !.writes = content[f].writes + 1]
    /\ \/ moves' = moves /\ entry'["copy"] = entry["copy"]
       \/ moves' = moves + 1

LEMMA ServerLeavesTheCopy ==
    ASSUME TypeInv, NEW p \in Servers, ServerGoesOn(p)
    PROVE OthersMove
<1>1. p # Maintenance /\ p \in Processes /\ Maintenance \in Processes
    BY FilesAssumption DEF Processes
<1>2. /\ at'[Maintenance] = at[Maintenance]
      /\ failed' = failed /\ moves' = moves
    BY <1>1 DEF ServerGoesOn, TypeInv, PlacesOK
<1>3. ASSUME NEW h \in {"lexical", "serving"}, Opens(p, h) \/ Connects(p, h)
      PROVE /\ opened'[Maintenance] = opened[Maintenance]
            /\ conn'[Maintenance] = conn[Maintenance]
            /\ UNCHANGED <<entry, content>>
    BY <1>1, <1>3 DEF Opens, Connects, TypeInv, FilesOK, HandlesOK
<1>4. ASSUME NEW h \in {"lexical", "serving"}, Makes(p, h, Fresh(Configured))
      PROVE /\ opened'[Maintenance] = opened[Maintenance]
            /\ conn'[Maintenance] = conn[Maintenance]
            /\ entry'["copy"] = entry["copy"]
            /\ \A f \in Files : content[f] # Null => content'[f] = content[f]
  <2>1. PICK f \in Unused : /\ entry' = [entry EXCEPT ![NameOf(h)] = f]
                            /\ content' = [content EXCEPT ![f] = Fresh(Configured)]
                            /\ opened' = [opened EXCEPT ![p][h] = f]
      BY <1>4 DEF Makes
  <2>2. NameOf(h) = "store" /\ "store" # "copy" /\ conn' = conn
      BY <1>4, NamesAre DEF Makes
  <2>3. content[f] = Null
      BY DEF Unused
  <2>4. opened'[Maintenance] = opened[Maintenance]
      BY <1>1, <2>1 DEF TypeInv, FilesOK, HandlesOK
  <2>5. entry'["copy"] = entry["copy"]
      BY <2>1, <2>2, NamesAre DEF TypeInv, FilesOK, EntryOK
  <2>6. \A g \in Files : content[g] # Null => content'[g] = content[g]
      BY <2>1, <2>3 DEF TypeInv, FilesOK, ContentOK
  <2> QED BY <2>2, <2>4, <2>5, <2>6
<1>5. \/ Same
      \/ \E h \in {"lexical", "serving"} :
            Opens(p, h) \/ Connects(p, h) \/ Makes(p, h, Fresh(Configured))
    BY DEF ServerGoesOn, ServerEffect
<1>6. CASE Same
    BY <1>2, <1>6 DEF Same, OthersMove
<1>7. CASE \E h \in {"lexical", "serving"} : Opens(p, h) \/ Connects(p, h)
    BY <1>2, <1>3, <1>7 DEF OthersMove
<1>8. CASE \E h \in {"lexical", "serving"} : Makes(p, h, Fresh(Configured))
    BY <1>2, <1>4, <1>8 DEF OthersMove
<1> QED BY <1>5, <1>6, <1>7, <1>8

LEMMA OthersLeaveTheCopy ==
    ASSUME TypeInv, Next
    PROVE CopyGoesOn \/ CopyFails \/ OthersMove
<1>1. Daemon # Maintenance /\ \A p \in Servers : p # Maintenance
    BY FilesAssumption, SessionsAssumption
<1>2. ASSUME NEW p \in Servers, GivesUp(p) PROVE OthersMove
    BY <1>1, <1>2 DEF GivesUp, GiveUp, Fail, OthersMove
<1>3. ASSUME NEW c \in Clients, Greet(c) \/ Serve(c) \/ Send(c) PROVE OthersMove
    BY <1>3, SessionStepsLeaveFiles DEF files, OthersMove
<1>4. ASSUME Die PROVE OthersMove
    BY <1>1, <1>4 DEF Die, Fail, OthersMove
<1>5. ASSUME NEW a \in Names, NEW b \in Names, Exchange(a, b) PROVE OthersMove
    BY <1>5 DEF Exchange, OthersMove
<1>6. ASSUME Write PROVE OthersMove
  <2>1. \A f \in Files : \/ content'[f] = content[f]
                         \/ /\ f = entry["store"]
                            /\ content'[f] = [content[f] EXCEPT !.writes = content[f].writes + 1]
      BY <1>6 DEF Write, TypeInv, FilesOK, ContentOK
  <2> QED BY <1>6, <2>1 DEF Write, OthersMove
<1> QED BY <1>2, <1>3, <1>4, <1>5, <1>6, NextIs, ServerLeavesTheCopy DEF TypeInv

LEMMA StepKeepsSource ==
    ASSUME TypeInv, Next
    PROVE SourceOpen'
<1> DEFINE m == Maintenance
<1>1. m \in Processes /\ "source" \in Handles
    BY NamesAre DEF Processes
<1>2. CASE CopyGoesOn
  <2>1. at'[m] = at[m] + 1 /\ at[m] \in Nat
      BY <1>1, <1>2 DEF CopyGoesOn, TypeInv, PlacesOK
  <2>2. CASE at[m] = 4
    <3>1. Connects(m, "source")
        BY <1>2, <2>2 DEF CopyGoesOn, CopyEffect, Effects
    <3>2. entry[NameOf("source")] # Null
        BY <3>1 DEF Connects
    <3>3. conn'[m]["source"] = entry[NameOf("source")]
        BY <1>1, <3>1 DEF Connects, TypeInv, FilesOK, HandlesOK
    <3> QED BY <3>2, <3>3 DEF SourceOpen
  <2>3. CASE at[m] # 4
    <3>1. conn'[m]["source"] = conn[m]["source"]
      <4>1. \/ conn' = conn
            \/ \E h \in {"target", "result"} : Connects(m, h)
          BY <1>2, <2>3 DEF CopyGoesOn, CopyEffect, Same, Opens, Makes, Begins, Copies
      <4>2. ASSUME NEW h \in {"target", "result"}, Connects(m, h)
            PROVE conn'[m]["source"] = conn[m]["source"]
          BY <1>1, <4>2 DEF Connects, TypeInv, FilesOK, HandlesOK
      <4> QED BY <4>1, <4>2
    <3> QED BY <2>1, <2>3, <3>1 DEF SourceOpen, TypeInv
  <2> QED BY <2>2, <2>3
<1>3. CASE CopyFails
    BY <1>3 DEF CopyFails, SourceOpen, TypeInv
<1>4. CASE OthersMove
    BY <1>4 DEF OthersMove, SourceOpen, TypeInv
<1> QED BY <1>2, <1>3, <1>4, OthersLeaveTheCopy

LEMMA StutterKeepsTypes == TypeInv /\ UNCHANGED vars => TypeInv'
<1> SUFFICES ASSUME TypeInv, UNCHANGED vars PROVE TypeInv'
    OBVIOUS
<1> USE DEF vars, files, TypeInv
<1>1. FilesOK'
    BY UnlinkKeepsFiles
<1>2. PlacesOK'
    BY DEF PlacesOK
<1>3. SessionsOK'
    BY DEF SessionsOK
<1>4. SourceOpen'
    BY DEF SourceOpen
<1> QED BY <1>1, <1>2, <1>3, <1>4

LEMMA TypesHold == Spec => []TypeInv
<1>1. TypeInv /\ [Next]_vars => TypeInv'
    BY StepKeepsFiles, StepKeepsPlaces, StepKeepsSessions, StepKeepsSource, StutterKeepsTypes
       DEF TypeInv
<1> QED BY <1>1, InitTypeInv, PTL DEF Spec

LEMMA TypesImply == TypeInv => FilesTypeOK
<1> SUFFICES ASSUME TypeInv PROVE FilesTypeOK
    OBVIOUS
<1> USE DEF TypeInv
<1>1. /\ entry \in [Names -> Files \cup {Null}]
      /\ \A a, b \in Names : a # b /\ entry[a] # Null => entry[a] # entry[b]
      /\ content \in [Files -> Content \cup {Null}]
      /\ \A n \in Names : entry[n] # Null => content[entry[n]] # Null
      /\ opened \in [Processes -> [Handles -> Files \cup {Null}]]
      /\ conn \in [Processes -> [Handles -> Files \cup {Null}]]
    BY DEF FilesOK, EntryOK, ContentOK, HandlesOK
<1>2. /\ endpoint \in [{"store", "copy"} -> {"none", "wide", "private", "stale"}]
      /\ binding \in [Servers -> Files \cup {Null}]
      /\ session \in [Clients -> Guarded \cup {"none", "asked", "verified", "idle",
                                             "answering", "ended", "closed"}]
      /\ lock \in [Servers -> Clients \cup {Null}]
      /\ \A c \in Clients : 0 <= answered[c] /\ answered[c] <= sent[c]
    BY DEF SessionsOK, Waiting, Guarded
<1>3. link \in [Clients -> {"none", "direct", "proxy"}]
    BY DEF PlacesOK
<1>4. ASSUME NEW p \in Servers PROVE at[p] \in 1..(Len(ScriptOf(p)) + 1)
  <2>1. p \in Processes /\ at[p] \in Nat /\ at[p] >= 1
      BY DEF PlacesOK, Processes
  <2>2. CASE p = Daemon
    <3>1. Len(ScriptOf(p)) = 24 /\ at[p] <= 25
        BY <2>2, LengthIs DEF PlacesOK
    <3> QED BY <2>1, <3>1
  <2>3. CASE p # Daemon /\ link[p] = "direct"
    <3>1. Len(ScriptOf(p)) = 23 /\ at[p] <= 24
        BY <2>3, LengthIs DEF PlacesOK, Clients
    <3> QED BY <2>1, <3>1
  <2>4. CASE p # Daemon /\ link[p] # "direct"
    <3>1. Len(ScriptOf(p)) = 16 /\ at[p] <= 17
      <4>1. p \in Clients /\ (link[p] = "none" \/ link[p] = "proxy")
          BY <2>4 DEF PlacesOK, Clients
      <4>2. at[p] <= 17
          BY <2>1, <4>1 DEF PlacesOK
      <4> QED BY <2>4, <4>2, LengthIs
    <3> QED BY <2>1, <3>1
  <2> QED BY <2>2, <2>3, <2>4
<1> QED BY <1>1, <1>2, <1>3, <1>4 DEF FilesTypeOK

(* The state is always well typed: names are never shared, and whatever is *)
(* named or open was made by somebody.                                     *)
THEOREM FilesTypeCorrect == Spec => []FilesTypeOK
BY TypesHold, TypesImply, PTL
-----------------------------------------------------------------------------
(* The sessions.                                                           *)
(*                                                                         *)
(* Whoever serves a session is done with its start: its binding and the    *)
(* connection it serves from do not change any more.  The daemon is, when  *)
(* its endpoint is private, and a client becomes its proxy only then.  A   *)
(* session that gets past the greeting has the daemon's binding.  A check  *)
(* that was passed stays true until the names are exchanged again.         *)
ServerIsReady ==
    /\ endpoint["store"] = "private" => at[Daemon] = 25
    /\ at[Daemon] >= 16 => conn[Daemon]["serving"] # Null
    /\ \A c \in Clients :
          /\ link[c] = "direct" /\ at[c] >= 17 => conn[c]["serving"] # Null
          /\ link[c] = "proxy" => at[Daemon] = 25

SessionIsServed(c) ==
    /\ session[c] \in Checking => link[c] = "proxy" \/ (link[c] = "direct" /\ at[c] = 24)
    /\ link[c] = "proxy" /\ session[c] \in Checking \cup {"idle", "answering"} =>
          binding[c] = binding[Daemon]

CheckedSoFar(c) ==
    since[c] = moves =>
        /\ session[c] \in {"bound", "handled"} => entry["store"] = conn[Owner(c)]["serving"]
        /\ session[c] = "handled" => entry["store"] = binding[Owner(c)]

AnswersInv == ServerIsReady /\ \A c \in Clients : SessionIsServed(c) /\ CheckedSoFar(c)

LEMMA ProcessesAre ==
    /\ Daemon \in Processes /\ Maintenance \in Processes /\ Daemon \in Servers
    /\ Clients \subseteq Servers /\ Servers \subseteq Processes /\ Daemon \notin Clients
    /\ Maintenance \notin Servers
BY SessionsAssumption, FilesAssumption DEF Processes, Clients

LEMMA InitAnswers == Init => AnswersInv
<1> SUFFICES ASSUME Init PROVE AnswersInv
    OBVIOUS
<1>1. PICK f \in Files \cup {Null} :
          /\ at[Daemon] = IF f = Null THEN 1 ELSE 25
          /\ opened[Daemon]["serving"] = f /\ conn = opened
          /\ endpoint["store"] = "private" => f # Null
    BY InitIs
<1>2. \A c \in Clients : link[c] = "none" /\ session[c] = "none"
    BY DEF Init
<1>3. ServerIsReady
    BY <1>1, <1>2 DEF ServerIsReady
<1> QED BY <1>2, <1>3 DEF AnswersInv, SessionIsServed, CheckedSoFar, Checking

(* What a server does to the connections, and where. *)
LEMMA ServingConnections ==
    ASSUME TypeInv, NEW p \in Servers, ServerGoesOn(p)
    PROVE /\ at'[p] = at[p] + 1 /\ \A q \in Processes \ {p} : at'[q] = at[q]
          /\ \A q \in Processes \ {p} : conn'[q]["serving"] = conn[q]["serving"]
          /\ IF IF p = Daemon THEN at[p] = 15 ELSE at[p] = 16 /\ link[p] = "direct"
             THEN conn'[p]["serving"] # Null
             ELSE conn'[p]["serving"] = conn[p]["serving"]
<1> USE DEF TypeInv
<1>1. p \in Processes
    BY ProcessesAre
<1>2. at'[p] = at[p] + 1 /\ \A q \in Processes \ {p} : at'[q] = at[q]
    BY <1>1 DEF ServerGoesOn, PlacesOK
<1> DEFINE Here2 == IF p = Daemon THEN at[p] = 15 ELSE at[p] = 16 /\ link[p] = "direct"
<1>3. CASE Here2
  <2>1. Connects(p, "serving")
      BY <1>3 DEF ServerGoesOn, ServerEffect, Special, Clients
  <2>2. /\ conn'[p]["serving"] = entry["store"] /\ entry["store"] # Null
        /\ \A q \in Processes \ {p} : conn'[q]["serving"] = conn[q]["serving"]
      BY <1>1, <2>1, NamesAre DEF Connects, FilesOK, HandlesOK
  <2> QED BY <1>2, <1>3, <2>2
<1>4. CASE ~Here2
  <2>1. conn' = conn \/ Connects(p, "lexical")
      BY <1>4 DEF ServerGoesOn, ServerEffect, Same, Opens, Makes
  <2>2. \A q \in Processes : conn'[q]["serving"] = conn[q]["serving"]
    <3>1. CASE Connects(p, "lexical")
        BY <1>1, <3>1, NamesAre DEF Connects, FilesOK, HandlesOK
    <3> QED BY <2>1, <3>1
  <2> QED BY <1>1, <1>2, <1>4, <2>2
<1> QED BY <1>3, <1>4

(* What a server does to the store's name: a file is made under it only    *)
(* when it names none.                                                     *)
LEMMA ServersKeepTheName ==
    ASSUME TypeInv, NEW p \in Servers, ServerGoesOn(p), entry["store"] # Null
    PROVE entry'["store"] = entry["store"]
<1>1. ASSUME NEW h \in {"lexical", "serving"}, Makes(p, h, Fresh(Configured)) PROVE FALSE
    BY <1>1, NamesAre DEF Makes
<1> QED BY <1>1 DEF ServerGoesOn, ServerEffect, Same, Opens, Connects

(* Whoever checks a request is done with its start, has a store to serve,  *)
(* and has the binding of the client.                                      *)
LEMMA OwnerIsSettled ==
    ASSUME TypeInv, AnswersInv, NEW c \in Clients, session[c] \in Checking
    PROVE /\ Owner(c) \in Servers /\ conn[Owner(c)]["serving"] # Null
          /\ binding[Owner(c)] = binding[c]
          /\ \/ link[c] = "proxy" /\ Owner(c) = Daemon /\ at[Daemon] = 25 /\ at[c] >= 14
             \/ link[c] = "direct" /\ Owner(c) = c /\ at[c] = 24
<1>1. CASE link[c] = "proxy"
    BY <1>1, ProcessesAre
       DEF TypeInv, PlacesOK, AnswersInv, ServerIsReady, SessionIsServed, Owner
<1>2. CASE link[c] = "direct" /\ at[c] = 24
    BY <1>2, ProcessesAre
       DEF TypeInv, PlacesOK, AnswersInv, ServerIsReady, SessionIsServed, Owner
<1> QED BY <1>1, <1>2 DEF AnswersInv, SessionIsServed

LEMMA ServerKeepsAnswers ==
    ASSUME TypeInv, AnswersInv, NEW p \in Servers, ServerGoesOn(p)
    PROVE AnswersInv'
<1> USE DEF TypeInv
<1>1. /\ at[Daemon] \in Nat /\ \A c \in Clients : at[c] \in Nat
      /\ at[Daemon] <= 25
    BY ProcessesAre DEF PlacesOK
<1>2. /\ at'[p] = at[p] + 1 /\ \A q \in Processes \ {p} : at'[q] = at[q]
      /\ \A q \in Processes \ {p} : conn'[q]["serving"] = conn[q]["serving"]
      /\ IF IF p = Daemon THEN at[p] = 15 ELSE at[p] = 16 /\ link[p] = "direct"
         THEN conn'[p]["serving"] # Null
         ELSE conn'[p]["serving"] = conn[p]["serving"]
    BY ServingConnections
<1>3. /\ moves' = moves /\ since' = since
      /\ \A q \in Servers : binding'[q] = binding[q] \/ (q = p /\ at[p] = 9)
    BY DEF ServerGoesOn, ServerEffect, sessions, SessionsOK
<1>4. at[p] \in Nat /\ at[p] <= 24 /\ (p \in Clients /\ link[p] = "direct" => at[p] <= 23)
  <2>1. at[p] \in 1..Len(ScriptOf(p))
      BY DEF ServerGoesOn
  <2>2. CASE p = Daemon
    <3>1. at[p] \in 1..24 /\ p \notin Clients
        BY <2>1, <2>2, LengthIs, ProcessesAre
    <3> QED BY <3>1
  <2>3. CASE p # Daemon /\ link[p] = "direct"
    <3>1. at[p] \in 1..23
        BY <2>1, <2>3, LengthIs
    <3> QED BY <3>1
  <2>4. CASE p # Daemon /\ link[p] # "direct"
    <3>1. at[p] \in 1..16
        BY <2>1, <2>4, LengthIs
    <3> QED BY <2>4, <3>1
  <2> QED BY <2>2, <2>3, <2>4
<1>5. at[Daemon] = 25 => p # Daemon /\ at'[Daemon] = 25
    BY <1>2, <1>4, ProcessesAre
<1>6. \/ UNCHANGED <<link, session>>
      \/ /\ p \in Clients /\ at[p] = 13 /\ link' = [link EXCEPT ![p] = "direct"]
         /\ session' = [session EXCEPT ![p] = "idle"]
      \/ /\ p \in Clients /\ at[p] = 13 /\ endpoint["store"] = "private"
         /\ link' = [link EXCEPT ![p] = "proxy"]
         /\ session' = [session EXCEPT ![p] = "asked"]
    BY DEF ServerGoesOn, ServerEffect, sessions
<1>7. ServerIsReady'
  <2>1. endpoint'["store"] = "private" => at'[Daemon] = 25
    <3>1. \/ endpoint' = endpoint
          \/ endpoint' = [endpoint EXCEPT !["store"] = "wide"]
          \/ p = Daemon /\ at[p] = 24
        BY DEF ServerGoesOn, ServerEffect
    <3>2. CASE endpoint' = endpoint
        BY <1>5, <3>2 DEF AnswersInv, ServerIsReady
    <3>3. CASE endpoint' = [endpoint EXCEPT !["store"] = "wide"]
        BY <3>3 DEF SessionsOK
    <3>4. CASE p = Daemon /\ at[p] = 24
        BY <1>2, <3>4
    <3> QED BY <3>1, <3>2, <3>3, <3>4
  <2>2. at'[Daemon] >= 16 => conn'[Daemon]["serving"] # Null
    <3>1. CASE p = Daemon
        BY <1>1, <1>2, <3>1 DEF AnswersInv, ServerIsReady
    <3>2. CASE p # Daemon
        BY <1>2, <3>2, ProcessesAre DEF AnswersInv, ServerIsReady
    <3> QED BY <3>1, <3>2
  <2>3. ASSUME NEW c \in Clients, link'[c] = "direct", at'[c] >= 17
        PROVE conn'[c]["serving"] # Null
    <3>1. link[c] = "direct"
      <4>1. CASE c = p /\ at[p] = 13
          BY <1>2, <2>3, <4>1
      <4>2. CASE ~(c = p /\ at[p] = 13)
          BY <1>6, <2>3, <4>2 DEF PlacesOK
      <4> QED BY <4>1, <4>2
    <3>2. CASE c = p
        BY <1>1, <1>2, <2>3, <3>1, <3>2, ProcessesAre DEF AnswersInv, ServerIsReady
    <3>3. CASE c # p
        BY <1>2, <2>3, <3>1, <3>3, ProcessesAre DEF AnswersInv, ServerIsReady
    <3> QED BY <3>2, <3>3
  <2>4. ASSUME NEW c \in Clients, link'[c] = "proxy" PROVE at'[Daemon] = 25
    <3>1. link[c] = "proxy" \/ endpoint["store"] = "private"
        BY <1>6, <2>4 DEF PlacesOK
    <3> QED BY <1>5, <3>1 DEF AnswersInv, ServerIsReady
  <2> QED BY <2>1, <2>2, <2>3, <2>4 DEF ServerIsReady
<1>8. ASSUME NEW c \in Clients PROVE SessionIsServed(c)' /\ CheckedSoFar(c)'
  <2>1. CASE c = p /\ at[p] = 13
    <3>1. \/ link'[c] = "direct" /\ session'[c] = "idle"
          \/ link'[c] = "proxy" /\ session'[c] = "asked"
      <4>1. at[p] \in Special(p) /\ p # Daemon
          BY <2>1, ProcessesAre DEF Special
      <4> QED BY <2>1, <4>1 DEF ServerGoesOn, ServerEffect, PlacesOK, SessionsOK
    <3> QED BY <3>1 DEF SessionIsServed, CheckedSoFar, Checking
  <2>2. CASE ~(c = p /\ at[p] = 13)
    <3>1. session'[c] = session[c] /\ link'[c] = link[c]
        BY <1>6, <2>2 DEF PlacesOK, SessionsOK
    <3>2. link[c] = "proxy" => binding'[c] = binding[c] /\ binding'[Daemon] = binding[Daemon]
        BY <1>1, <1>3, <1>5, ProcessesAre DEF PlacesOK, AnswersInv, ServerIsReady
    <3>3. session[c] \in Checking /\ link[c] = "direct" => p # c /\ at'[c] = 24
        BY <1>2, <1>4, ProcessesAre DEF AnswersInv, SessionIsServed
    <3>4. SessionIsServed(c)'
        BY <3>1, <3>2, <3>3 DEF AnswersInv, SessionIsServed
    <3>5. ASSUME since'[c] = moves', session'[c] \in {"bound", "handled"}
          PROVE /\ entry'["store"] = conn'[Owner(c)']["serving"]
                /\ session'[c] = "handled" => entry'["store"] = binding'[Owner(c)']
      <4> DEFINE q == Owner(c)
      <4>1. session[c] \in Checking /\ session[c] \in {"bound", "handled"} /\ since[c] = moves
          BY <1>3, <3>1, <3>5 DEF Checking
      <4>2. /\ q \in Servers /\ conn[q]["serving"] # Null
            /\ \/ link[c] = "proxy" /\ q = Daemon /\ at[Daemon] = 25 /\ at[c] >= 14
               \/ link[c] = "direct" /\ q = c /\ at[c] = 24
          BY <4>1, OwnerIsSettled
      <4>3. q # p /\ Owner(c)' = q
          BY <1>5, <3>1, <3>3, <4>1, <4>2 DEF Owner
      <4>4. conn'[q]["serving"] = conn[q]["serving"] /\ binding'[q] = binding[q]
          BY <1>2, <1>3, <4>2, <4>3, ProcessesAre
      <4>5. /\ entry["store"] = conn[q]["serving"]
            /\ session[c] = "handled" => entry["store"] = binding[q]
          BY <4>1 DEF AnswersInv, CheckedSoFar
      <4>6. entry'["store"] = entry["store"]
          BY <4>2, <4>5, ServersKeepTheName
      <4> HIDE DEF q
      <4> QED BY <3>1, <4>3, <4>4, <4>5, <4>6
    <3>6. CheckedSoFar(c)'
        BY <3>5 DEF CheckedSoFar
    <3> QED BY <3>4, <3>6
  <2> QED BY <2>1, <2>2
<1> QED BY <1>7, <1>8 DEF AnswersInv

LEMMA ServedLink ==
    ASSUME TypeInv, NEW c \in Clients, Serve(c)
    PROVE link[c] = "proxy" \/ (link[c] = "direct" /\ at[c] = 24)
<1> USE DEF TypeInv
<1>1. CASE link[c] = "proxy"
    BY <1>1
<1>2. CASE link[c] = "direct"
  <2>1. Ready(c) /\ at[c] <= 24 /\ at[c] \in Nat
      BY <1>2, ProcessesAre DEF Serve, PlacesOK
  <2>2. Len(ScriptOf(c)) = 23
      BY <1>2, LengthIs, ProcessesAre
  <2> QED BY <1>2, <2>1, <2>2 DEF Ready
<1>3. CASE link[c] = "none"
  <2>1. Ready(c) /\ at[c] <= 13 /\ at[c] \in Nat
      BY <1>3, ProcessesAre DEF Serve, PlacesOK
  <2>2. Len(ScriptOf(c)) = 16
      BY <1>3, LengthIs, ProcessesAre
  <2> QED BY <2>1, <2>2 DEF Ready
<1> QED BY <1>1, <1>2, <1>3 DEF PlacesOK

LEMMA SessionKeepsAnswers ==
    ASSUME TypeInv, AnswersInv, NEW c \in Clients, Greet(c) \/ Serve(c) \/ Send(c)
    PROVE AnswersInv'
<1> USE DEF TypeInv
<1>1. /\ UNCHANGED <<files, cast, binding, link>>
      /\ \A d \in Clients \ {c} : session'[d] = session[d] /\ since'[d] = since[d]
    BY SessionStepIs
<1>2. ServerIsReady'
    BY <1>1 DEF files, AnswersInv, ServerIsReady
<1>3. ASSUME NEW d \in Clients \ {c} PROVE SessionIsServed(d)' /\ CheckedSoFar(d)'
    BY <1>1 DEF files, AnswersInv, SessionIsServed, CheckedSoFar, Owner
<1>4. SessionIsServed(c)' /\ CheckedSoFar(c)'
  <2>1. CASE Send(c)
    <3>1. session' = session /\ since' = since
        BY <2>1 DEF Send
    <3> QED BY <1>1, <3>1 DEF files, AnswersInv, SessionIsServed, CheckedSoFar, Owner
  <2>2. CASE Greet(c)
    <3>1. \/ session'[c] \in {"greeting", "greeted", "closed", "verified"}
          \/ session'[c] = "idle" /\ binding[c] = binding[Daemon]
        BY <2>2 DEF Greet, At, Refuse, Close, Accept, SessionsOK
    <3> QED BY <1>1, <3>1 DEF files, SessionIsServed, CheckedSoFar, Checking
  <2>3. CASE Serve(c)
    <3>1. link[c] = "proxy" \/ (link[c] = "direct" /\ at[c] = 24)
        BY <2>3, ServedLink
    <3>2. Check(c) => \/ session'[c] = "closed"
                      \/ session'[c] \in {"moved", "bound", "handled"}
                           /\ session[c] \in Checking \cup {"idle"}
        BY DEF Check, Begin, At, Refuse, Close, Checking, SessionsOK
    <3>3. \/ session'[c] \in {"closed", "ended"}
          \/ /\ session'[c] \in Checking \cup {"idle", "answering"}
             /\ session[c] \in Checking \cup {"idle", "answering"}
        BY <2>3, <3>2 DEF Serve, Handle, Answer, At, Close, Checking, SessionsOK
    <3>4. SessionIsServed(c)'
        BY <1>1, <3>1, <3>3 DEF files, AnswersInv, SessionIsServed, Checking
    <3>5. CheckedSoFar(c)'
      <4>1. \/ session'[c] \notin {"bound", "handled"}
            \/ /\ session[c] = "moved" /\ session'[c] = "bound" /\ Unmoved(c) /\ UNCHANGED since
            \/ /\ session[c] = "bound" /\ session'[c] = "handled" /\ StillBound(c)
               /\ UNCHANGED since
          BY <2>3 DEF Serve, Check, Begin, Handle, Answer, At, Refuse, Close, SessionsOK
      <4> QED BY <1>1, <4>1
              DEF files, AnswersInv, CheckedSoFar, Unmoved, StillBound, Owner
    <3> QED BY <3>4, <3>5
  <2> QED BY <2>1, <2>2, <2>3
<1> QED BY <1>2, <1>3, <1>4 DEF AnswersInv

(* The copying command works on another name, and on its own handles.      *)
LEMMA CopyLeavesTheSessions ==
    ASSUME TypeInv, CopyGoesOn \/ CopyFails
    PROVE /\ entry'["store"] = entry["store"]
          /\ \A q \in Servers : conn'[q] = conn[q] /\ at'[q] = at[q]
          /\ UNCHANGED <<endpoint, moves>>
<1> USE DEF TypeInv
<1> DEFINE m == Maintenance
<1>1. m \in Processes /\ \A q \in Servers : q # m /\ q \in Processes
    BY ProcessesAre
<1>2. CASE CopyFails
    BY <1>2, NamesAre DEF CopyFails, FilesOK, EntryOK
<1>3. CASE CopyGoesOn
  <2>1. \A q \in Servers : at'[q] = at[q]
      BY <1>1, <1>3 DEF CopyGoesOn, PlacesOK
  <2>2. \/ UNCHANGED <<entry, conn>>
        \/ Makes(m, "target", Blank)
        \/ \E h \in {"source", "target", "result"} : Connects(m, h)
      BY <1>3 DEF CopyGoesOn, CopyEffect, Same, Opens, Begins, Copies
  <2>3. CASE UNCHANGED <<entry, conn>>
      BY <1>3, <2>1, <2>3 DEF CopyGoesOn
  <2>4. CASE Makes(m, "target", Blank)
    <3>1. entry'["store"] = entry["store"] /\ conn' = conn
        BY <2>4, NamesAre DEF Makes, FilesOK, EntryOK
    <3> QED BY <1>3, <2>1, <3>1 DEF CopyGoesOn
  <2>5. ASSUME NEW h \in {"source", "target", "result"}, Connects(m, h)
        PROVE entry' = entry /\ \A q \in Servers : conn'[q] = conn[q]
      BY <1>1, <2>5, NamesAre DEF Connects, FilesOK, HandlesOK
  <2> QED BY <1>3, <2>1, <2>2, <2>3, <2>4, <2>5 DEF CopyGoesOn
<1> QED BY <1>2, <1>3

LEMMA StepKeepsAnswers ==
    ASSUME TypeInv, AnswersInv, Next
    PROVE AnswersInv'
<1> USE DEF TypeInv
<1>1. ASSUME NEW p \in Servers, GivesUp(p) PROVE AnswersInv'
  <2>1. /\ UNCHANGED <<entry, endpoint, at, conn, moves, binding, link, since>>
        /\ session' = session \/ session' = [session EXCEPT ![p] = "closed"]
      BY <1>1 DEF GivesUp, GiveUp, Close
  <2>2. \A c \in Clients : session'[c] = session[c] \/ session'[c] = "closed"
      BY <2>1 DEF SessionsOK
  <2>3. ServerIsReady'
      BY <2>1 DEF AnswersInv, ServerIsReady
  <2>4. ASSUME NEW c \in Clients PROVE SessionIsServed(c)' /\ CheckedSoFar(c)'
      BY <2>1, <2>2 DEF AnswersInv, SessionIsServed, CheckedSoFar, Owner, Checking
  <2> QED BY <2>3, <2>4 DEF AnswersInv
<1>2. ASSUME CopyGoesOn \/ CopyFails, Elsewhere PROVE AnswersInv'
  <2>1. /\ entry'["store"] = entry["store"]
        /\ \A q \in Servers : conn'[q] = conn[q] /\ at'[q] = at[q]
        /\ UNCHANGED <<endpoint, moves, binding, link, session, since>>
      BY <1>2, CopyLeavesTheSessions DEF Elsewhere, sessions
  <2>2. ServerIsReady'
      BY <2>1, ProcessesAre DEF AnswersInv, ServerIsReady
  <2>3. ASSUME NEW c \in Clients PROVE SessionIsServed(c)' /\ CheckedSoFar(c)'
    <3>1. c \in Servers /\ Owner(c) \in Servers /\ Owner(c)' = Owner(c)
        BY <2>1, ProcessesAre DEF Owner
    <3> QED BY <2>1, <3>1 DEF AnswersInv, SessionIsServed, CheckedSoFar
  <2> QED BY <2>2, <2>3 DEF AnswersInv
<1>3. ASSUME Die PROVE AnswersInv'
  <2>1. UNCHANGED <<entry, at, conn, moves, binding, link, since>>
      BY <1>3 DEF Die
  <2>2. endpoint'["store"] = "private" => endpoint["store"] = "private"
      BY <1>3 DEF Die, SessionsOK
  <2>3. \A c \in Clients : session'[c] = session[c] \/ session'[c] = "closed"
      BY <1>3 DEF Die
  <2>4. ServerIsReady'
      BY <2>1, <2>2 DEF AnswersInv, ServerIsReady
  <2>5. ASSUME NEW c \in Clients PROVE SessionIsServed(c)' /\ CheckedSoFar(c)'
      BY <2>1, <2>3 DEF AnswersInv, SessionIsServed, CheckedSoFar, Owner, Checking
  <2> QED BY <2>4, <2>5 DEF AnswersInv
<1>4. ASSUME NEW a \in Names, NEW b \in Names, Exchange(a, b), Elsewhere PROVE AnswersInv'
  <2>1. /\ UNCHANGED <<endpoint, at, conn, binding, link, session, since>>
        /\ moves' = moves + 1
      BY <1>4 DEF Exchange, Elsewhere, sessions
  <2>2. ServerIsReady'
      BY <2>1 DEF AnswersInv, ServerIsReady
  <2>3. ASSUME NEW c \in Clients PROVE SessionIsServed(c)' /\ CheckedSoFar(c)'
    <3>1. since'[c] # moves'
        BY <2>1 DEF SessionsOK
    <3> QED BY <2>1, <3>1 DEF AnswersInv, SessionIsServed, CheckedSoFar
  <2> QED BY <2>2, <2>3 DEF AnswersInv
<1>5. ASSUME Write, Elsewhere PROVE AnswersInv'
    BY <1>5 DEF Write, Elsewhere, sessions,
                AnswersInv, ServerIsReady, SessionIsServed, CheckedSoFar, Owner
<1> QED BY <1>1, <1>2, <1>3, <1>4, <1>5, NextIs, ServerKeepsAnswers, SessionKeepsAnswers

LEMMA AnswersHold == Spec => []AnswersInv
<1>1. AnswersInv /\ UNCHANGED vars => AnswersInv'
    BY DEF vars, files, AnswersInv, ServerIsReady, SessionIsServed, CheckedSoFar, Owner
<1>2. TypeInv /\ AnswersInv /\ [Next]_vars => AnswersInv'
    BY <1>1, StepKeepsAnswers
<1> QED BY <1>2, InitAnswers, TypesHold, PTL DEF Spec

(* The lock.  It is held by a session that uses it, whose way to the store *)
(* is known: that way, and with it the lock, does not change any more.     *)
LockInv ==
    /\ LockIsHeldInUse
    /\ \A c \in Clients : session[c] \in Guarded => link[c] # "none"

LEMMA InitLock == Init => LockInv
BY DEF Init, LockInv, LockIsHeldInUse, Guarded, Checking

LEMMA SessionKeepsLock ==
    ASSUME TypeInv, LockInv, NEW c \in Clients, Greet(c) \/ Serve(c) \/ Send(c)
    PROVE LockInv'
<1> USE DEF TypeInv
<1>1. /\ link' = link /\ \A d \in Clients : Owner(d)' = Owner(d)
      /\ \A d \in Clients \ {c} : session'[d] = session[d]
    BY SessionStepIs DEF Owner
<1>2. \A d \in Clients : Owner(d) \in Servers
    BY SessionsAssumption DEF Owner, Clients
<1>3. lock \in [Servers -> Clients \cup {Null}]
    BY DEF SessionsOK
<1>4. lock' \in [Servers -> Clients \cup {Null}]
    BY SessionStepKeepsLock
<1>5. CASE lock' = lock /\ (session'[c] \in Guarded <=> session[c] \in Guarded)
    BY <1>1, <1>3, <1>5 DEF LockInv, LockIsHeldInUse, Holds
<1>6. CASE Free(Owner(c)) /\ Take(c) /\ session'[c] \in Guarded /\ (Greet(c) \/ Serve(c))
  <2>1. lock' = [lock EXCEPT ![Owner(c)] = c] /\ lock[Owner(c)] = Null
      BY <1>6 DEF Free, Take
  <2>2. link[c] # "none"
      BY <1>6, ServedLink DEF Greet
  <2>3. \A d \in Clients \ {c} : session[d] \in Guarded => Owner(d) # Owner(c)
      BY <2>1, SessionsAssumption DEF LockInv, LockIsHeldInUse, Holds, Clients
  <2>4. ASSUME NEW p \in Servers, NEW d \in Clients, lock'[p] = d
        PROVE Owner(d)' = p /\ session'[d] \in Guarded
    <3>1. CASE p = Owner(c)
        BY <1>1, <1>2, <1>3, <1>6, <2>1, <2>4, <3>1
    <3>2. CASE p # Owner(c)
      <4>1. lock[p] = d /\ d # Null
          BY <1>3, <2>1, <2>4, <3>2, SessionsAssumption DEF Clients
      <4>2. Owner(d) = p /\ session[d] \in Guarded
          BY <4>1 DEF LockInv, LockIsHeldInUse
      <4> QED BY <1>1, <1>6, <4>2
    <3> QED BY <3>1, <3>2
  <2>5. ASSUME NEW d \in Clients, session'[d] \in Guarded PROVE Holds(d)'
      BY <1>1, <1>2, <1>3, <2>1, <2>3, <2>5 DEF LockInv, LockIsHeldInUse, Holds
  <2> QED BY <1>1, <1>4, <2>2, <2>4, <2>5 DEF LockInv, LockIsHeldInUse
<1>7. CASE Drop(c) /\ session[c] \in Guarded /\ session'[c] \notin Guarded
  <2>1. lock' = [lock EXCEPT ![Owner(c)] = Null] /\ lock[Owner(c)] = c
      BY <1>7 DEF Drop, LockInv, LockIsHeldInUse, Holds
  <2>2. \A d \in Clients \ {c} : session[d] \in Guarded => Owner(d) # Owner(c)
      BY <2>1 DEF LockInv, LockIsHeldInUse, Holds
  <2>3. ASSUME NEW p \in Servers, NEW d \in Clients, lock'[p] = d, d # Null
        PROVE Owner(d)' = p /\ session'[d] \in Guarded
    <3>1. p # Owner(c) /\ lock[p] = d
        BY <1>2, <1>3, <2>1, <2>3
    <3>2. Owner(d) = p /\ session[d] \in Guarded
        BY <2>3, <3>1 DEF LockInv, LockIsHeldInUse
    <3>3. d # c
        BY <1>2, <3>1, <3>2
    <3> QED BY <1>1, <3>2, <3>3
  <2>4. ASSUME NEW d \in Clients, session'[d] \in Guarded PROVE Holds(d)'
      BY <1>1, <1>2, <1>3, <1>7, <2>1, <2>2, <2>4 DEF LockInv, LockIsHeldInUse, Holds
  <2> QED BY <1>1, <1>7, <1>4, <2>3, <2>4 DEF LockInv, LockIsHeldInUse
<1> QED BY <1>5, <1>6, <1>7, LockStepIs

LEMMA StepKeepsLock ==
    ASSUME TypeInv, LockInv, Next
    PROVE LockInv'
<1> USE DEF TypeInv
<1>0. lock \in [Servers -> Clients \cup {Null}]
    BY DEF SessionsOK
<1>1. ASSUME NEW p \in Servers, ServerGoesOn(p) PROVE LockInv'
  <2>1. /\ lock' = lock
        /\ \/ UNCHANGED <<link, session>>
           \/ /\ p \in Clients /\ at[p] = 13
              /\ \E way \in {"direct", "proxy"} : link' = [link EXCEPT ![p] = way]
              /\ \E w \in {"idle", "asked"} : session' = [session EXCEPT ![p] = w]
      BY <1>1 DEF ServerGoesOn, ServerEffect, sessions
  <2>2. CASE UNCHANGED <<link, session>>
      BY <2>1, <2>2 DEF LockInv, LockIsHeldInUse, Holds, Owner
  <2>3. CASE p \in Clients /\ at[p] = 13 /\ ~UNCHANGED <<link, session>>
    <3>1. session[p] \notin Guarded
        BY <2>3 DEF PlacesOK, LockInv
    <3>2. \A q \in Servers : lock[q] # Null => lock[q] # p
        BY <3>1 DEF LockInv, LockIsHeldInUse
    <3>3. session'[p] \notin Guarded
        BY <2>1, <2>3 DEF SessionsOK, Guarded, Checking
    <3>4. \A d \in Clients \ {p} : session'[d] = session[d] /\ link'[d] = link[d]
        BY <2>1, <2>3 DEF SessionsOK, PlacesOK
    <3>5. \A d \in Clients \ {p} : Owner(d)' = Owner(d)
        BY <3>4 DEF Owner
    <3> QED BY <1>0, <2>1, <3>2, <3>3, <3>4, <3>5 DEF LockInv, LockIsHeldInUse, Holds
  <2> QED BY <2>1, <2>2, <2>3
<1>2. ASSUME NEW p \in Servers, GivesUp(p) PROVE LockInv'
  <2>1. /\ UNCHANGED <<link, lock>>
        /\ \/ session' = session
           \/ p \in Clients /\ ~Holds(p) /\ session' = [session EXCEPT ![p] = "closed"]
      BY <1>2 DEF GivesUp, GiveUp, Close
  <2>2. CASE session' = session
      BY <2>1, <2>2 DEF LockInv, LockIsHeldInUse, Holds, Owner
  <2>3. CASE p \in Clients /\ ~Holds(p) /\ session' = [session EXCEPT ![p] = "closed"]
    <3>1. \A q \in Servers : lock[q] # Null => lock[q] # p
        BY <2>3 DEF LockInv, LockIsHeldInUse, Holds
    <3>2. session'[p] \notin Guarded /\ \A d \in Clients \ {p} : session'[d] = session[d]
        BY <2>3 DEF SessionsOK, Guarded, Checking
    <3>3. \A d \in Clients : Owner(d)' = Owner(d)
        BY <2>1 DEF Owner
    <3> QED BY <1>0, <2>1, <3>1, <3>2, <3>3 DEF LockInv, LockIsHeldInUse, Holds
  <2> QED BY <2>1, <2>2, <2>3
<1>3. ASSUME Elsewhere PROVE LockInv'
    BY <1>3 DEF Elsewhere, sessions, LockInv, LockIsHeldInUse, Holds, Owner
<1>4. ASSUME Die PROVE LockInv'
  <2>1. /\ UNCHANGED link /\ lock' = [lock EXCEPT ![Daemon] = Null]
        /\ session' = [c \in Clients |-> IF Owner(c) = Daemon THEN "closed" ELSE session[c]]
      BY <1>4 DEF Die
  <2>2. "closed" \notin Guarded
      BY DEF Guarded, Checking
  <2>3. \A d \in Clients : Owner(d)' = Owner(d) /\ Owner(d) \in Servers
      BY <2>1, SessionsAssumption DEF Owner, Clients
  <2>4. ASSUME NEW p \in Servers, NEW d \in Clients, lock'[p] = d, d # Null
        PROVE Owner(d)' = p /\ session'[d] \in Guarded
    <3>1. p # Daemon /\ lock[p] = d
        BY <1>0, <2>1, <2>4
    <3>2. Owner(d) = p /\ session[d] \in Guarded
        BY <2>4, <3>1 DEF LockInv, LockIsHeldInUse
    <3> QED BY <2>1, <2>3, <3>1, <3>2
  <2>5. ASSUME NEW d \in Clients, session'[d] \in Guarded
        PROVE Holds(d)' /\ link'[d] # "none"
    <3>1. Owner(d) # Daemon /\ session[d] \in Guarded
        BY <2>1, <2>2, <2>5
    <3>2. lock[Owner(d)] = d /\ link[d] # "none"
        BY <3>1 DEF LockInv, LockIsHeldInUse, Holds
    <3> QED BY <1>0, <2>1, <2>3, <3>1, <3>2 DEF Holds
  <2>6. lock' \in [Servers -> Clients \cup {Null}]
      BY <1>0, <2>1
  <2> QED BY <2>4, <2>5, <2>6 DEF LockInv, LockIsHeldInUse
<1> QED BY <1>1, <1>2, <1>3, <1>4, NextIs, SessionKeepsLock

(* Whoever holds the lock of a store is a session of that server that is   *)
(* verifying its binding or handling a request, and every session that     *)
(* does so holds it: for any number of clients and requests, whichever of  *)
(* them are refused or give up, and should the daemon die at any point     *)
(* (mcp/protocol.rs:serve_daemon, serve_io_checked).                       *)
THEOREM LockIsNeverLeft == Spec => []LockIsHeldInUse
<1>1. LockInv /\ UNCHANGED vars => LockInv'
    BY DEF vars, LockInv, LockIsHeldInUse, Holds, Owner
<1>2. TypeInv /\ LockInv /\ [Next]_vars => LockInv'
    BY <1>1, StepKeepsLock
<1>3. LockInv => LockIsHeldInUse
    BY DEF LockInv
<1> QED BY <1>2, <1>3, InitLock, TypesHold, PTL DEF Spec

(* A request is handled on the file its client is bound to, by the name it *)
(* is bound to, unless the name moved during the check of that request:    *)
(* for any number of clients, requests and renames, whoever serves the     *)
(* session, and should the daemon die at any point                         *)
(* (mcp/protocol.rs:serve_io_checked, mcp/transport.rs:accept).            *)
THEOREM AnswersAreBound == Spec => []AnswersComeFromTheBoundFile
<1>1. TypeInv /\ AnswersInv => AnswersComeFromTheBoundFile
  <2> SUFFICES ASSUME TypeInv, AnswersInv, NEW c \in Clients,
                      session[c] = "handled", since[c] = moves
               PROVE /\ conn[Owner(c)]["serving"] = binding[c]
                     /\ entry["store"] = binding[c]
      BY DEF AnswersComeFromTheBoundFile
  <2>1. binding[Owner(c)] = binding[c]
      BY OwnerIsSettled DEF Checking
  <2> QED BY <2>1 DEF AnswersInv, CheckedSoFar
<1> QED BY <1>1, TypesHold, AnswersHold, PTL
-----------------------------------------------------------------------------
(* Backup and restore.                                                     *)
(*                                                                         *)
(* Displaced says what it takes for the new connection to be of another    *)
(* file than the one the command created, while the four checks after the  *)
(* open are made: the name was given away before the open, which is one    *)
(* exchange, and every check that was passed found it on the other side.   *)
Ours == opened[Maintenance]["target"]
Opened == conn[Maintenance]["target"]
Source == conn[Maintenance]["source"]
Result == conn[Maintenance]["result"]
Away == entry["copy"] # Ours
Place == at[Maintenance]

Displaced ==
    Opened # Ours =>
        /\ Place = 16 => IF Away THEN moves >= 1 ELSE moves >= 2
        /\ Place = 17 => IF Away THEN moves >= 3 ELSE moves >= 2
        /\ Place = 18 => IF Away THEN moves >= 3 ELSE moves >= 4
        /\ Place = 19 => IF Away THEN moves >= 5 ELSE moves >= 4
        /\ Place >= 20 => moves >= 5

(* Before anybody renamed anything every name and handle of the copy is    *)
(* that of the file the command created.                                   *)
Undisturbed ==
    moves = 0 => /\ Place >= 14 => ~Away
                 /\ Place >= 16 => Opened = Ours
                 /\ Place >= 36 => Result = Ours
                 /\ Place >= 23 => content[Opened].writes <= content[Source].writes

HandlesSoFar ==
    /\ Place >= 14 <=> Ours # Null
    /\ Place >= 16 => Opened # Null
    /\ Place >= 34 => opened[Maintenance]["result"] # Null
    /\ Place >= 36 => Result # Null

ResultIsWhole ==
    Place >= 41 => content[Result].whole /\ content[Result].identity = Configured

CopyInv ==
    /\ HandlesSoFar
    /\ Maintenance \notin failed => Displaced /\ Undisturbed /\ ResultIsWhole

(* What a step of the command changes, by its place. *)
LEMMA CopyChanges ==
    ASSUME TypeInv, CopyGoesOn
    PROVE /\ Place \in 1..43 /\ Place' = Place + 1 /\ moves' = moves
          /\ Maintenance \notin failed /\ failed' = failed
          /\ IF Place = 13
             THEN Ours' \in Files /\ entry'["copy"] = Ours' /\ content[Ours'] = Null
             ELSE Ours' = Ours /\ entry'["copy"] = entry["copy"]
          /\ IF Place = 15 THEN Opened' = entry["copy"] /\ entry["copy"] # Null
             ELSE Opened' = Opened
          /\ Place # 4 => Source' = Source
          /\ IF Place = 33 THEN opened'[Maintenance]["result"] # Null
             ELSE opened'[Maintenance]["result"] = opened[Maintenance]["result"]
          /\ IF Place = 35 THEN Result' = entry["copy"] /\ entry["copy"] # Null
             ELSE Result' = Result
          /\ Place = 13 => \A f \in Files : f # Ours' => content'[f] = content[f]
          /\ Place \in {21, 22} => \A f \in Files : f # Opened => content'[f] = content[f]
          /\ Place = 22 /\ Opened \in Files => content'[Opened] = content[Source]
          /\ Place \notin {13, 21, 22} => content' = content
          /\ Place \in {16, 18} => ~Away
          /\ Place \in {17, 19} => entry["copy"] = Opened
          /\ Place = 40 => content[Result].whole /\ content[Result].identity = Configured
<1> USE DEF TypeInv
<1> DEFINE m == Maintenance
           i == Place
           res == opened[m]["result"]
<1>1. m \in Processes
    BY ProcessesAre
<1>2. /\ i \in 1..43 /\ Place' = i + 1 /\ moves' = moves
      /\ m \notin failed /\ failed' = failed /\ CopyEffect(i)
    BY <1>1 DEF CopyGoesOn, Place, PlacesOK
<1> USE DEF Ours, Opened, Source, Result, Away
<1>3. CASE i \notin Effects
  <2>1. /\ Same
        /\ i \in {16, 18} => entry["copy"] = opened[m]["target"]
        /\ i \in {17, 19} => entry["copy"] = conn[m]["target"]
        /\ i = 40 => content[Result].whole /\ content[Result].identity = Configured
      BY <1>2, <1>3 DEF CopyEffect, Effects
  <2> QED BY <1>2, <1>3, <2>1 DEF Same, Effects
<1>4. CASE i = 2 \/ i = 33
  <2>1. /\ i = 2 => Opens(m, "source")
        /\ i = 33 => Opens(m, "result") /\ entry["copy"] # Null
      BY <1>2, <1>4 DEF CopyEffect, Effects
  <2>2. /\ UNCHANGED <<entry, content, conn>> /\ Ours' = Ours
        /\ i = 2 => res' = res
        /\ i = 33 => res' = entry["copy"]
      BY <1>1, <1>4, <2>1, NamesAre DEF Opens, FilesOK, HandlesOK
  <2> QED BY <1>2, <1>4, <2>1, <2>2
<1>5. CASE i = 4 \/ i = 15 \/ i = 35
  <2>1. /\ i = 4 => Connects(m, "source")
        /\ i = 15 => Connects(m, "target")
        /\ i = 35 => Connects(m, "result")
      BY <1>2, <1>5 DEF CopyEffect, Effects
  <2>2. UNCHANGED <<entry, content, opened>>
      BY <1>5, <2>1 DEF Connects
  <2>3. /\ i = 4 => Opened' = Opened /\ Result' = Result
        /\ i = 15 => /\ Source' = Source /\ Result' = Result
                     /\ Opened' = entry["copy"] /\ entry["copy"] # Null
        /\ i = 35 => /\ Source' = Source /\ Opened' = Opened
                     /\ Result' = entry["copy"] /\ entry["copy"] # Null
      BY <1>1, <2>1, NamesAre DEF Connects, FilesOK, HandlesOK
  <2> QED BY <1>2, <1>5, <2>2, <2>3
<1>6. CASE i = 13
  <2>1. Makes(m, "target", Blank)
      BY <1>2, <1>6 DEF CopyEffect, Effects
  <2>2. PICK f \in Unused : /\ entry' = [entry EXCEPT !["copy"] = f]
                            /\ content' = [content EXCEPT ![f] = Blank]
                            /\ opened' = [opened EXCEPT ![m]["target"] = f]
      BY <2>1, NamesAre DEF Makes
  <2>3. conn' = conn /\ f \in Files /\ content[f] = Null
      BY <2>1 DEF Makes, Unused
  <2>4. Ours' = f /\ res' = res /\ entry'["copy"] = f
      BY <1>1, <2>2, NamesAre DEF FilesOK, EntryOK, HandlesOK
  <2>5. \A g \in Files : g # f => content'[g] = content[g]
      BY <2>2 DEF FilesOK, ContentOK
  <2> QED BY <1>2, <1>6, <2>3, <2>4, <2>5
<1>7. CASE i = 21 \/ i = 22
  <2>1. /\ i = 21 => Begins(m, "target")
        /\ i = 22 => Copies(m, "target")
      BY <1>2, <1>7 DEF CopyEffect, Effects
  <2>2. UNCHANGED <<entry, opened, conn>>
      BY <1>7, <2>1 DEF Begins, Copies
  <2>3. \A f \in Files : f # Opened => content'[f] = content[f]
      BY <1>7, <2>1 DEF Begins, Copies, FilesOK, ContentOK
  <2>4. i = 22 /\ Opened \in Files => content'[Opened] = content[Source]
      BY <2>1 DEF Copies, FilesOK, ContentOK
  <2> QED BY <1>2, <1>7, <2>2, <2>3, <2>4
<1> QED BY <1>3, <1>4, <1>5, <1>6, <1>7 DEF Effects

LEMMA InitCopy == Init => CopyInv
<1> SUFFICES ASSUME Init PROVE CopyInv
    OBVIOUS
<1>1. Place = 1 /\ Ours = Null
    BY InitIs, ProcessesAre, NamesAre DEF Place, Ours
<1> QED BY <1>1 DEF CopyInv, HandlesSoFar, Displaced, Undisturbed, ResultIsWhole

(* The counters and files CopyInv speaks of. *)
LEMMA CopyTypes ==
    ASSUME TypeInv
    PROVE /\ Place \in Nat /\ Place >= 1 /\ Place <= 44 /\ moves \in Nat
          /\ Ours \in Files \cup {Null} /\ Opened \in Files \cup {Null}
          /\ Source \in Files \cup {Null} /\ Result \in Files \cup {Null}
          /\ Opened # Null => content[Opened] \in Content
          /\ Source # Null => content[Source] \in Content
          /\ Result # Null => content[Result] \in Content
          /\ Place >= 5 => Source # Null
BY ProcessesAre, NamesAre
   DEF TypeInv, FilesOK, ContentOK, HandlesOK, PlacesOK, SessionsOK, SourceOpen,
       Place, Ours, Opened, Source, Result

LEMMA CopyStepKeepsCopy ==
    ASSUME TypeInv, CopyInv, CopyGoesOn
    PROVE CopyInv'
<1> DEFINE res == opened[Maintenance]["result"]
<1>1. /\ Place \in 1..43 /\ Place' = Place + 1 /\ moves' = moves /\ moves \in Nat
      /\ Maintenance \notin failed /\ failed' = failed
    BY CopyChanges, CopyTypes
<1>2. HandlesSoFar /\ Displaced /\ Undisturbed /\ ResultIsWhole
    BY <1>1 DEF CopyInv
<1>3. HandlesSoFar'
  <2>1. Ours' # Null <=> Place >= 13
      BY <1>1, <1>2, CopyChanges, ContentsAre DEF HandlesSoFar
  <2>2. Place >= 15 => Opened' # Null
      BY <1>1, <1>2, CopyChanges DEF HandlesSoFar
  <2>3. Place >= 33 => res' # Null
      BY <1>1, <1>2, CopyChanges DEF HandlesSoFar
  <2>4. Place >= 35 => Result' # Null
      BY <1>1, <1>2, CopyChanges DEF HandlesSoFar
  <2> QED BY <1>1, <2>1, <2>2, <2>3, <2>4 DEF HandlesSoFar
<1>4. Displaced'
  <2>1. CASE Place <= 14
      BY <1>1, <2>1 DEF Displaced
  <2>2. CASE Place = 15
    <3>1. Opened' = entry["copy"] /\ Ours' = Ours /\ entry'["copy"] = entry["copy"]
        BY <2>2, CopyChanges
    <3>2. Away => moves >= 1
        BY <1>1, <1>2, <2>2 DEF Undisturbed
    <3> QED BY <1>1, <2>2, <3>1, <3>2 DEF Displaced, Away
  <2>3. CASE Place \in 16..43
    <3>1. Opened' = Opened /\ Ours' = Ours /\ entry'["copy"] = entry["copy"] /\ (Away' <=> Away)
        BY <2>3, CopyChanges DEF Away
    <3>2. /\ Place \in {16, 18} => ~Away
          /\ Place \in {17, 19} /\ Opened # Ours => Away
        BY CopyChanges DEF Away
    <3> QED BY <1>1, <1>2, <2>3, <3>1, <3>2 DEF Displaced
  <2> QED BY <1>1, <2>1, <2>2, <2>3
<1>5. Undisturbed'
  <2> SUFFICES ASSUME moves = 0 PROVE Undisturbed'
      BY <1>1 DEF Undisturbed
  <2>1. Place >= 13 => ~Away'
      BY <1>1, <1>2, CopyChanges DEF Undisturbed, Away
  <2>2. Place >= 15 => Opened' = Ours'
      BY <1>1, <1>2, CopyChanges DEF Undisturbed, Away
  <2>3. Place >= 35 => Result' = Ours'
      BY <1>1, <1>2, CopyChanges DEF Undisturbed, Away
  <2>4. Place >= 22 => content'[Opened'].writes <= content'[Source'].writes
    <3>1. CASE Place = 22
      <4>1. Opened \in Files /\ Opened' = Opened /\ Source' = Source /\ Source \in Files
          BY <1>2, <3>1, CopyTypes, CopyChanges DEF HandlesSoFar
      <4>2. content'[Opened] = content[Source] /\ content'[Source] = content[Source]
          BY <3>1, <4>1, CopyChanges
      <4>3. content[Source].writes \in Nat
          BY <4>1, CopyTypes, ContentsAre DEF Content
      <4> QED BY <4>1, <4>2, <4>3
    <3>2. CASE Place \in 23..43
      <4>1. Opened' = Opened /\ Source' = Source /\ content' = content
          BY <3>2, CopyChanges
      <4> QED BY <1>2, <3>2, <4>1 DEF Undisturbed
    <3> QED BY <1>1, <3>1, <3>2
  <2> QED BY <1>1, <2>1, <2>2, <2>3, <2>4 DEF Undisturbed
<1>6. ResultIsWhole'
  <2> SUFFICES ASSUME Place \in 40..43 PROVE ResultIsWhole'
      BY <1>1 DEF ResultIsWhole
  <2>1. Result' = Result /\ content' = content
      BY CopyChanges
  <2> QED BY <1>1, <1>2, <2>1, CopyChanges DEF ResultIsWhole
<1> QED BY <1>3, <1>4, <1>5, <1>6 DEF CopyInv

LEMMA OthersKeepCopy ==
    ASSUME TypeInv, CopyInv, OthersMove
    PROVE CopyInv'
<1>1. /\ Place' = Place /\ Ours' = Ours /\ Opened' = Opened /\ Source' = Source
      /\ Result' = Result
      /\ opened'[Maintenance]["result"] = opened[Maintenance]["result"]
      /\ Maintenance \in failed' <=> Maintenance \in failed
    BY DEF OthersMove, Place, Ours, Opened, Source, Result
<1>2. \/ moves' = moves /\ entry'["copy"] = entry["copy"] /\ (Away' <=> Away)
      \/ moves' = moves + 1
    BY <1>1 DEF OthersMove, Away
<1>3. HandlesSoFar'
    BY <1>1 DEF CopyInv, HandlesSoFar
<1> SUFFICES ASSUME Maintenance \notin failed
             PROVE Displaced' /\ Undisturbed' /\ ResultIsWhole'
    BY <1>1, <1>3 DEF CopyInv
<1>4. HandlesSoFar /\ Displaced /\ Undisturbed /\ ResultIsWhole
    BY DEF CopyInv
<1>5. Displaced'
  <2>1. CASE moves' = moves /\ (Away' <=> Away)
      BY <1>1, <1>4, <2>1 DEF Displaced
  <2>2. CASE moves' = moves + 1
      BY <1>1, <1>4, <2>2, CopyTypes DEF Displaced
  <2> QED BY <1>2, <2>1, <2>2
<1>6. ASSUME NEW f \in Files, content[f] \in Content
      PROVE /\ content'[f].whole = content[f].whole
            /\ content'[f].identity = content[f].identity
            /\ content'[f].writes \in Nat /\ content'[f].writes >= content[f].writes
            /\ f # entry["store"] => content'[f] = content[f]
  <2>1. content[f] # Null /\ content[f].writes \in Nat
      BY <1>6, ContentsAre DEF Content
  <2>2. \/ content'[f] = content[f]
        \/ /\ f = entry["store"]
           /\ content'[f] = [content[f] EXCEPT !.writes = content[f].writes + 1]
      BY <2>1 DEF OthersMove
  <2> QED BY <1>6, <2>1, <2>2 DEF Content
<1>7. Undisturbed'
  <2> SUFFICES ASSUME moves' = 0 PROVE Undisturbed'
      BY DEF Undisturbed
  <2>1. moves = 0 /\ (Away' <=> Away)
      BY <1>2, CopyTypes
  <2>2. Place >= 23 => content'[Opened].writes <= content'[Source].writes
    <3> SUFFICES ASSUME Place >= 23 PROVE content'[Opened].writes <= content'[Source].writes
        OBVIOUS
    <3>1. /\ Opened # Null /\ Source # Null /\ Opened = Ours /\ entry["copy"] = Ours
          /\ content[Opened].writes <= content[Source].writes
        BY <1>4, <2>1, CopyTypes DEF HandlesSoFar, Undisturbed, Away
    <3>2. Opened # entry["store"]
        BY <3>1, NamesAre DEF TypeInv, FilesOK, EntryOK
    <3>3. /\ content[Opened] \in Content /\ content[Source] \in Content
          /\ Opened \in Files /\ Source \in Files
        BY <3>1, CopyTypes
    <3>4. /\ content'[Opened] = content[Opened] /\ content'[Source].writes \in Nat
          /\ content'[Source].writes >= content[Source].writes
        BY <1>6, <3>2, <3>3
    <3>5. content[Opened].writes \in Nat /\ content[Source].writes \in Nat
        BY <3>3 DEF Content
    <3> QED BY <3>1, <3>4, <3>5
  <2> QED BY <1>1, <1>4, <2>1, <2>2 DEF Undisturbed
<1>8. ResultIsWhole'
  <2> SUFFICES ASSUME Place >= 41 PROVE ResultIsWhole'
      BY <1>1 DEF ResultIsWhole
  <2>1. Result \in Files /\ content[Result] \in Content
      BY <1>4, CopyTypes DEF HandlesSoFar
  <2> QED BY <1>1, <1>4, <1>6, <2>1 DEF ResultIsWhole
<1> QED BY <1>5, <1>7, <1>8

LEMMA CopyFailsKeepsCopy == CopyInv /\ CopyFails => CopyInv'
BY DEF CopyFails, CopyInv, HandlesSoFar, Place, Ours, Opened, Source, Result

LEMMA StutterKeepsCopy == CopyInv /\ UNCHANGED vars => CopyInv'
BY DEF vars, files, CopyInv, HandlesSoFar, Displaced, Undisturbed, ResultIsWhole,
       Place, Ours, Opened, Source, Result, Away

LEMMA CopyHolds == Spec => []CopyInv
<1>1. TypeInv /\ CopyInv /\ [Next]_vars => CopyInv'
    BY OthersLeaveTheCopy, CopyStepKeepsCopy, CopyFailsKeepsCopy, OthersKeepCopy, StutterKeepsCopy
<1> QED BY <1>1, InitCopy, TypesHold, PTL DEF Spec

(* A backup or restore that reports success has left a whole store with    *)
(* the configured identity, and, when nobody renamed anything, the file it *)
(* made, under its name, without a write its source does not hold          *)
(* (db/backup.rs:backup_to_with, bin/maintenance).                         *)
THEOREM BackupsAreWhole == Spec => []BackupIsWhole
<1>1. TypeInv /\ CopyInv => BackupIsWhole
  <2> SUFFICES ASSUME TypeInv, CopyInv, Maintenance \notin failed, Finished(Maintenance)
               PROVE /\ content[Result].whole /\ content[Result].identity = Configured
                     /\ moves = 0 => /\ Result = Ours /\ entry["copy"] = Result
                                     /\ content[Result].writes <= content[Source].writes
      BY DEF BackupIsWhole, Result, Ours, Source
  <2>1. Place = 44
    <3>1. Len(CopyCommand) = 43
        BY CopyCommandIs
    <3>2. Place > 43
        BY <3>1 DEF Finished, Place
    <3> QED BY <3>2, CopyTypes
  <2> QED BY <2>1 DEF CopyInv, ResultIsWhole, Undisturbed, Away
<1> QED BY <1>1, TypesHold, CopyHolds, PTL

(* The copy is written into no file but the one the command created, for   *)
(* any number of processes, as long as the names were exchanged fewer than *)
(* five times: each of the four checks after the open costs one exchange   *)
(* more (private_store_path.rs:verify_connection_target).                  *)
THEOREM BackupKeepsToItsFile == Spec => BackupWritesOnlyItsFile
<1> DEFINE A == \A f \in Files :
                   /\ content'[f] # content[f] /\ at'[Maintenance] # at[Maintenance]
                   /\ moves < 5
                   => opened'[Maintenance]["target"] = f
<1>1. TypeInv /\ CopyInv /\ Next => A
  <2> SUFFICES ASSUME TypeInv, CopyInv, Next, NEW f \in Files,
                      content'[f] # content[f], at'[Maintenance] # at[Maintenance], moves < 5
               PROVE Ours' = f
      BY DEF Ours
  <2>1. CopyGoesOn
      BY OthersLeaveTheCopy DEF CopyFails, OthersMove
  <2>2. Place \in {13, 21, 22}
      BY <2>1, CopyChanges
  <2>3. CASE Place = 13
      BY <2>1, <2>3, CopyChanges
  <2>4. CASE Place \in {21, 22}
    <3>1. Opened = f /\ Ours' = Ours
        BY <2>1, <2>4, CopyChanges
    <3>2. Displaced
        BY <2>1, CopyChanges DEF CopyInv
    <3>3. Opened = Ours
        BY <2>4, <3>2, CopyTypes DEF Displaced
    <3> QED BY <3>1, <3>3
  <2> QED BY <2>2, <2>3, <2>4
<1>2. TypeInv /\ CopyInv /\ [Next]_vars => [A]_vars
    BY <1>1
<1> QED BY <1>2, TypesHold, CopyHolds, PTL DEF Spec, BackupWritesOnlyItsFile

(* A backup that failed, before anybody renamed anything, has left its     *)
(* destination as it was (db/backup.rs: the cleanup after an error).       *)
THEOREM FailureLeavesNoTrace == Spec => FailedBackupLeavesNoTrace
<1> DEFINE A == /\ Maintenance \in failed' \ failed /\ moves = 0
                /\ opened[Maintenance]["result"] = Null
                => entry' = [entry EXCEPT !["copy"] =
                                IF opened[Maintenance]["target"] = Null THEN @ ELSE Null]
<1>1. TypeInv /\ CopyInv /\ Next => A
  <2> SUFFICES ASSUME TypeInv, CopyInv, Next, Maintenance \in failed' \ failed, moves = 0,
                      opened[Maintenance]["result"] = Null
               PROVE entry' = [entry EXCEPT !["copy"] =
                                  IF Ours = Null THEN entry["copy"] ELSE Null]
      BY DEF Ours
  <2>1. CopyFails
      BY OthersLeaveTheCopy, CopyChanges DEF OthersMove
  <2>2. entry' = IF Place \in 13..32 /\ Ours # Null
                 THEN [entry EXCEPT !["copy"] = Null] ELSE entry
      BY <2>1 DEF CopyFails, Place, Ours
  <2>3. HandlesSoFar /\ Undisturbed /\ Place \in Nat
      BY CopyTypes DEF CopyInv
  <2>4. Ours # Null => Place \in 13..32
    <3>1. Ours # Null => Place >= 14 /\ Place < 34
        BY <2>3 DEF HandlesSoFar
    <3>2. Place # 33
      <4> SUFFICES ASSUME Place = 33 PROVE FALSE
          OBVIOUS
      <4>1. entry["copy"] = Null
          BY <2>1 DEF CopyFails, Place
      <4>2. entry["copy"] = Ours /\ Ours # Null
          BY <2>3 DEF Undisturbed, HandlesSoFar, Away
      <4> QED BY <4>1, <4>2
    <3> QED BY <2>3, <3>1, <3>2
  <2>5. entry = [entry EXCEPT !["copy"] = entry["copy"]]
      BY DEF TypeInv, FilesOK, EntryOK
  <2> QED BY <2>2, <2>4, <2>5
<1>2. TypeInv /\ CopyInv /\ [Next]_vars => [A]_vars
    BY <1>1
<1> QED BY <1>2, TypesHold, CopyHolds, PTL DEF Spec, FailedBackupLeavesNoTrace
===============================================================================
