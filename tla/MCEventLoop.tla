---------------------------- MODULE MCEventLoop ----------------------------
(***************************************************************************)
(* Small instances of EventLoop: all short feeds over few timestamps, all  *)
(* handlers that make at most MaxRequests schedule calls.                  *)
(***************************************************************************)
EXTENDS EventLoop, SequencesExt

CONSTANTS MaxTime, MaxSeq, MaxFeed, MaxRequests, e1

MCEvents == {e1}

Keys == [ts : 0..MaxTime, seq : 0..MaxSeq, event : MCEvents]

AnyFeeds == BoundedSeq(Keys, MaxFeed)


\* Requests may also fall after the last market event.
MCHandlers ==
  [requests : BoundedSeq([ts : 0..(MaxTime + 1), event : MCEvents], MaxRequests),
   throws   : BOOLEAN]
=============================================================================
