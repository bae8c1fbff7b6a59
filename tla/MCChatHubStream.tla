--------------------------- MODULE MCChatHubStream ---------------------------
(* Small answers for ChatHubStream.                                          *)
EXTENDS ChatHubStream

\* A remark followed by the answer proper.
TwoMessages == << <<"a", "b">>, <<"c", "b", "c">> >>

\* Requests that lack something, and lists with attachments of each kind.
SmallRequests ==
    [credentials : BOOLEAN, text : BOOLEAN,
     attachments : {<<>>, <<"image", "other", "image">>, <<"image", "corrupt">>}]
=============================================================================
