---------------------------- MODULE EimsScripts ----------------------------
(***************************************************************************)
(* What the message handlers of the EIMS server do with the database: each *)
(* handler of other/script/*.lua is the sequence of the statements it      *)
(* sends, with the test it makes of each result and what it does when the  *)
(* test fails, for a request whose rows let it run to its end; where the   *)
(* rows or the message decide between sequences that write, each is a      *)
(* script of its own, and a request turned down after selects has only     *)
(* read.  Consecutive plain selects that are tested alike are one Ask; the *)
(* texts of the statements are left out, and so are the handlers that only *)
(* select, which HeartBeatPacket stands for.                               *)
(***************************************************************************)
LOCAL INSTANCE Sequences

(***************************************************************************)
(* op     : "plain" is oper_db, "trans" is oper_db_trans_exc_v2, "raise"   *)
(*          is a Lua error, which ends the handler where it stands;        *)
(* commit : the second argument of oper_db_trans_exc_v2;                   *)
(* writes : the statement changes a row;                                   *)
(* test   : what counts as a success, "zero" (result ~= 0 fails) or        *)
(*          "nonneg" (result < 0 fails);                                   *)
(* undo   : the handler calls rollback() when the test fails.              *)
(***************************************************************************)
Statement == [op : {"plain", "trans", "raise"}, commit : BOOLEAN,
              writes : BOOLEAN, test : {"zero", "nonneg"}, undo : BOOLEAN]

Plain(writes, undo) == [op |-> "plain", commit |-> FALSE, writes |-> writes,
                        test |-> "zero", undo |-> undo]
Ask == Plain(FALSE, FALSE)
Put == Plain(TRUE, FALSE)
Trans(commit, test, undo) == [op |-> "trans", commit |-> commit, writes |-> TRUE,
                              test |-> test, undo |-> undo]
Raise == [op |-> "raise", commit |-> FALSE, writes |-> FALSE,
          test |-> "zero", undo |-> FALSE]

\* The usual statements of a transaction, and those tested for zero.
Part == Trans(FALSE, "nonneg", FALSE)
Final == Trans(TRUE, "nonneg", FALSE)
StrictPart == Trans(FALSE, "zero", FALSE)
StrictFinal == Trans(TRUE, "zero", FALSE)

\* Before the handler of a message the client's key and whether the user is
\* online are looked up, and the time of his last message is stored.  Of the
\* messages of users who may not be logged in only the key is looked up: a
\* select that joins their handler's own.
Preamble == <<Ask, Put>>
LookAndPut == Preamble \o <<Ask, Put>>

\* A new client's key is stored without any script.
KeyExchange == <<Put>>

-----------------------------------------------------------------------------
(* eims_authenticate.lua *)
Login == <<Ask, Part, Part, Final>>
\* A wrong password, or no right to the site: the event is recorded.
LoginDenied == <<Ask, Put>>
\* A user who is in none of a site's groups: the last select is tested for
\* "< 0", and its rows are asked of mysql, a name no script defines.
LoginSiteUser == <<Ask, [Ask EXCEPT !.test = "nonneg"], Raise>>
Logout == Preamble \o <<Part, Part, Final>>
DeleteAuthGroup == Preamble \o <<Ask, Part, Part, Part, Final>>
AddApplicationInstances == LookAndPut
EditGroupInformation == LookAndPut
AddUserInSiteGroup == Preamble \o <<Ask, Trans(FALSE, "nonneg", TRUE), Final>>
DeleteUserInSiteGroup == Preamble \o <<Ask, StrictPart, StrictFinal>>
SetGroupOrUserRole == LookAndPut
CreateGroup == Preamble \o <<Ask, Final>>

(* eims_usermgr.lua *)
UpdateUserInfo == LookAndPut
SetUserState == Preamble \o <<Put>>
ChangePassword == LookAndPut
ResetPassword == <<Ask, Part, Final>>
GetUseridByEmail == <<Ask, Put>>
ParentChangeChildPassword == LookAndPut
\* The number is stored only if it is a new one.
MobileVerify(new) == Preamble \o <<Ask>> \o (IF new THEN <<Part>> ELSE <<>>) \o <<Part, Final>>
MobileVerifyStep2 == LookAndPut
\* The select is tested for "< 0".
OwnerDelUser == Preamble \o <<[Ask EXCEPT !.test = "nonneg"], Put>>
UpdateUserLoginState == LookAndPut
OnlyVerifyMobile == Preamble \o <<Ask, Part, Final>>
EmailVerify == Preamble \o <<Ask, Part, Final>>
EmailVerify2 == LookAndPut

(* eims_appmgr.lua *)
\* An account whose new id is a reserved one is given away, and inserted again.
CreateAppUser(reserved) ==
    <<Ask, Part>> \o (IF reserved THEN <<Part, Part>> ELSE <<>>) \o <<Part, Part, Final>>
CreateSoftOwner(reserved) ==
    LET undone == Trans(FALSE, "nonneg", TRUE) IN
    <<Ask, undone>> \o (IF reserved THEN <<Part, undone>> ELSE <<>>)
    \o <<undone, undone, undone, undone, Trans(TRUE, "nonneg", TRUE)>>
AddAppAuth == LookAndPut

(* eims_sitemgr.lua *)
EditSiteFtpInfo == Preamble \o <<Ask, StrictPart, StrictFinal>>
EditSiteBaseInfo == Preamble \o <<Ask, StrictPart, StrictFinal>>
EditSiteVersionInfo == LookAndPut
UpdateWebsiteInfo == Preamble \o <<Ask, StrictPart, StrictFinal>>
\* The second select is sent to mysql, too.
GetSiteDefaultResource == Preamble \o <<Ask, Raise>>
ApplyMobileSite == Preamble \o <<Ask, Part, Final>>
OpenCloseMobileSite == LookAndPut
SetWebServices == LookAndPut
\* The site of an application (app_id above 1), which may be one that is
\* installed for its users by itself.
NewSite(installed) == Preamble \o <<Ask, Part>> \o (IF installed THEN <<Part>> ELSE <<>>)
CreateAppSite(installed) == NewSite(installed) \o <<Final>>
\* The user has one that was taken out of service, which is put back.
RestoreAppSite == LookAndPut
\* Any other site: the next statement is built from siteid, which no line
\* of the script sets, and eims_safety(nil) raises an error.
CreateSite(installed) == NewSite(installed) \o <<Raise>>
\* By the site's owner.  For another user the script sends its last select
\* as a part of the transaction, whose rows mysql_cnt does not fetch: left out.
DeleteSite == Preamble \o <<Ask, Trans(FALSE, "zero", TRUE), Trans(TRUE, "zero", TRUE)>>
ChangeSiteOwner == Preamble \o <<Ask, StrictPart, StrictPart, StrictPart, StrictPart, StrictFinal>>
AddSiteUser == LookAndPut
RemoveSiteUser == LookAndPut
\* The select between the second and the fourth statement is a plain one,
\* and a failure of it is rolled back.
ChangeSiteOwnerSetOwnerAsUser ==
    LET undone == Trans(FALSE, "nonneg", TRUE) IN
    Preamble \o <<Ask, Part, undone, Plain(FALSE, TRUE), undone, undone, undone,
                  Trans(TRUE, "nonneg", TRUE)>>
EditSiteInfoDb == Preamble \o <<Ask, Part, Part, Final>>

(* eims_notifymgr.lua and eims_basemgr.lua *)
GetUserNotifies == Preamble \o <<Ask, StrictFinal>>
SendChatMessage == Preamble \o <<Put>>
GetChatMessage == LookAndPut
GetUserAppNotifys == LookAndPut
GetUserAppNotifysReadcount == LookAndPut
GetSystemNotifysReadcount == LookAndPut
HeartBeatPacket == Preamble \o <<Ask>>

-----------------------------------------------------------------------------
\* The handlers by the message that calls them.
EimsScript ==
    [keyExchange |-> KeyExchange, login |-> Login, loginDenied |-> LoginDenied,
     loginSiteUser |-> LoginSiteUser, logout |-> Logout,
     deleteGroup |-> DeleteAuthGroup, addInstances |-> AddApplicationInstances,
     editGroup |-> EditGroupInformation, addUser |-> AddUserInSiteGroup,
     deleteUser |-> DeleteUserInSiteGroup, setRole |-> SetGroupOrUserRole,
     createGroup |-> CreateGroup,
     updateUser |-> UpdateUserInfo, setState |-> SetUserState, changePassword |-> ChangePassword,
     resetPassword |-> ResetPassword, useridByEmail |-> GetUseridByEmail,
     changeChild |-> ParentChangeChildPassword, verifyMobile |-> MobileVerify(FALSE),
     verifyNewMobile |-> MobileVerify(TRUE), verifyMobile2 |-> MobileVerifyStep2,
     ownerDelUser |-> OwnerDelUser, loginState |-> UpdateUserLoginState,
     onlyVerify |-> OnlyVerifyMobile, verifyEmail |-> EmailVerify, verifyEmail2 |-> EmailVerify2,
     createAppUser |-> CreateAppUser(FALSE), createAppUserReserved |-> CreateAppUser(TRUE),
     createOwner |-> CreateSoftOwner(FALSE), createOwnerReserved |-> CreateSoftOwner(TRUE),
     addAppAuth |-> AddAppAuth,
     editFtp |-> EditSiteFtpInfo, editBase |-> EditSiteBaseInfo, editVersion |-> EditSiteVersionInfo,
     updateWebsite |-> UpdateWebsiteInfo, siteResource |-> GetSiteDefaultResource,
     applyMobile |-> ApplyMobileSite, openMobile |-> OpenCloseMobileSite,
     setServices |-> SetWebServices,
     createAppSite |-> CreateAppSite(FALSE), createInstalledAppSite |-> CreateAppSite(TRUE),
     restoreAppSite |-> RestoreAppSite,
     createSite |-> CreateSite(FALSE), createInstalledSite |-> CreateSite(TRUE),
     deleteSite |-> DeleteSite, changeOwner |-> ChangeSiteOwner, addSiteUser |-> AddSiteUser,
     removeSiteUser |-> RemoveSiteUser, changeOwnerSetUser |-> ChangeSiteOwnerSetOwnerAsUser,
     editDb |-> EditSiteInfoDb,
     getNotifies |-> GetUserNotifies, sendChat |-> SendChatMessage, getChat |-> GetChatMessage,
     getAppNotifys |-> GetUserAppNotifys, appReadcount |-> GetUserAppNotifysReadcount,
     systemReadcount |-> GetSystemNotifysReadcount, heartBeat |-> HeartBeatPacket]
=============================================================================
