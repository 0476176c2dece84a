---------------------------- MODULE MCGenerators ----------------------------
EXTENDS Generators

CONSTANTS user, superUser

\* The name of the type SuperUserService ends in that of UserService.
LikeNames == {<<superUser, user>>}
=============================================================================
