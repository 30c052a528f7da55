-------------------------------- MODULE Jwt --------------------------------
(***************************************************************************)
(* @oakbun/jwt: signJwt and verifyToken (jwt/src/utils.ts), jwtPlugin      *)
(* (plugin.ts).  Keys are values: an RSA pair is a public and a private    *)
(* key, a secret is its own pair; a signature is the key it was made with. *)
(*                                                                         *)
(* A config has an algorithm, a signKey (secret or privateKey) and a       *)
(* verifyKey (secret or publicKey, "bad" if it cannot be imported); a key  *)
(* that is not there is Null.  A claim that is not in a token is Null, aud *)
(* is a set.                                                               *)
(***************************************************************************)
EXTENDS Integers

CONSTANT Null

\* The key that verifies what key signed.
Public(key) == IF key = "private" THEN "public" ELSE key

\* WeakSecretError; the secret called "weak" is shorter than 32 characters.
Weak(config) == config.algorithm = "HS256" /\ config.signKey = "weak"

\* Every claim of the payload, but iat is the time of signing; Null for a throw.
SignJwt(payload, config, now) ==
  IF Weak(config) \/ config.signKey = Null THEN Null
  ELSE [alg |-> config.algorithm, signature |-> Public(config.signKey), readable |-> TRUE,
        claims |-> [payload EXCEPT !.iat = now]]

Rejected(code) == [ok |-> FALSE, code |-> code, claims |-> Null]
Accepted(claims) == [ok |-> TRUE, code |-> Null, claims |-> claims]

\* jwtVerify() of jose with the errors of mapJoseError(): time is checked last.
JwtVerify(token, key, algorithm, skew, issuer, audience, now) ==
  LET c == token.claims
  IN CASE ~token.readable \/ token.alg # algorithm \/ token.signature # key -> Rejected("TOKEN_INVALID")
       [] issuer # Null /\ c.iss # issuer                                 -> Rejected("TOKEN_INVALID")
       [] audience # Null /\ (c.aud = Null \/ audience \notin c.aud)      -> Rejected("TOKEN_INVALID")
       [] c.nbf # Null /\ c.nbf > now + skew                              -> Rejected("TOKEN_INVALID")
       [] c.exp # Null /\ c.exp <= now - skew                             -> Rejected("TOKEN_EXPIRED")
       [] OTHER                                                           -> Accepted(c)

\* importVerifyKey() throws without a public key, which is an invalid token too.
VerifyToken(token, config, cachedKey, options, now) ==
  IF cachedKey = Null /\ config.verifyKey = Null THEN Rejected("TOKEN_INVALID")
  ELSE JwtVerify(token, IF cachedKey = Null THEN config.verifyKey ELSE cachedKey, config.algorithm,
                 options.skew, options.issuer, options.audience, now)

\* "" behind Bearer is no token, nor is an empty cookie.
TokenOf(req, source) ==
  LET header == IF source \in {"header", "auto"} THEN req.bearer ELSE Null
  IN IF header # Null THEN header
     ELSE IF source \in {"cookie", "auto"} THEN req.cookie ELSE Null

\* The key imported once; a key that cannot be read throws on every request.
CachedKey(config) == config.verifyKey

\* The plugin's request(): the claims become ctx.jwtUser.
JwtRequest(req, config, options, now) ==
  LET token == TokenOf(req, options.source)
  IN CASE CachedKey(config) = "bad"                             -> Rejected("INTERNAL")
       [] CachedKey(config) # "bad" /\ token # Null             ->
            VerifyToken(token, config, CachedKey(config), options, now)
       [] OTHER -> IF options.optional THEN Accepted(Null) ELSE Rejected("TOKEN_INVALID")

=============================================================================
